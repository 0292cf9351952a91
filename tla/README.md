# xdperf in TLA+

xdperf generates network traffic. A WASM plugin builds the packets, a Go client writes them into BPF maps,
and an XDP program run by `BPF_PROG_TEST_RUN` replaces the bytes of a sample frame by them and sends the
frame out, as often as it is told. These modules model the program from its source. TLC checks the models
on small instances, and TLAPS proves what matters most for every value of the constants.

To check a run: `tlc -workers 2 -config MCClient.cfg MCClient`. To check the proofs: `tlapm XdpTx_proofs.tla`.
`PROJECT.json` says which lines each definition models, which mutation of a definition breaks each property,
and where each hazard is in the code. All line numbers there and here are those of the repository.

## 1. The system

| Component | Source | State it keeps | Operations |
|---|---|---|---|
| Datapath | `src/xdp_prog.c`, `.h` | per-CPU maps: `tx_override_map` (2048 slots), `seq_state_map` (next slot), `stats_map` | `xdp_tx` |
| Map initialisation | `pkg/xdperf/bpf.go` | none of its own, writes the maps | `initSeqStateMap`, `initTxOverrideMap` |
| Client driver | `pkg/xdperf/xdperf.go` | cleanup list, wait group, context, workers, signal channel | `NewXdperf`, `StartClient`, `runTXPacket`, `run`, `Close` |
| Command line | `cmd/xdperf/main.go`, `pkg/xdperf/config.go` | flags | `run`, `Validate` |
| Statistics reporter | `pkg/xdperf/stats.go` | `recs`, previous sums | `ShowStats` |
| Sample packet | `pkg/xdperf/packet.go` | none | `BuildSamplePacket` |
| Plugin manager | `pkg/plugin/manager.go` | `plugins`, `mu`, the wazero runtime | `LoadPlugin`, `UnloadPlugin`, `GetPlugin`, `CallPlugin`, `InitPlugin`, `ListPlugins`, `Close` |
| Plugin call protocol | `manager.go` 273-352, `generator.go`, `verifier.go` | the guest's memory and allocator | `CallInit`, `CallProcess`, `writeToMemory`, the adapters |
| Timestamps of metrics | `manager.go` 62-69, 79-117 | none | `host_report_metric`, `parseTimestamp` |
| Plugin simpleudp | `plugins/simpleudp` | none | `plugin_process`: the packet, its lengths and its two checksums |
| Logger, object loading, data types, `xdpcap.h` | `pkg/logger`, `pkg/coreelf`, `pkg/plugin/types.go`, `src/xdpcap.h` | none | constructors, generated code, declarations |

How they interact. `main.run` validates the flags and calls `NewXdperf`, which makes the logger, the plugin
manager, loads one plugin and the BPF object, and registers what `Close` has to release. `StartClient` calls
the plugin (a synchronous call through the guest's memory), converts its answer to entries, writes the two
maps and starts one worker for each unit of parallelism. A worker is two goroutines: an outer one, which the
wait group counts and which waits for the context, and an inner one, which locks its OS thread, pins it to
CPU *w* and enters the kernel. The kernel runs `xdp_tx`, which shares the per-CPU maps with user space.
`ShowStats` reads `stats_map` every second. The main goroutine waits for SIGINT or SIGTERM, cancels, waits
for the wait group and calls `Close`.

What is hard in it, with the property that is about it (the whole list, at its lines, is "hazards" in
`PROJECT.json`):

- the two halves of the slot ring are in two languages: who fills a slot, and which slot a run uses
  (`FramesAreTheEntry`, `OneFramePerCPU`, `AbortIsFinal`);
- per-CPU state without a lock, right only if no two Runs are on one CPU (`OneRunPerCPU`, `OkRunHasSent`);
- shares of a count, with division, a zero that the kernel reads as one, a conversion to 32 bits, and a system call
  that is issued again as a whole when a signal interrupts it (`SharesAreSent`, `RepeatsCoverCount`);
- a shutdown that may not wait for the kernel, with goroutines nobody joins, and signals at any time
  (`SignalEndsTheClient`, `CleanReturn`, `EverythingCleaned`);
- a map that is read word by word while it changes, and unsigned differences of what was read
  (`ReportedIsReal`, `BytesKeepUp`, `CancelEndsShowStats`);
- a registry whose lock is released before the plugin is used, and an unload that may fail half-way
  (`StaleCallFails`, `RegisteredIsOpen`, `OpenIsRegistered`, `CleanupOnce`, `CloseCleansUp`, `EveryCallReturns`, and
  `RegistrySpec`, which says what all callers together may see);
- a result that is copied out of freed memory, error codes that share a number with lengths, and early
  returns that free nothing (`OutputIsTheAnswer`, `BlocksAreSafe`, `LostBlocks`);
- a packet whose length is counted three times in two programs, in an int, in 16 bits and in the 2048 bytes of a
  slot, and checksums with an odd end, carries and a zero (`HeadersAreValid`, `DatagramsAreValid`,
  `AnswersAreSent`, `SentIsAPrefix`);
- a time whose unit is guessed from its magnitude, and products of 64 bits (`TimeIsRead`).

## 2. The modules

```
FrameStream <--- XdpTx <--- Client         Registry <--- PluginManager    ShowStats       PluginCall   Timestamp
 (promise)   implements  \-- SimpleUdp     (promise)  implements          (one goroutine  (one call)   (of a metric)
                         use   |                                          against xdp_tx)
                             Packet (pure)
```

**FrameStream** is the abstract specification of the datapath: each CPU is assigned one frame, once, and every
frame that leaves on it is that frame.

**XdpTx** models `xdp_tx`, its maps and their initialisation. `tx_override_map`, `seq_state_map` and
`stats_map` are the maps, column `c` for CPU `c`. `initSeqStateMap` and `initTxOverrideMap` are the two writes
of `initEbpfMap`, each of which can fail (`phase` says how far user space is). `xdp_tx(c)` is one run of the
program: `xdp_tx_aborted` for a failed tail adjustment, `xdp_tx_sent` for the path that clamps the length,
copies the template, advances the slot and counts. A run is one step because the kernel keeps it on its CPU
with bottom halves disabled and every map is per CPU. `sent`, `aborted` and `entries` are histories. Bytes
are opaque, lengths are not.

**Client** models one client process over XdpTx: `pc` is where the main goroutine is, `outer` and `inner` are
the two goroutines of each worker, `wired` the goroutines locked to their thread, `left` the repetitions the
kernel still has to do, `interrupts` how often a Run was interrupted and issued again (`Run_interrupted`), `notified` and `sig` the signal channel of capacity one. Every call that can fail has
a branch in which it does. `Signal` is the environment; before `signal.Notify` it ends the process. Exiting
ends all goroutines.

**ShowStats** looks inside what XdpTx takes as one step: the two counters are written one after the other, and
the lookup copies one 64-bit word at a time. `tick`, `lookup_word`, `lookup_failed`, `print_rate` and `return`
are the loop; `cancel` and `close_map` are what the client does to it.

**PluginManager** models the registry with several goroutines as callers. `writer` and `readers` are the
RWMutex, `open` and `closed` the runtime. Each method is the steps between which another goroutine can be
seen: taking the lock, the lookup, instantiation, the plugin's cleanup, the close. `call[c]` is what the
goroutine holds, including the names `Close` has collected. `made`, `refused`, `unclosed`, `cleanups` and
`found` are histories.

**Registry** is the abstract specification of the manager: no lock, no runtime, no steps in between. A method is begun,
takes effect on the registry in one step and answers for that step, so that what a caller can tell from the answers
is what it could tell if nobody else were at work. Two methods are more than one step, because others can see them
half-way: an unload cleans up before it removes the plugin, and `Close` unloads one name after the other. A plugin is loaded
once and under one name, cleans up at most once, is called only while it is loaded, and leaves the registry closed. The
refinement mapping (`Promise` in PluginManager) takes a module as known from the step that registers it, so that one that is
being made or was refused is not seen at all.

**PluginCall** models one call through the guest's memory: `mem` and `allocated` are the guest's blocks, `in`
and `out` the pointers of the host. Each call into the guest is a step (`writeToMemory`, `malloc_out`,
`plugin_process`, `free_in`, `free_out`, `plugin_init`) and can trap; `CloseModule` is another goroutine. The
answer's 32 bits, signed in the plugin and unsigned in the host, are `Uint32`.

**Packet** is the pure part of the plugin simpleudp: the frame byte by byte (`WriteEthernet`, `IPv4Header`,
`UDPSegment`, the checksums in between as the code computes them), and, for the properties, what a receiver makes of
a frame, with sums of its own: `Verifies(BytesSum(...))` is the receiver's one's complement sum over bytes, not the
code's over words. The loop of additions is `Total`, a recursive function that sums in halves, so that TLC does not
recurse 65,535 deep; `TotalAdds` proves that it is the running sum of the loop.

**SimpleUdp** follows one request to the wire: `plugin_process` answers with the packet (`Answered`) or fails the
way the code does, and then `fill` and `send` are the actions of XdpTx on its answer. `input` is the request,
`answer` the number `plugin_process` returns, `resp` the list of packets. The client of this repository makes only one
kind of request: `callPlugin` (`xdperf.go:148`) sends a count and `device_mac_addr`, so every other field has its default
and the payload 1024 bytes. The module is the plugin and the datapath for every request the plugin's README describes.

**Timestamp** models `host_report_metric` with `parseTimestamp`: the cases of its switch as `IsOrder`, the first
that holds as `Order`, the product modulo 2^64 and its conversion to int64. `reported` remembers the instant
and the unit the plugin counted it in; `metric` is what is printed.

`MC*.tla` give the constants values, `*_proofs.tla` hold the proofs. A definition whose name ends in a suffix
after an underscore and whose comment says "Mutant" is a plausible bug that a property must notice; no
specification uses it.

## 3. The runs

| Run | Configuration | States | What it shows |
|---|---|---|---|
| `ring` | `MCXdpTx.cfg` | 2,364 | 2 CPUs, 3 slots: `DatapathInv`, `OneFramePerCPU`, `AbortIsFinal` |
| `one_slot` | `MCXdpTxOneSlot.cfg` | 3,959 | 2 CPUs, 1 slot, where many frames leave: types, `FramesAreTheEntry`, `StatsCountTransmits`, and XdpTx implements FrameStream |
| `client` | `MCClient.cfg` | 78,795 | the whole client: up to 3 workers, 2 CPUs online of 3, every failure, a packet the datapath aborts, 2 signals, Runs that are interrupted |
| `stats` | `MCShowStats.cfg` | 159,650 | every interleaving of lookup and counting on 2 CPUs |
| `plugin_manager` | `MCPluginManager.cfg` | 220,213 | 2 goroutines, 2 names, 3 instances, 2 operations each, and PluginManager implements Registry |
| `plugin_call` | `MCPluginCall.cfg` | 940,308 | 4 calls, 4 blocks, failures anywhere, a close at any time |
| `simple_udp` | `MCSimpleUdp.cfg` | 182 | 36 requests at the boundaries of lengths and checksums, from `plugin_process` to the frame, cut by the slot and by the 16 bits of its length |
| `metric_time` | `MCTimestamp.cfg` | 115,236 | 4 clocks, about 3,600 instants in each of 4 units |
| `ring_of_slots` | `MCClientRing.cfg` | violation | finding 1 |
| `remainder` | `MCClientShare.cfg` | violation | finding 2 |
| `wide_count` | `MCClientWide.cfg` | violation | finding 3 |

What the properties say is stated above each of them in its module.

### Bounds, and why they are enough

- *Datapath.* The order of the sizes is that of the real ones: ETH_HLEN 14 -> 2, the sample frame 1500 -> 3, a
  slot 2048 -> 4 bytes. The entries have every kind of length: zero, below, at and above each of these sizes,
  and shorter than the data they come with; the lists have zero to three entries for two CPUs, so that the
  deal wraps, is exact, and leaves some over. `FrameBound` = 3 frames per CPU: with one slot the index
  has wrapped several times, with three a CPU that could send would have come round. The proofs are for all sizes.
- *Client.* Three workers on two online CPUs of three: two neighbours that could meet on one CPU, and one that
  cannot be pinned. Counts up to 4 (3 in the violations) have every relation to the parallelism: equal, a multiple,
  with a remainder. A Run is interrupted once (`InterruptBound`), between any two of its repetitions; `FrameBound` leaves
  room for what it sends again. Two signals: one is received, one stays
  in the channel or is dropped. The plugin answers one packet, two packets of which one is below an Ethernet header, so that
  its CPU aborts, none, or a length its data does not have. `RepeatModulus` stands for 2^32: 16 where it is out of reach, 2 in `wide_count`, where it is the point.
  There are 1 slot (most frames) and, in `ring_of_slots`, 2.
- *ShowStats.* Two frames of two bytes on each of two CPUs, unbounded lookups: a record can change before,
  between and after the copies of its two words, and two lookups can differ. `CounterMod` = 64 cannot wrap
  upwards, as 2^64 cannot in practice; a difference below zero would still be seen as a wrap.
- *PluginManager.* Two operations for each of two goroutines over two names: a load and a load, a load and an
  unload, a call or a close that overlap with any other operation; three instances let a name be loaded again while
  a caller still holds the old one. The lock makes longer histories repeat these.
- *PluginCall.* Four blocks are what two failed calls lose at most, so that later calls meet full memory; four calls
  leave room for failures before and after a success. One answer length and four error codes (those of simpleudp)
  in a memory whose size is below half of the word.
- *SimpleUdp.* Nothing is scaled but the output buffer (90,000 bytes for 1 MiB) and the ring (one slot): bytes have
  256 values, lengths 16 bits, a slot 2048 bytes. What is bounded is the set of requests: payloads below, at and
  above each length where the code or the host does something else (none, odd, the replayed frame, the slot,
  16 bits for the frame, for the IP datagram and for the UDP length, the buffer), ports whose sum makes the checksum
  zero and the ports beside them, hardware addresses of 0, 5, 6, 8 and 20 bytes, addresses that do not parse.
- *Timestamp.* The proportions of the program in the integers of TLC: a unit is ten times the guess, as 1000 is of
  100, and int64 ends at five times the clock or later. `ClocksAssumption` says what the guess needs of the clock,
  which with the numbers of the code is that it is after April 1999. The theorem is for the numbers of the code.

`CHECK_DEADLOCK FALSE` is set for every module but Client: their bounded environments run out of things to do; that ShowStats and the manager do not stop where they must not is what
`CancelEndsShowStats` and `EveryCallReturns` check. In Client the end of
the process is an explicit step and deadlock is checked.

### Fairness, and why the code justifies it

- *Client*: weak fairness of the main goroutine and of each outer goroutine, because the Go scheduler runs what can
  run. None for the inner goroutines: a Run in the kernel cannot be cancelled and may last as long as
  its repetitions. None for signals.
- *ShowStats*: weak fairness of the steps of a lookup (a system call ends), and strong fairness of `return`,
  because a Go select with both cases ready chooses at random and not for ever the same one. None for `tick`.
- *PluginManager*: weak fairness of a goroutine inside a method, and strong fairness of taking the lock, since Go's
  mutexes hand the lock to a waiter in the end. It assumes that a guest returns: a plugin that loops for ever blocks
  whoever waits for it, which no property of the host can exclude.

### Findings

1. `ring_of_slots`: `config.go:38` says "count は全体の投げるパケットの数" (count is the number of packets sent in total).
   `initTxOverrideMap` fills slot 0 of 2048, and `xdp_tx` goes on to the next slot after each frame. The second
   run of a CPU finds an empty template, its tail adjustment fails, it answers `XDP_ABORTED` before the index
   advances, and so does every run after it. Each worker sends one frame, and its Run still succeeds. That is
   `OneFramePerCPU` and `AbortIsFinal`, which hold, and `EvenCountIsSent`, which does not.
2. `remainder`: Count / Parallelism is an integer division, and the remainder is never sent (a TODO in the code says so).
3. `wide_count`: the share is converted to 32 bits, so 2^32 or more packets per worker become another number.

## 4. The proofs

| Module | Theorem | Property, also checked by |
|---|---|---|
| `XdpTx_proofs` | `TypeCorrect`, `DatapathInvariant` | `TypeOK` (`one_slot`), `DatapathInv` (`ring`) |
| | `EveryFrameIsTheEntry`, `StatisticsAreExact` | `FramesAreTheEntry`, `StatsCountTransmits` (`one_slot`) |
| | `AtMostOneFrame`, `AbortsAreFinal` | `OneFramePerCPU`, `AbortIsFinal` (`ring`) |
| | `DatapathIsAStream` | `StreamSpec`: XdpTx implements FrameStream (`one_slot`) |
| `Client_proofs` | `ClientTypeCorrect`, `ClientInvariant` | `ClientTypeOK`, `ClientInv` (`client`) |
| | `RunsAreApart`, `OkRunsHaveSent`, `SharesAddUp` | `OneRunPerCPU`, `OkRunHasSent`, `SharesAreSent` (`client`) |
| | `ClientUsesTheDatapath` | `Spec` of XdpTx (`client`) |
| | `ClientSendsTheEntries`, `ClientStatisticsAreExact`, `ClientAbortsAreFinal`, `ClientIsAStream` | the datapath's `FramesAreTheEntry`, `StatsCountTransmits`, `AbortIsFinal`, `StreamSpec`, for the client |
| | `ShutdownInvariant` | `ShutdownInv` (`client`) |
| | `ReturnIsClean`, `CleanupIsComplete` | `CleanReturn`, `EverythingCleaned` (`client`) |
| `PluginCall_proofs` | `CallTypeCorrect`, `CallInvariant` | `TypeOK` (`plugin_call`), and the inductive invariant |
| | `CallReturnsTheAnswer`, `BlocksStaySafe` | `OutputIsTheAnswer`, `BlocksAreSafe` (`plugin_call`) |
| | `LossesAreBounded` | `LostBlocks` (`plugin_call`) |
| `PluginManager_proofs` | `ManagerTypeCorrect`, `ManagerInvariant` | `TypeOK`, `ManagerInv` (`plugin_manager`) |
| | `PluginsAreOpen`, `OpenPluginsAreFound` | `RegisteredIsOpen`, `OpenIsRegistered` (`plugin_manager`) |
| | `CleanedUpOnce`, `CloseIsComplete` | `CleanupOnce`, `CloseCleansUp` (`plugin_manager`) |
| | `StaleCallsFail` | `StaleCallFails` (`plugin_manager`) |
| | `ManagerIsARegistry` | `RegistrySpec`: PluginManager implements Registry (`plugin_manager`) |
| | `LockIsNoDeadlock` | `SomebodyGoesOn`: the callers at work never all wait for the lock (not a property of a run) |
| `ShowStats_proofs` | `StatsTypeCorrect`, `StatsInvariant` | `TypeOK`, `StatsInv` (`stats`) |
| | `RatesAreReal`, `BytesFollowPackets` | `ReportedIsReal`, `BytesKeepUp` (`stats`) |
| `Timestamp_proofs` | `TimeIsReadThm` | `TimeIsRead` (`metric_time`), for the numbers of the code |
| `Packet_proofs` | `FrameIsValid` | the packet of every request whose length has 16 bits |
| `SimpleUdp_proofs` | `AnswersInvariant` | the inductive invariant `GenInv` |
| | `HeadersAreValidThm`, `DatagramsAreValidThm`, `AnswersAreSentThm`, `SentIsAPrefixThm` | `HeadersAreValid`, `DatagramsAreValid`, `AnswersAreSent`, `SentIsAPrefix` (`simple_udp`) |
| | `PluginUsesTheDatapath`, `PluginIsAStream` | the specification of XdpTx, and with it FrameStream, `AbortIsFinal`, `StatsCountTransmits` |

They assume what the modules state as ASSUME, which every run evaluates:

- `SizesAssumption` and `EntriesAssumption` (XdpTx): sizes are numbers, an Ethernet header is not empty and fits the
  sample frame, and no entry that reaches the maps is longer than its data, which `convToTxOverrideEntry` checks;
- `ClientAssumption`: the bounds are numbers, a CPU has room for the frames of every attempt of its Run
  (`(InterruptBound + 1) * MaxCount <= FrameBound`), and an answer that is convertible is an entry list;
- `CallAssumption`: an output fits the memory, which is below 2 GiB, half of what a uint32 counts, and error codes
  are negative int32s. The host sets no such limit: a guest may grow its memory to 4 GiB, and of one that has more than
  2 GiB `CallReturnsTheAnswer` says nothing;
- `StatsAssumption`: sizes are numbers, a frame is not empty, and the sums of the counters stay below their modulus;
- `TimestampAssumption` and `ClocksAssumption`: times are those of int64, the guess is finer than a unit, and a clock
  is so late that it can tell the units apart; the theorem itself assumes the 1000 and the 100 of the code;
- `UdpAssumption` and `AnswersAssumption` (SimpleUdp): the inputs have the types of the request's fields, the lists of
  XdpTx include what the plugin may answer, the length of a slot has 16 bits, and an Ethernet header has at most the 14
  bytes the plugin writes and fits a slot.

**The datapath.** `FramesAreTheEntry` is not inductive: it says nothing of the maps. `DatapathInv` adds `SlotsInv`
(slot 0 holds exactly what was dealt, every other slot is empty), `WalkInv` (with more than one slot, the index of
a CPU is the number of frames it has sent, at most one) and `StuckInv` (a CPU that aborted stands at a template it
cannot resize to). The heart of it is that an empty template cannot be sent (`EmptyIsStuck`), so every frame comes
from slot 0 (`SendsFromSlotZero`), and that the clamp cuts a frame before the bytes `copy` did not reach
(`FrameOfEntry`). Refinement: the write of the override map is `Assign`, a run that sends is `Emit`, everything else
stutters.

**The client.** `OneRunPerCPU` holds because a worker in the kernel is on the CPU of its own number, which holds
because it was wired before it was pinned: `WorkerInv`. `SentInv` bounds what a CPU has sent plus what is left
of its Run by one share for each time the system call was issued (`Room`), which is why a CPU never meets `FrameBound`. `DriverInv` ties the place of the main goroutine to how far the
maps are, so that no worker exists before they are filled; `ClientUsesTheDatapath` follows from it, and
through it every theorem of the datapath is one of the client.

`OkRunHasSent` is about where the repetitions go. `RepeatInv` says that, for a worker in the kernel, what its CPU has
sent and what is left of the Run add up to what was asked for, or to more if the Run was interrupted, unless the CPU has
aborted; it is inductive only with `OneRunPerCPU` beside it, since a second worker on the CPU would add its frames to the
first one's. `SharesAreSent` says what the shares add up to over all CPUs: Count less the remainder, and more only by what
was sent again. That needs a cardinality for any number of CPUs, without an induction (`FramesAreShares`): each frame has a
number of its own (`Place`: the share times the CPU, plus the place in its sequence), and every such number is that of a
frame when all the shares were sent. Each condition of it is needed: findings 1 and 3 and a worker that failed are what
becomes of Count without them, and finding 2 is the remainder.

**The plugin call.** `CallInv` is the conjunction of the types (which say what pointers a call has where),
`BlocksAreSafe` and `OutputIsTheAnswer`. The step that matters is `plugin_process`: an error code read as a uint32
is at least half of the word and so beyond the memory (`Lengths`), and everything else is the answer.
`LostBlocks` is proved over `CallInv` by counting: each step adds to the lost blocks what it adds to the history.

**The shutdown.** `CleanReturn` and `EverythingCleaned` speak of the end of the process, and hold because of how it
was reached. `ShutdownInv` keeps that: `ExitInv` says what each place on the way out implies (a cancelled context, all
workers started, outer goroutines that have left the wait group), `CleanupInv` that what `Close` has called is the beginning of
the cleanup list and, when the process ends by itself, all of it, whatever failed.

**The registry.** `ManagerInv` has these parts: `LockInv` (a writer excludes everybody, and who is at a step that needs
the lock holds it), `ModuleInv` (which instances are made, open, registered, refused), `HandsInv` (what a goroutine
inside a method knows of the entry it read, which nobody can have changed while it holds the lock, and of the plugin
it uses after it released it), and `CloseInv` (how far a `Close` has come, and that what it has passed is closed and
cleaned up even if others unloaded it); `MethodInv` (which methods a step belongs to) and `FoundInv` (a `Close` has
found only what was registered) are for the refinement. `StaleCallFails` needs the last clause of `HandsInv`: a module that a call still holds and that is
open is still the plugin of its name.

`ManagerIsARegistry` takes each step of the code to a step of Registry or to none. Taking the lock, the loop of `Close`,
the lookups and the making of a module are not seen (`Unseen`); an early return is a method that fails without an effect
(`PlainFail`); the registration, the successful cleanup, the close of the module, the call, the list of names and the
close of the runtime are the steps of Registry (`LoadSteps`, `UnloadSteps`, `CallSteps`, `CloseSteps`). Each needs the
part of `ManagerInv` that says that what the goroutine read earlier is still true: that the name is still free when
the module is registered, that the module at hand is still the one of the name and not yet cleaned up, that an open
module a call has kept is still registered.

**The reporter.** A lookup has no value of the maps at one moment. `StatsInv` says that every word it has copied lies
between the counter when the lookup began and the counter now (`CopyInv`), that the counters only grow and stay
below the modulus (`CountersInv`), and the same for the sums of the previous lookup (`PrevInv`). `BytesKeepUp` is
about all that was printed so far: in a record the bytes are read after the packets and counted after them, so they are at most
one frame behind in what was copied (`CopiedBytes`), and the printed deltas add up to the last sums. A single line has no such bound,
since an earlier lookup may have read the bytes of frames whose packets the next one reads. That sums of bounded
words are bounded, for any number of CPUs, is an induction; the induction theorems of the library take an operator, so
it is made with the least number for which a sum is wrong (`LeastNumber`).

**The time of a metric.** The switch takes the first unit whose threshold the number exceeds. An instant counted in
its unit exceeds the threshold of that unit, because it is later than a hundredth of the clock by more than what the
divisions round off, and none of a finer unit, because `ClocksAssumption` puts every instant of int64 below ten times
the clock, and a unit is a thousand times the next. Then the product is the instant rounded down, below 2^63, and
nothing is cut.

**The packet.** `FrameIsValid` compares a sum over words that the code computes with the sum over bytes that a receiver
computes. `TotalAdds` turns both, summed in halves, into running sums (the recursive equation has a solution,
`HalvesExist`, and its solution adds one number at a time); `BytesAreWords` compares these word by word, where the
checksum is the fourth word of the segment and an odd last byte is a high byte; `FoldKeepsRest` shows that
each round of carries takes a multiple of 65535 away and that two rounds leave 16 bits, because `WordsRange` keeps the
sum below 2^32; and `ChecksumVerifies` that a complement, and the 65535 sent for a zero, make the receiver's sum a
positive multiple of 65535. The rest is where each byte lies. `GenInv` carries it to the wire: the invariants of
the datapath, and that the maps hold the answer to the request (`AnswerInv`); a frame of a packet that fits a slot
is then the packet (`FrameIsThePacket`). For `AnswersAreSent` it is enough that an answer that was given has a packet of at least
the 42 bytes of its headers (`AnsweredIsSized`): the host refuses no entry of it (`AnswerIsNotRefused`), and by the datapath's
`StuckInv` a CPU can abort only at a slot that nobody filled, which is not the first (`StuckAfterTheFirst`).
`SentIsAPrefix` is for the packets too long for a slot or for 16 bits as well: the frame is the packet up to `CutLen`
(`FrameIsThePrefix`), so one that holds the 34 bytes has the header of the packet (`HeaderOfTheFrame`), whose length field wraps by the
same modulus as `Length` does.

### What is only model-checked

- Liveness (`SignalEndsTheClient`, `CancelEndsShowStats`, `EveryCallReturns`): the prover has no rule for fairness
  and ENABLED. Every other property of a passing run is stated by a theorem.
  Of the third, `LockIsNoDeadlock` proves the part that needs no fairness.
- The three violations are counterexamples; the theorem `AtMostOneFrame` is the general form of the first, and
  `SharesAddUp` says what remains true when none of them applies.

## 5. Abstractions

- *The kernel.* `BPF_PROG_TEST_RUN` runs the program `left` times or returns an error earlier. The ebpf library issues
  a system call that was interrupted again, with the whole Repeat, and the frames it has sent by then stay sent:
  `Run_interrupted`. A Run that has none left is not interrupted. The kernel looks at signals after a batch of live
  frames only; here it may be after any repetition. The batches themselves are left out. Lookups of array
  indices below the size never return NULL. The byte of a grown tail or of the sample frame is one value,
  `Filler`.
- *The configuration.* The plugin's configuration file is read and parsed as JSON (the flag's help says "JSON or
  YAML") and then used by nobody: the client never calls `plugin_init`. So `loadConfig` only may fail. The server
  mode returns at once, as in the code.
- *The mutex.* That a waiting writer also keeps out new readers only delays them, as no goroutine takes the lock
  twice.
- *CallProcess* in PluginManager is one step, its last call into the guest; PluginCall has the steps. `InitPlugin`
  is `CallPlugin` with another function, and `ListPlugins` is the reading that `Close` begins with.
- *The guest* in PluginCall is a plugin built with TinyGo that keeps to `plugins/README.md`: its malloc traps
  rather than return 0, its free leaves the bytes of a block alone, its answer is what it wrote or a negative code.
  One goroutine calls it, as in the program: the functions of wazero may not be called by two.
- A block holds one value and a plugin's answer is a function of its input: what is checked is which value is
  read, not how it is encoded.

- *The answer of simpleudp* is known by its length as JSON (the bytes are in base64) and by its packets; that
  `json.Unmarshal` gives the host what `json.Marshal` was given is taken for granted. `plugin_init` and
  `plugin_cleanup` of simpleudp log a line and keep nothing.
- *The adapters.* `GeneratorAdapter.CallWithJSON` marshals its input and is `CallProcess`, and it is the one the client
  uses; `GenerateTemplate` and the verifier of `verifier.go` put JSON around the same call, keep no state and are called
  by nobody.

Not modelled: the logger (built once, its `Sync` is a cleanup function of Client), the generated bindings and their
loading (a step of `NewXdperf` that may fail), the type declarations of `types.go`, `xdpcap.h`, of which the program
uses nothing, build files and scripts. None of them keeps a state of the program. `NewManager` is a step of Client that
may fail, and what it registers with the runtime is `host_report_metric`, in Timestamp, and a function that logs.

## 6. Plan

Done, in this order: FrameStream and XdpTx (the maps and the program are what the tool is for), XdpTx_proofs,
ShowStats, Client (composed with XdpTx by EXTENDS), Client_proofs, PluginManager, PluginCall, PluginCall_proofs;
then Packet and SimpleUdp (composed with XdpTx), Timestamp, PluginManager_proofs, the shutdown in Client_proofs,
ShowStats_proofs, Timestamp_proofs, Packet_proofs and SimpleUdp_proofs; then Registry and its refinement, what a Run
without an error has sent, the count as a whole, and the datapath's theorems carried to the client and to the plugin; then
the system call that is issued again, and what becomes of a packet that is too long.

Left, and why:

1. Two calls of one plugin at a time (`manager.go:228`). Nothing in the host forbids them and wazero does; what then
   happens is undefined, and the one caller of the program is a single goroutine. A model is worth writing when
   there is a second caller.
2. The resources `NewXdperf` drops when it fails (`xdperf.go:48`): the process ends at once, so that no property of
   this program is about them.
3. A composition of PluginManager with Client: the client has one plugin and one goroutine that loads, calls and closes
   it, which is one of the sequences PluginManager has.
