------------------------------- MODULE XdpTx -------------------------------
(***************************************************************************)
(* The transmit datapath: the XDP program xdp_tx (src/xdp_prog.c), its     *)
(* three per-CPU array maps (src/xdp_prog.h) and the two functions of the  *)
(* client that fill them (pkg/xdperf/bpf.go).                              *)
(*                                                                         *)
(* Every map is a BPF_MAP_TYPE_PERCPU_ARRAY, so a run of the program on    *)
(* CPU c reads and writes column c only.  The kernel executes the program  *)
(* with bottom halves disabled, so one run of it is one step here; the     *)
(* runs of different CPUs, and user space, interleave.                     *)
(*                                                                         *)
(* Bytes are opaque values.  A frame is the sequence of bytes from         *)
(* ctx->data to ctx->data_end.                                             *)
(***************************************************************************)
EXTENDS Integers, Sequences

CONSTANTS
  NumCPU,           \* ebpf.PossibleCPU()
  MaxPacketEntry,   \* MAX_PACKET_ENTRY, the number of slots of tx_override_map
  MaxTemplateSize,  \* MAX_TEMPLATE_SIZE, the bytes a slot can hold
  EthHlen,          \* ETH_HLEN: no frame can be cut shorter than this
  SampleLen,        \* length of the frame user space gives the kernel to replay
  EntryLists,       \* the lists of TxOverrideEntry that may reach initEbpfMap
  FrameBound        \* bound on the frames sent per CPU (for TLC)

CPUs == 0 .. NumCPU - 1
Slots == 0 .. MaxPacketEntry - 1

\* Bytes: the ones of a template are naturals, 0 is the byte a fresh map value
\* or a grown tail holds, and Filler is a byte of the replayed frame.
Filler == -1
Byte == Nat \cup {Filler}

TxOverrideEntry == [Data : Seq(Nat), Length : Nat]
pkt_template == [len : Nat, data : [1 .. MaxTemplateSize -> Nat]]
datarec == [rx_packets : Nat, rx_bytes : Nat]

ASSUME SizesAssumption ==
  /\ NumCPU \in Nat \ {0}
  /\ MaxPacketEntry \in Nat \ {0}
  /\ MaxTemplateSize \in Nat
  /\ EthHlen \in Nat \ {0}
  /\ SampleLen \in Nat
  /\ EthHlen <= SampleLen
  /\ FrameBound \in Nat

\* convToTxOverrideEntry has refused any entry longer than its data.
ASSUME EntriesAssumption ==
  /\ EntryLists \subseteq Seq(TxOverrideEntry)
  /\ \A l \in EntryLists : \A i \in 1 .. Len(l) : l[i].Length <= Len(l[i].Data)

VARIABLES
  tx_override_map,  \* slot -> CPU -> pkt_template
  seq_state_map,    \* CPU -> the slot its next run uses
  stats_map,        \* CPU -> datarec
  phase,            \* how far initEbpfMap is: fresh, seq, ready or failed
  entries,          \* history: the list the templates were taken from
  sent,             \* history: CPU -> the frames it answered XDP_TX for
  aborted           \* history: CPU -> has a run of it answered XDP_ABORTED

mapVars == <<tx_override_map, seq_state_map, stats_map>>
xdpVars == <<mapVars, phase, entries, sent, aborted>>

EmptyTemplate == [len |-> 0, data |-> [i \in 1 .. MaxTemplateSize |-> 0]]

\* The maps as the kernel creates them: all zero.
Init ==
  /\ tx_override_map = [s \in Slots |-> [c \in CPUs |-> EmptyTemplate]]
  /\ seq_state_map = [c \in CPUs |-> 0]
  /\ stats_map = [c \in CPUs |-> [rx_packets |-> 0, rx_bytes |-> 0]]
  /\ phase = "fresh"
  /\ entries = <<>>
  /\ sent = [c \in CPUs |-> <<>>]
  /\ aborted = [c \in CPUs |-> FALSE]

-----------------------------------------------------------------------------
(* User space: initEbpfMap.  Either system call may fail, and then the     *)
(* client gives up before it starts a worker.                              *)

initSeqStateMap ==
  /\ phase = "fresh"
  /\ \/ /\ seq_state_map' = [c \in CPUs |-> 0]
        /\ phase' = "seq"
     \/ /\ phase' = "failed"
        /\ UNCHANGED seq_state_map
  /\ UNCHANGED <<tx_override_map, stats_map, entries, sent, aborted>>

\* The entry CPU c is dealt: round robin over the list.
EntryOf(l, c) == l[(c % Len(l)) + 1]

\* Why initTxOverrideMap may refuse a list before it writes anything.
Refused(l) ==
  \/ Len(l) = 0
  \/ \E c \in CPUs : \/ EntryOf(l, c).Length <= 0
                     \/ EntryOf(l, c).Length > Len(EntryOf(l, c).Data)

\* Mutant: the length of the data is sent instead of the length of the packet.
TemplateOf_dataLength(e) ==
  [len |-> Len(e.Data),
   data |-> [i \in 1 .. MaxTemplateSize |-> IF i <= Len(e.Data) THEN e.Data[i] ELSE 0]]

\* The C struct for entry e: copy() stops at the shorter of the two arrays.
TemplateOf(e) ==
  [len |-> e.Length,
   data |-> [i \in 1 .. MaxTemplateSize |-> IF i <= Len(e.Data) THEN e.Data[i] ELSE 0]]

\* Writes slot 0 of every CPU, and no other slot.
initTxOverrideMap(l) ==
  /\ phase = "seq"
  /\ \/ /\ ~ Refused(l)
        /\ tx_override_map' = [tx_override_map EXCEPT ![0] =
                                 [c \in CPUs |-> TemplateOf(EntryOf(l, c))]]
        /\ entries' = l
        /\ phase' = "ready"
     \/ /\ phase' = "failed"
        /\ UNCHANGED <<tx_override_map, entries>>
  /\ UNCHANGED <<seq_state_map, stats_map, sent, aborted>>

-----------------------------------------------------------------------------
(* The kernel: one run of xdp_tx on CPU c, on a frame of SampleLen bytes.  *)

\* The slot the run uses.
SlotOf(c) == IF seq_state_map[c] >= MaxPacketEntry THEN 0 ELSE seq_state_map[c]

\* Mutants: the wrap comes one slot late; the slot does not advance.
NextSlot_late(s) == IF s + 1 > MaxPacketEntry THEN 0 ELSE s + 1
NextSlot_same(s) == s

\* The slot after s, in the ring of MaxPacketEntry slots.
NextSlot(s) == IF s + 1 >= MaxPacketEntry THEN 0 ELSE s + 1

\* Mutant: every CPU reads what was written for CPU 0.
TemplateAt_shared(c) == tx_override_map[SlotOf(c)][0]

\* The template the run uses: an array map has every index below its size.
TemplateAt(c) == tx_override_map[SlotOf(c)][c]

\* tlen, the template's length clamped to what a slot holds.
ClampedLen(t) == IF t.len > MaxTemplateSize THEN MaxTemplateSize ELSE t.len

\* bpf_xdp_adjust_tail: the kernel refuses to leave less than an Ethernet header.
adjust_tail_ok(len) == len >= EthHlen

\* The frame reaches length tlen: it has it already, or the tail can be moved.
Resized(t) == ClampedLen(t) = SampleLen \/ adjust_tail_ok(ClampedLen(t))

\* Mutant: the copy loop stops one byte early.
FrameOf_short(t) ==
  [i \in 1 .. ClampedLen(t) |->
     IF i <= MaxTemplateSize /\ i < ClampedLen(t) THEN t.data[i] ELSE Filler]

\* The frame after the copy loop, which visits MaxTemplateSize bytes at most.
FrameOf(t) ==
  [i \in 1 .. ClampedLen(t) |-> IF i <= MaxTemplateSize THEN t.data[i] ELSE Filler]

\* Mutant: the length of the frame before its tail was adjusted is counted.
Counted_staleLength(rec, frame) ==
  [rx_packets |-> rec.rx_packets + 1, rx_bytes |-> rec.rx_bytes + SampleLen]

\* The statistics of a CPU after one more frame.
Counted(rec, frame) ==
  [rx_packets |-> rec.rx_packets + 1, rx_bytes |-> rec.rx_bytes + Len(frame)]

\* Mutant: an aborted run advances the slot like any other.
xdp_tx_aborted_advances(c) ==
  /\ ~ Resized(TemplateAt(c))
  /\ aborted' = [aborted EXCEPT ![c] = TRUE]
  /\ seq_state_map' = [seq_state_map EXCEPT ![c] = NextSlot(SlotOf(c))]
  /\ UNCHANGED <<tx_override_map, stats_map, sent>>

\* XDP_ABORTED: the tail adjustment failed, and nothing was written.
xdp_tx_aborted(c) ==
  /\ ~ Resized(TemplateAt(c))
  /\ aborted' = [aborted EXCEPT ![c] = TRUE]
  /\ UNCHANGED <<mapVars, sent>>

\* XDP_TX: the payload is overridden, then the slot advances, then the statistics.
xdp_tx_sent(c) ==
  LET frame == FrameOf(TemplateAt(c))
  IN /\ Resized(TemplateAt(c))
     /\ seq_state_map' = [seq_state_map EXCEPT ![c] = NextSlot(SlotOf(c))]
     /\ stats_map' = [stats_map EXCEPT ![c] = Counted(@, frame)]
     /\ sent' = [sent EXCEPT ![c] = Append(@, frame)]
     /\ UNCHANGED <<tx_override_map, aborted>>

xdp_tx(c) ==
  /\ xdp_tx_aborted(c) \/ xdp_tx_sent(c)
  /\ UNCHANGED <<phase, entries>>

-----------------------------------------------------------------------------
(* The datapath on its own: the maps are filled once, then every CPU runs  *)
(* the program as often as it likes.                                       *)

Next ==
  \/ initSeqStateMap
  \/ \E l \in EntryLists : initTxOverrideMap(l)
  \/ \E c \in CPUs : /\ phase = "ready"
                     /\ Len(sent[c]) < FrameBound
                     /\ xdp_tx(c)

Spec == Init /\ [][Next]_xdpVars

-----------------------------------------------------------------------------
(* Properties                                                              *)

\* Types of the maps and of the history.
TypeOK ==
  /\ tx_override_map \in [Slots -> [CPUs -> pkt_template]]
  /\ seq_state_map \in [CPUs -> Slots]
  /\ stats_map \in [CPUs -> datarec]
  /\ phase \in {"fresh", "seq", "ready", "failed"}
  /\ entries \in EntryLists \cup {<<>>}
  /\ sent \in [CPUs -> Seq(Seq(Byte))]
  /\ aborted \in [CPUs -> BOOLEAN]

\* What the plugin asked CPU c to send, read off the entry it was dealt and not
\* off the maps: the first Length bytes of Data, as far as a slot can hold them.
ExpectedLen(c) ==
  IF entries = <<>> THEN 0
  ELSE IF EntryOf(entries, c).Length > MaxTemplateSize THEN MaxTemplateSize
  ELSE EntryOf(entries, c).Length

ExpectedFrame(c) == [i \in 1 .. ExpectedLen(c) |-> EntryOf(entries, c).Data[i]]

\* Every frame that leaves on a CPU is the plugin's packet for that CPU: not a
\* byte of the replayed sample, of another CPU's packet or of an unwritten slot.
FramesAreTheEntry ==
  \A c \in CPUs : \A n \in 1 .. Len(sent[c]) : sent[c][n] = ExpectedFrame(c)

\* The statistics ShowStats prints count exactly the frames answered XDP_TX, and
\* exactly their bytes: an aborted run counts for nothing.
StatsCountTransmits ==
  \A c \in CPUs :
    /\ stats_map[c].rx_packets = Len(sent[c])
    /\ stats_map[c].rx_bytes = Len(sent[c]) * ExpectedLen(c)

\* A CPU that aborted once never transmits again: the abort leaves the slot index
\* where it is, so every later run of that CPU meets the same template.
AbortIsFinal == [][\A c \in CPUs : aborted[c] => sent'[c] = sent[c]]_xdpVars

\* The user-space half of the maps and the program's slot walk disagree: only
\* slot 0 is ever written, so with more than one slot a CPU sends one frame.
OneFramePerCPU == MaxPacketEntry > 1 => \A c \in CPUs : Len(sent[c]) <= 1

\* The datapath implements FrameStream: the frame is assigned by the one write
\* of the override map, and an aborted run is a stuttering step.
AssignedCPUs == IF phase = "ready" THEN CPUs ELSE {}

Stream == INSTANCE FrameStream WITH
  CPUs <- CPUs,
  Frames <- Seq(Byte),
  assigned <- [c \in AssignedCPUs |-> FrameOf(tx_override_map[0][c])],
  out <- sent

StreamSpec == Stream!Spec

-----------------------------------------------------------------------------
(* The inductive invariant behind them (XdpTx_proofs.tla).                 *)

\* Only slot 0 is ever written, and only by a list that was not refused.
SlotsInv ==
  /\ \A s \in Slots \ {0}, c \in CPUs : tx_override_map[s][c] = EmptyTemplate
  /\ phase = "ready" =>
       /\ entries \in EntryLists
       /\ ~ Refused(entries)
       /\ \A c \in CPUs : tx_override_map[0][c] = TemplateOf(EntryOf(entries, c))
  /\ phase # "ready" =>
       entries = <<>> /\ \A c \in CPUs : sent[c] = <<>> /\ ~ aborted[c]

\* With more than one slot a CPU stops in the second one.
WalkInv ==
  MaxPacketEntry > 1 => \A c \in CPUs : Len(sent[c]) = seq_state_map[c] /\ Len(sent[c]) <= 1

\* A CPU that has aborted is stuck at a template it cannot resize to.
StuckInv == \A c \in CPUs : aborted[c] => ~ Resized(TemplateAt(c))

DatapathInv == SlotsInv /\ WalkInv /\ StuckInv /\ FramesAreTheEntry /\ StatsCountTransmits

=============================================================================
