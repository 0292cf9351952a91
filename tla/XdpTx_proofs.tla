---------------------------- MODULE XdpTx_proofs ----------------------------
(***************************************************************************)
(* Theorems about XdpTx, for any number of CPUs, slots and bytes and for   *)
(* any lists of entries: its type invariant, the inductive invariant       *)
(* DatapathInv and what follows from it, and that it implements            *)
(* FrameStream.                                                            *)
(***************************************************************************)
EXTENDS XdpTx, SequenceTheorems, TLAPS

USE DEF TemplateAt, Counted

-----------------------------------------------------------------------------
(* The helpers.                                                            *)

\* A list that is not refused deals every CPU an entry with data for its length.
LEMMA DealtEntry ==
  ASSUME NEW l \in EntryLists, ~ Refused(l), NEW c \in CPUs
  PROVE  /\ EntryOf(l, c) \in TxOverrideEntry
         /\ EntryOf(l, c).Length > 0
         /\ EntryOf(l, c).Length <= Len(EntryOf(l, c).Data)
         /\ l # <<>>
<1>1. l \in Seq(TxOverrideEntry)
  BY EntriesAssumption
<1>2. Len(l) \in Nat /\ Len(l) # 0
  BY <1>1 DEF Refused
<1>3. (c % Len(l)) + 1 \in 1 .. Len(l)
  BY <1>2, SizesAssumption DEF CPUs
<1>4. EntryOf(l, c) \in TxOverrideEntry
  BY <1>1, <1>3, ElementOfSeq DEF EntryOf
<1>5. l # <<>>
  BY <1>2, EmptySeq
<1> QED
  BY <1>4, <1>5 DEF Refused, TxOverrideEntry

\* What reaches a slot has the type of the C struct.
LEMMA TemplateType ==
  ASSUME NEW e \in TxOverrideEntry
  PROVE  TemplateOf(e) \in pkt_template
<1> DEFINE d == [i \in 1 .. MaxTemplateSize |-> IF i <= Len(e.Data) THEN e.Data[i] ELSE 0]
<1>1. e.Data \in Seq(Nat) /\ e.Length \in Nat
  BY DEF TxOverrideEntry
<1>2. ASSUME NEW i \in 1 .. MaxTemplateSize
      PROVE  (IF i <= Len(e.Data) THEN e.Data[i] ELSE 0) \in Nat
  <2>1. CASE i <= Len(e.Data)
    <3>1. Len(e.Data) \in Nat
      BY <1>1
    <3>2. i \in 1 .. Len(e.Data)
      BY <2>1, <3>1, SizesAssumption
    <3> QED
      BY <1>1, <2>1, <3>2, ElementOfSeq
  <2>2. CASE ~ (i <= Len(e.Data))
    BY <2>2
  <2> QED
    BY <2>1, <2>2
<1>3. d \in [1 .. MaxTemplateSize -> Nat]
  BY <1>2
<1> QED
  BY <1>1, <1>3 DEF TemplateOf, pkt_template

\* The copy loop makes a frame of as many bytes as the clamped length says.
LEMMA FrameType ==
  ASSUME NEW t \in pkt_template
  PROVE  /\ FrameOf(t) \in Seq(Byte)
         /\ Len(FrameOf(t)) = ClampedLen(t)
         /\ ClampedLen(t) \in Nat
<1>1. ClampedLen(t) \in Nat
  BY SizesAssumption DEF ClampedLen, pkt_template
<1>2. FrameOf(t) \in [1 .. ClampedLen(t) -> Byte]
  BY <1>1, SizesAssumption DEF FrameOf, pkt_template, Byte, Filler
<1>3. FrameOf(t) \in Seq(Byte)
  BY <1>1, <1>2, SeqDef
<1>4. Len(FrameOf(t)) = ClampedLen(t)
  BY <1>1, <1>2, <1>3, LenProperties
<1> QED
  BY <1>1, <1>3, <1>4

\* The frame of a slot filled from entry e is the entry's own bytes: the copy loop
\* ends before the bytes that copy() did not reach.
LEMMA FrameOfEntry ==
  ASSUME NEW e \in TxOverrideEntry, e.Length <= Len(e.Data)
  PROVE  LET n == IF e.Length > MaxTemplateSize THEN MaxTemplateSize ELSE e.Length
         IN  /\ ClampedLen(TemplateOf(e)) = n
             /\ FrameOf(TemplateOf(e)) = [i \in 1 .. n |-> e.Data[i]]
<1> DEFINE n == IF e.Length > MaxTemplateSize THEN MaxTemplateSize ELSE e.Length
<1>1. e.Length \in Nat /\ Len(e.Data) \in Nat
  BY DEF TxOverrideEntry
<1>2. ClampedLen(TemplateOf(e)) = n
  BY DEF ClampedLen, TemplateOf
<1>3. ASSUME NEW i \in 1 .. n
      PROVE  (IF i <= MaxTemplateSize THEN TemplateOf(e).data[i] ELSE Filler) = e.Data[i]
  <2>1. i \in 1 .. MaxTemplateSize /\ i <= Len(e.Data)
    BY <1>1, SizesAssumption
  <2> QED
    BY <2>1, SizesAssumption DEF TemplateOf
<1> QED
  BY <1>2, <1>3 DEF FrameOf

\* The slot of a run, and the one after it, exist.
LEMMA SlotFacts ==
  ASSUME seq_state_map \in [CPUs -> Slots], NEW c \in CPUs
  PROVE  /\ SlotOf(c) \in Slots
         /\ SlotOf(c) = seq_state_map[c]
         /\ NextSlot(SlotOf(c)) \in Slots
         /\ MaxPacketEntry > 1 /\ SlotOf(c) = 0 => NextSlot(SlotOf(c)) = 1
         /\ MaxPacketEntry = 1 => SlotOf(c) = 0
         /\ 0 \in Slots
BY SizesAssumption DEF SlotOf, NextSlot, Slots

\* A slot that was never written cannot be sent from: no frame of this length exists.
LEMMA EmptyIsStuck == ~ Resized(EmptyTemplate)
BY SizesAssumption DEF Resized, ClampedLen, EmptyTemplate, adjust_tail_ok

-----------------------------------------------------------------------------
(* Type correctness.                                                       *)

\* A step of the program keeps the types, whoever runs it.
LEMMA RunKeepsTypes ==
  ASSUME TypeOK, NEW c \in CPUs, xdp_tx(c)
  PROVE  TypeOK'
<1>1. CASE xdp_tx_aborted(c)
  BY <1>1 DEF TypeOK, xdp_tx, xdp_tx_aborted, mapVars
<1>2. CASE xdp_tx_sent(c)
  <2> DEFINE t == tx_override_map[SlotOf(c)][c]
  <2>1. SlotOf(c) \in Slots /\ NextSlot(SlotOf(c)) \in Slots
    BY SlotFacts DEF TypeOK
  <2>2. t \in pkt_template
    BY <2>1 DEF TypeOK
  <2>3. FrameOf(t) \in Seq(Byte) /\ Len(FrameOf(t)) \in Nat
    BY <2>2, FrameType
  <2>4. seq_state_map' \in [CPUs -> Slots]
    BY <1>2, <2>1 DEF TypeOK, xdp_tx_sent
  <2>5. stats_map' \in [CPUs -> datarec]
    BY <1>2, <2>3 DEF TypeOK, xdp_tx_sent, datarec
  <2>6. sent' \in [CPUs -> Seq(Seq(Byte))]
    <3>1. sent' = [sent EXCEPT ![c] = Append(@, FrameOf(t))]
      BY <1>2 DEF xdp_tx_sent
    <3>2. Append(sent[c], FrameOf(t)) \in Seq(Seq(Byte))
      BY <2>3 DEF TypeOK
    <3> QED
      BY <3>1, <3>2 DEF TypeOK
  <2> QED
    BY <1>2, <2>4, <2>5, <2>6 DEF TypeOK, xdp_tx, xdp_tx_sent
<1> QED
  BY <1>1, <1>2 DEF xdp_tx

\* So do the writes of user space, for a list that may reach them.
LEMMA FillKeepsTypes ==
  ASSUME TypeOK, \/ initSeqStateMap
                 \/ \E l \in EntryLists : initTxOverrideMap(l)
  PROVE  TypeOK'
<1>1. CASE initSeqStateMap
  BY <1>1, SizesAssumption DEF TypeOK, initSeqStateMap, Slots
<1>2. ASSUME NEW l \in EntryLists, initTxOverrideMap(l)
      PROVE  TypeOK'
  <2>1. CASE phase' = "failed"
    BY <1>2, <2>1 DEF TypeOK, initTxOverrideMap
  <2>2. CASE phase' # "failed"
    <3>1. ~ Refused(l) /\ phase' = "ready"
      BY <1>2, <2>2 DEF initTxOverrideMap
    <3>2. \A c \in CPUs : TemplateOf(EntryOf(l, c)) \in pkt_template
      BY <3>1, DealtEntry, TemplateType
    <3>3. tx_override_map' \in [Slots -> [CPUs -> pkt_template]]
      BY <1>2, <2>2, <3>2 DEF TypeOK, initTxOverrideMap
    <3> QED
      BY <1>2, <2>2, <3>1, <3>3 DEF TypeOK, initTxOverrideMap
  <2> QED
    BY <2>1, <2>2
<1> QED
  BY <1>1, <1>2

\* The maps as the kernel creates them have the types.
LEMMA InitialTypeOK ==
  ASSUME Init
  PROVE  TypeOK
<1>1. EmptyTemplate \in pkt_template
  BY DEF EmptyTemplate, pkt_template
<1>2. <<>> \in Seq(Seq(Byte))
  BY EmptySeq
<1> QED
  BY <1>1, <1>2, SizesAssumption DEF Init, TypeOK, Slots, datarec

\* The maps hold values of the C types and every slot index is one of a slot,
\* whatever is sent and however often the ring wraps.
THEOREM TypeCorrect == Spec => []TypeOK
<1>1. Init => TypeOK
  BY InitialTypeOK
<1>2. TypeOK /\ [Next]_xdpVars => TypeOK'
  <2> SUFFICES ASSUME TypeOK, [Next]_xdpVars PROVE TypeOK'
    OBVIOUS
  <2>1. CASE UNCHANGED xdpVars
    BY <2>1 DEF TypeOK, xdpVars, mapVars
  <2>2. CASE Next
    BY <2>2, FillKeepsTypes, RunKeepsTypes DEF Next
  <2> QED
    BY <2>1, <2>2
<1> QED
  BY <1>1, <1>2, PTL DEF Spec

-----------------------------------------------------------------------------
(* The inductive invariant.                                                *)

\* What a filled map holds for CPU c in slot 0, and the frame it makes.
LEMMA FilledSlot ==
  ASSUME SlotsInv, phase = "ready", NEW c \in CPUs
  PROVE  /\ ClampedLen(tx_override_map[0][c]) = ExpectedLen(c)
         /\ FrameOf(tx_override_map[0][c]) = ExpectedFrame(c)
         /\ ExpectedLen(c) \in Nat
<1> DEFINE e == EntryOf(entries, c)
<1>1. e \in TxOverrideEntry /\ e.Length <= Len(e.Data) /\ entries # <<>>
  BY DealtEntry DEF SlotsInv
<1>2. tx_override_map[0][c] = TemplateOf(e)
  BY DEF SlotsInv
<1>3. ExpectedLen(c) = IF e.Length > MaxTemplateSize THEN MaxTemplateSize ELSE e.Length
  BY <1>1 DEF ExpectedLen
<1>4. ExpectedLen(c) \in Nat
  BY <1>1, <1>3, SizesAssumption DEF TxOverrideEntry
<1> QED
  BY <1>1, <1>2, <1>3, <1>4, FrameOfEntry DEF ExpectedFrame

\* A run that sends uses slot 0: every other slot is empty, and stuck.
LEMMA SendsFromSlotZero ==
  ASSUME TypeOK, SlotsInv, NEW c \in CPUs, xdp_tx_sent(c)
  PROVE  SlotOf(c) = 0
<1>1. SlotOf(c) \in Slots
  BY SlotFacts DEF TypeOK
<1>2. CASE SlotOf(c) # 0
  <2>1. tx_override_map[SlotOf(c)][c] = EmptyTemplate
    BY <1>1, <1>2 DEF SlotsInv
  <2> QED
    BY <2>1, EmptyIsStuck DEF xdp_tx_sent
<1> QED
  BY <1>2

\* The step that sends a frame on CPU c.
LEMMA SentKeepsInv ==
  ASSUME TypeOK, DatapathInv, phase = "ready", NEW c \in CPUs, xdp_tx_sent(c),
         UNCHANGED <<phase, entries>>
  PROVE  DatapathInv'
<1> DEFINE frame == FrameOf(tx_override_map[SlotOf(c)][c])
<1>1. SlotOf(c) = 0
  BY SendsFromSlotZero DEF DatapathInv
<1>2. /\ frame = ExpectedFrame(c)
      /\ frame \in Seq(Byte)
      /\ Len(frame) = ExpectedLen(c)
      /\ ExpectedLen(c) \in Nat
  <2>1. tx_override_map[0][c] \in pkt_template
    BY SizesAssumption DEF TypeOK, Slots
  <2> QED
    BY <1>1, <2>1, FilledSlot, FrameType DEF DatapathInv
<1>3. sent' = [sent EXCEPT ![c] = Append(@, frame)]
  BY DEF xdp_tx_sent
<1>4. \A d \in CPUs : sent[d] \in Seq(Seq(Byte)) /\ Len(sent[d]) \in Nat
  BY DEF TypeOK
<1>5. \A d \in CPUs : Len(sent'[d]) = Len(sent[d]) + (IF d = c THEN 1 ELSE 0)
  BY <1>2, <1>3, <1>4 DEF TypeOK
<1>6. \A d \in CPUs : ExpectedLen(d)' = ExpectedLen(d) /\ ExpectedFrame(d)' = ExpectedFrame(d)
  BY DEF ExpectedLen, ExpectedFrame
<1>7. SlotsInv'
  BY DEF DatapathInv, SlotsInv, xdp_tx_sent
<1>8. WalkInv'
  <2> SUFFICES ASSUME MaxPacketEntry > 1, NEW d \in CPUs
               PROVE  Len(sent'[d]) = seq_state_map'[d] /\ Len(sent'[d]) <= 1
    BY DEF WalkInv
  <2>1. seq_state_map' = [seq_state_map EXCEPT ![c] = NextSlot(SlotOf(c))]
    BY DEF xdp_tx_sent
  <2>2. CASE d = c
    <3>1. seq_state_map[c] = 0 /\ seq_state_map'[c] = 1
      BY <1>1, <2>1, SlotFacts DEF TypeOK
    <3>2. Len(sent[c]) = 0
      BY <3>1 DEF DatapathInv, WalkInv
    <3>3. Len(sent'[c]) = Len(sent[c]) + 1
      BY <1>5
    <3> QED
      BY <2>2, <3>1, <3>2, <3>3
  <2>3. CASE d # c
    BY <1>4, <1>5, <2>1, <2>3 DEF DatapathInv, WalkInv, TypeOK
  <2> QED
    BY <2>2, <2>3
<1>9. StuckInv'
  <2> SUFFICES ASSUME NEW d \in CPUs, aborted[d]
               PROVE  ~ Resized(tx_override_map[SlotOf(d)'][d])
    BY DEF StuckInv, xdp_tx_sent
  <2>1. ~ Resized(tx_override_map[SlotOf(d)][d])
    BY DEF DatapathInv, StuckInv
  <2>2. d # c
    BY <2>1 DEF xdp_tx_sent
  <2>3. SlotOf(d)' = SlotOf(d)
    BY <2>2 DEF SlotOf, xdp_tx_sent, TypeOK
  <2> QED
    BY <2>1, <2>3
<1>10. FramesAreTheEntry'
  <2> SUFFICES ASSUME NEW d \in CPUs, NEW n \in 1 .. Len(sent'[d])
               PROVE  sent'[d][n] = ExpectedFrame(d)
    BY <1>6 DEF FramesAreTheEntry
  <2>1. CASE d # c
    BY <1>3, <2>1 DEF DatapathInv, FramesAreTheEntry, TypeOK
  <2>2. CASE d = c /\ n <= Len(sent[c])
    <3>1. sent'[d][n] = sent[c][n] /\ n \in 1 .. Len(sent[c])
      BY <1>2, <1>3, <1>4, <2>2 DEF TypeOK
    <3> QED
      BY <2>2, <3>1 DEF DatapathInv, FramesAreTheEntry
  <2>3. CASE d = c /\ ~ (n <= Len(sent[c]))
    <3>1. n = Len(sent[c]) + 1
      <4>1. Len(sent'[c]) = Len(sent[c]) + 1 /\ Len(sent[c]) \in Nat
        BY <1>4, <1>5
      <4> QED
        BY <2>3, <4>1
    <3>2. sent'[d][n] = frame
      BY <1>2, <1>3, <1>4, <2>3, <3>1 DEF TypeOK
    <3> QED
      BY <1>2, <2>3, <3>2
  <2> QED
    BY <2>1, <2>2, <2>3
<1>11. StatsCountTransmits'
  <2> SUFFICES ASSUME NEW d \in CPUs
               PROVE  /\ stats_map'[d].rx_packets = Len(sent'[d])
                      /\ stats_map'[d].rx_bytes = Len(sent'[d]) * ExpectedLen(d)
    BY <1>6 DEF StatsCountTransmits
  <2>1. /\ stats_map[d].rx_packets = Len(sent[d])
        /\ stats_map[d].rx_bytes = Len(sent[d]) * ExpectedLen(d)
    BY DEF DatapathInv, StatsCountTransmits
  <2>2. stats_map' = [stats_map EXCEPT ![c] = [rx_packets |-> @.rx_packets + 1,
                                                rx_bytes |-> @.rx_bytes + Len(frame)]]
    BY DEF xdp_tx_sent
  <2>3. CASE d # c
    BY <1>4, <1>5, <2>1, <2>2, <2>3 DEF TypeOK
  <2>4. CASE d = c
    <3>1. /\ stats_map'[d].rx_packets = stats_map[d].rx_packets + 1
          /\ stats_map'[d].rx_bytes = stats_map[d].rx_bytes + ExpectedLen(d)
      BY <1>2, <2>2, <2>4 DEF TypeOK
    <3>2. (Len(sent[d]) + 1) * ExpectedLen(d) = Len(sent[d]) * ExpectedLen(d) + ExpectedLen(d)
      BY <1>2, <1>4, <2>4
    <3> QED
      BY <1>5, <2>1, <2>4, <3>1, <3>2
  <2> QED
    BY <2>3, <2>4
<1> QED
  BY <1>7, <1>8, <1>9, <1>10, <1>11 DEF DatapathInv

\* The step that aborts: the CPU is stuck where it is.
LEMMA AbortKeepsInv ==
  ASSUME TypeOK, DatapathInv, phase = "ready", NEW c \in CPUs, xdp_tx_aborted(c),
         UNCHANGED <<phase, entries>>
  PROVE  DatapathInv'
<1>1. UNCHANGED <<tx_override_map, seq_state_map, stats_map, phase, entries, sent>>
  BY DEF xdp_tx_aborted, mapVars
<1>2. SlotsInv' /\ WalkInv'
  BY <1>1 DEF DatapathInv, SlotsInv, WalkInv
<1>3. StuckInv'
  <2> SUFFICES ASSUME NEW d \in CPUs, aborted'[d]
               PROVE  ~ Resized(tx_override_map[SlotOf(d)][d])
    BY <1>1 DEF StuckInv, SlotOf
  <2>1. CASE d = c
    BY <2>1 DEF xdp_tx_aborted
  <2>2. CASE d # c
    BY <2>2 DEF DatapathInv, StuckInv, xdp_tx_aborted, TypeOK
  <2> QED
    BY <2>1, <2>2
<1>4. FramesAreTheEntry' /\ StatsCountTransmits'
  BY <1>1 DEF DatapathInv, FramesAreTheEntry, StatsCountTransmits, ExpectedFrame, ExpectedLen
<1> QED
  BY <1>2, <1>3, <1>4 DEF DatapathInv

\* One run of the program, on maps that are filled.
LEMMA RunKeepsInv ==
  ASSUME TypeOK, DatapathInv, phase = "ready", NEW c \in CPUs, xdp_tx(c)
  PROVE  DatapathInv'
BY SentKeepsInv, AbortKeepsInv DEF xdp_tx

\* In the initial state nothing was sent and every slot is empty.
LEMMA InitialInv ==
  ASSUME Init
  PROVE  DatapathInv
<1> USE DEF Init
<1>1. \A c \in CPUs : Len(sent[c]) = 0 /\ ExpectedLen(c) = 0
  BY EmptySeq DEF ExpectedLen
<1>2. SlotsInv /\ WalkInv /\ StuckInv
  BY <1>1, SizesAssumption DEF SlotsInv, WalkInv, StuckInv, Slots
<1>3. FramesAreTheEntry
  BY <1>1 DEF FramesAreTheEntry
<1>4. StatsCountTransmits
  BY <1>1 DEF StatsCountTransmits
<1> QED
  BY <1>2, <1>3, <1>4 DEF DatapathInv

\* The writes of user space keep the invariant.
LEMMA FillKeepsInv ==
  ASSUME TypeOK, DatapathInv, \/ initSeqStateMap
                              \/ \E l \in EntryLists : initTxOverrideMap(l)
  PROVE  DatapathInv'
<1>1. phase # "ready"
  BY DEF initSeqStateMap, initTxOverrideMap
<1>2. \A c \in CPUs : sent[c] = <<>> /\ ~ aborted[c] /\ Len(sent[c]) = 0
  BY <1>1, EmptySeq DEF DatapathInv, SlotsInv
<1>3. UNCHANGED <<stats_map, sent, aborted>>
  BY DEF initSeqStateMap, initTxOverrideMap
<1>4. FramesAreTheEntry'
  BY <1>2, <1>3 DEF FramesAreTheEntry
<1>5. StuckInv'
  BY <1>2, <1>3 DEF StuckInv
<1>6. ASSUME phase' # "ready"
      PROVE  SlotsInv' /\ entries' = entries
  <2>1. UNCHANGED <<tx_override_map, entries>>
    BY <1>6 DEF initSeqStateMap, initTxOverrideMap
  <2> QED
    BY <1>1, <1>2, <1>3, <1>6, <2>1 DEF DatapathInv, SlotsInv
<1>7. ASSUME NEW l \in EntryLists, initTxOverrideMap(l), phase' = "ready"
      PROVE  SlotsInv'
  <2>1. /\ ~ Refused(l)
        /\ entries' = l
        /\ tx_override_map' = [tx_override_map EXCEPT ![0] =
                                 [c \in CPUs |-> TemplateOf(EntryOf(l, c))]]
    BY <1>7 DEF initTxOverrideMap
  <2>2. \A s \in Slots \ {0}, c \in CPUs : tx_override_map'[s][c] = EmptyTemplate
    BY <2>1 DEF DatapathInv, SlotsInv, TypeOK
  <2>3. \A c \in CPUs : tx_override_map'[0][c] = TemplateOf(EntryOf(l, c))
    BY <2>1, SizesAssumption DEF TypeOK, Slots
  <2> QED
    BY <1>7, <2>1, <2>2, <2>3 DEF SlotsInv
<1>8. SlotsInv'
  BY <1>6, <1>7 DEF initSeqStateMap
<1>9. WalkInv'
  <2> SUFFICES ASSUME MaxPacketEntry > 1, NEW c \in CPUs
               PROVE  Len(sent'[c]) = seq_state_map'[c] /\ Len(sent'[c]) <= 1
    BY DEF WalkInv
  <2>1. seq_state_map[c] = 0
    BY <1>2 DEF DatapathInv, WalkInv
  <2>2. seq_state_map'[c] = 0
    BY <2>1 DEF initSeqStateMap, initTxOverrideMap
  <2> QED
    BY <1>2, <1>3, <2>2
<1>10. StatsCountTransmits'
  <2> SUFFICES ASSUME NEW c \in CPUs
               PROVE  /\ stats_map'[c].rx_packets = Len(sent'[c])
                      /\ stats_map'[c].rx_bytes = Len(sent'[c]) * ExpectedLen(c)'
    BY DEF StatsCountTransmits
  <2>1. ExpectedLen(c) = 0
    BY <1>1 DEF DatapathInv, SlotsInv, ExpectedLen
  <2>2. stats_map[c].rx_packets = 0 /\ stats_map[c].rx_bytes = 0
    BY <1>2, <2>1 DEF DatapathInv, StatsCountTransmits
  <2>3. ExpectedLen(c)' \in Nat
    <3>1. CASE phase' = "ready"
      <4>1. PICK l \in EntryLists : initTxOverrideMap(l)
        BY <3>1 DEF initSeqStateMap
      <4>2. entries' = l /\ ~ Refused(l)
        BY <3>1, <4>1 DEF initTxOverrideMap
      <4>3. EntryOf(l, c) \in TxOverrideEntry
        BY <4>2, DealtEntry
      <4> QED
        BY <4>2, <4>3, SizesAssumption DEF ExpectedLen, TxOverrideEntry
    <3>2. CASE phase' # "ready"
      BY <1>6, <2>1, <3>2 DEF ExpectedLen
    <3> QED
      BY <3>1, <3>2
  <2> QED
    BY <1>2, <1>3, <2>2, <2>3
<1> QED
  BY <1>4, <1>5, <1>8, <1>9, <1>10 DEF DatapathInv

-----------------------------------------------------------------------------
(* The invariants of the runs, for every instance.                         *)

\* The inductive invariant: slot 0 and no other slot is filled, a CPU that aborted
\* is stuck, and what was sent and counted is what the dealt entries say.
THEOREM DatapathInvariant == Spec => []DatapathInv
<1>1. TypeOK /\ DatapathInv /\ [Next]_xdpVars => DatapathInv'
  <2> SUFFICES ASSUME TypeOK, DatapathInv, [Next]_xdpVars PROVE DatapathInv'
    OBVIOUS
  <2>1. CASE UNCHANGED xdpVars
    BY <2>1 DEF xdpVars, mapVars, DatapathInv, SlotsInv, WalkInv, StuckInv, SlotOf,
                FramesAreTheEntry, StatsCountTransmits, ExpectedFrame, ExpectedLen
  <2>2. CASE Next
    BY <2>2, FillKeepsInv, RunKeepsInv DEF Next
  <2> QED
    BY <2>1, <2>2
<1> QED
  BY <1>1, InitialInv, TypeCorrect, PTL DEF Spec

\* Every frame that leaves a CPU is the packet the plugin gave for that CPU.
THEOREM EveryFrameIsTheEntry == Spec => []FramesAreTheEntry
<1>1. DatapathInv => FramesAreTheEntry
  BY DEF DatapathInv
<1> QED
  BY <1>1, DatapathInvariant, PTL

\* The statistics count the frames that were sent, and their bytes, exactly.
THEOREM StatisticsAreExact == Spec => []StatsCountTransmits
<1>1. DatapathInv => StatsCountTransmits
  BY DEF DatapathInv
<1> QED
  BY <1>1, DatapathInvariant, PTL

\* With the 2048 slots of the code, or any number above one, no CPU ever sends a
\* second frame, however many repetitions the kernel is asked for.
THEOREM AtMostOneFrame == Spec => []OneFramePerCPU
<1>1. DatapathInv => OneFramePerCPU
  BY DEF DatapathInv, WalkInv, OneFramePerCPU
<1> QED
  BY <1>1, DatapathInvariant, PTL

\* A CPU whose run aborted once never sends again.
THEOREM AbortsAreFinal == Spec => AbortIsFinal
<1> DEFINE Final == \A c \in CPUs : aborted[c] => sent'[c] = sent[c]
<1>1. TypeOK /\ DatapathInv /\ [Next]_xdpVars => [Final]_xdpVars
  <2> SUFFICES ASSUME TypeOK, DatapathInv, Next, NEW c \in CPUs, aborted[c]
               PROVE  sent'[c] = sent[c]
    OBVIOUS
  <2>1. ~ xdp_tx_sent(c)
    BY DEF DatapathInv, StuckInv, xdp_tx_sent
  <2>2. CASE \E d \in CPUs : xdp_tx(d)
    <3>1. PICK d \in CPUs : xdp_tx(d)
      BY <2>2
    <3>2. CASE xdp_tx_aborted(d)
      BY <3>2 DEF xdp_tx_aborted
    <3>3. CASE xdp_tx_sent(d)
      BY <2>1, <3>3 DEF xdp_tx_sent, TypeOK
    <3> QED
      BY <3>1, <3>2, <3>3 DEF xdp_tx
  <2>3. CASE initSeqStateMap \/ \E l \in EntryLists : initTxOverrideMap(l)
    BY <2>3 DEF initSeqStateMap, initTxOverrideMap
  <2> QED
    BY <2>2, <2>3 DEF Next
<1> QED
  BY <1>1, TypeCorrect, DatapathInvariant, PTL DEF Spec, AbortIsFinal

-----------------------------------------------------------------------------
(* The datapath implements FrameStream.                                    *)

Assigned == [c \in AssignedCPUs |-> FrameOf(tx_override_map[0][c])]

\* Filling the override map assigns the frames; anything else user space does
\* before that is invisible.
LEMMA FillSimulates ==
  ASSUME TypeOK, TypeOK', \/ initSeqStateMap
                          \/ \E l \in EntryLists : initTxOverrideMap(l)
  PROVE  Stream!Assign \/ UNCHANGED Stream!vars
<1>1. AssignedCPUs = {} /\ UNCHANGED sent
  BY DEF initSeqStateMap, initTxOverrideMap, AssignedCPUs
<1>2. CASE phase' = "ready"
  <2>1. AssignedCPUs' = CPUs
    BY <1>2 DEF AssignedCPUs
  <2>2. \A c \in CPUs : FrameOf(tx_override_map[0][c])' \in Seq(Byte)
    <3> SUFFICES ASSUME NEW c \in CPUs
                 PROVE  FrameOf(tx_override_map'[0][c]) \in Seq(Byte)
      BY DEF FrameOf, ClampedLen
    <3>1. tx_override_map'[0][c] \in pkt_template
      BY SizesAssumption DEF TypeOK, Slots
    <3> QED
      BY <3>1, FrameType
  <2>3. Assigned' \in [CPUs -> Seq(Byte)]
    BY <2>1, <2>2 DEF Assigned
  <2>4. DOMAIN Assigned = {}
    BY <1>1 DEF Assigned
  <2> QED
    BY <1>1, <2>3, <2>4 DEF Stream!Assign, Assigned
<1>3. CASE phase' # "ready"
  <2>1. AssignedCPUs' = {}
    BY <1>3 DEF AssignedCPUs
  <2>2. Assigned' = Assigned
    BY <1>1, <2>1 DEF Assigned
  <2> QED
    BY <1>1, <2>2 DEF Stream!vars, Assigned
<1> QED
  BY <1>2, <1>3

\* A run that sends is Emit, for it takes its frame from slot 0; one that aborts
\* is invisible.
LEMMA RunSimulates ==
  ASSUME TypeOK, DatapathInv, phase = "ready", NEW c \in CPUs, xdp_tx(c)
  PROVE  Stream!Emit(c) \/ UNCHANGED Stream!vars
<1>1. UNCHANGED <<tx_override_map, phase>>
  BY DEF xdp_tx, xdp_tx_aborted, xdp_tx_sent, mapVars
<1>2. Assigned' = Assigned
  BY <1>1 DEF Assigned, AssignedCPUs, FrameOf, ClampedLen
<1>3. CASE xdp_tx_aborted(c)
  BY <1>2, <1>3 DEF xdp_tx_aborted, Stream!vars, Assigned
<1>4. CASE xdp_tx_sent(c)
  <2>1. SlotOf(c) = 0
    BY <1>4, SendsFromSlotZero DEF DatapathInv
  <2>2. c \in DOMAIN Assigned /\ Assigned[c] = FrameOf(tx_override_map[0][c])
    BY DEF Assigned, AssignedCPUs
  <2>3. sent' = [sent EXCEPT ![c] = Append(@, Assigned[c])]
    BY <1>4, <2>1, <2>2 DEF xdp_tx_sent
  <2> QED
    BY <1>2, <2>2, <2>3 DEF Stream!Emit, Assigned
<1> QED
  BY <1>3, <1>4 DEF xdp_tx

\* The maps and the program implement the abstract stream: every CPU is assigned
\* one frame, once, and never sends another.
THEOREM DatapathIsAStream == Spec => StreamSpec
<1>1. Init => Stream!Init
  <2> SUFFICES ASSUME Init PROVE Stream!Init
    OBVIOUS
  <2>1. AssignedCPUs = {}
    BY DEF Init, AssignedCPUs
  <2>2. Assigned = [c \in {} |-> <<>>]
    BY <2>1 DEF Assigned
  <2> QED
    BY <2>2 DEF Init, Stream!Init, Assigned
<1>2. TypeOK /\ TypeOK' /\ DatapathInv /\ [Next]_xdpVars => [Stream!Next]_(Stream!vars)
  <2> SUFFICES ASSUME TypeOK, TypeOK', DatapathInv, [Next]_xdpVars
               PROVE  Stream!Next \/ UNCHANGED Stream!vars
    OBVIOUS
  <2>1. CASE UNCHANGED xdpVars
    <3>1. Assigned' = Assigned
      BY <2>1 DEF xdpVars, mapVars, Assigned, AssignedCPUs, FrameOf, ClampedLen
    <3> QED
      BY <2>1, <3>1 DEF xdpVars, Stream!vars, Assigned
  <2>2. CASE initSeqStateMap \/ \E l \in EntryLists : initTxOverrideMap(l)
    BY <2>2, FillSimulates DEF Stream!Next
  <2>3. CASE \E c \in CPUs : phase = "ready" /\ xdp_tx(c)
    BY <2>3, RunSimulates DEF Stream!Next
  <2> QED
    BY <2>1, <2>2, <2>3 DEF Next
<1> QED
  BY <1>1, <1>2, TypeCorrect, DatapathInvariant, PTL DEF Spec, StreamSpec, Stream!Spec
=============================================================================
