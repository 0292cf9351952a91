-------------------------- MODULE SimpleUdp_proofs --------------------------
(***************************************************************************)
(* Every frame on the wire is the packet of the request, valid for a       *)
(* router and for its receiver: the inductive invariant GenInv is that of  *)
(* the datapath (XdpTx_proofs) and that the maps hold what plugin_process  *)
(* answered; the packet itself is the matter of Packet_proofs.             *)
(***************************************************************************)
EXTENDS SimpleUdp, XdpTx_proofs, Packet_proofs

-----------------------------------------------------------------------------
(* From the request to the wire.                                           *)

\* What is in the maps is what plugin_process answered.
AnswerInv ==
  /\ input \in Inputs
  /\ gpc # "host" => phase = "fresh"
  /\ gpc = "host" => Answered(input) /\ resp = <<BasePacket(input)>> /\ answer = JSONLen(input)
  /\ phase = "ready" => Answered(input) /\ entries = <<BasePacket(input)>>

\* The datapath's invariants and this one are inductive.
GenInv == TypeOK /\ DatapathInv /\ AnswerInv

\* No map is filled before plugin_process has answered.
LEMMA InitialGenInv ==
  ASSUME GenInit
  PROVE  GenInv
<1>1. TypeOK /\ DatapathInv
  BY InitialTypeOK, InitialInv DEF GenInit
<1>2. AnswerInv
  BY DEF GenInit, Init, AnswerInv
<1> QED  BY <1>1, <1>2 DEF GenInv

\* plugin_process answers with the packet of the request or fails, and touches no map.
LEMMA AnswerKeepsInv ==
  ASSUME GenInv, plugin_process
  PROVE  GenInv'
<1>1. UNCHANGED <<xdpVars, input>>
  BY DEF plugin_process, Fails
<1>2. TypeOK' /\ DatapathInv'
  <2>1. TypeOK'
    BY <1>1 DEF GenInv, TypeOK, xdpVars, mapVars
  <2>2. DatapathInv'
    BY <1>1 DEF GenInv, xdpVars, mapVars, DatapathInv, SlotsInv, WalkInv, StuckInv, SlotOf,
                TemplateAt, FramesAreTheEntry, StatsCountTransmits, ExpectedFrame, ExpectedLen
  <2> QED  BY <2>1, <2>2
<1>3. AnswerInv'
  <2>1. phase = "fresh"
    BY DEF GenInv, AnswerInv, plugin_process
  <2>2. phase' = phase /\ input' = input
    BY <1>1 DEF xdpVars
  <2>3. CASE gpc' = "failed"
    BY <2>1, <2>2, <2>3 DEF GenInv, AnswerInv
  <2>4. CASE gpc' # "failed"
    <3>1. /\ Answered(input) /\ gpc' = "host" /\ resp' = <<BasePacket(input)>>
          /\ answer' = JSONLen(input)
      BY <2>4 DEF plugin_process, Fails
    <3> QED  BY <2>1, <2>2, <3>1 DEF GenInv, AnswerInv
  <2> QED  BY <2>3, <2>4
<1> QED  BY <1>2, <1>3 DEF GenInv

\* The host fills the maps with that answer, which is a list of entries of XdpTx.
LEMMA FillKeepsGenInv ==
  ASSUME GenInv, fill, UNCHANGED <<input, gpc, answer, resp>>
  PROVE  GenInv'
<1>1. /\ gpc = "host" /\ input \in Inputs /\ Answered(input)
      /\ resp = <<BasePacket(input)>> /\ answer = JSONLen(input)
  BY DEF GenInv, AnswerInv, fill
<1>2. resp \in EntryLists
  BY <1>1, AnswersAssumption
<1>3. initSeqStateMap \/ \E l \in EntryLists : initTxOverrideMap(l)
  BY <1>2 DEF fill
<1>4. TypeOK' /\ DatapathInv'
  BY <1>3, FillKeepsTypes, FillKeepsInv DEF GenInv
<1>5. phase' = "ready" => entries' = resp
  BY DEF fill, initSeqStateMap, initTxOverrideMap
<1>6. AnswerInv'
  <2>1. /\ gpc' = "host" /\ input' \in Inputs /\ Answered(input)'
        /\ resp' = <<BasePacket(input)>>' /\ answer' = JSONLen(input)'
    BY <1>1
  <2>2. phase' = "ready" => entries' = <<BasePacket(input)>>'
    BY <1>1, <1>5
  <2> QED  BY <2>1, <2>2 DEF AnswerInv
<1> QED  BY <1>4, <1>6 DEF GenInv

\* The XDP program leaves the lists alone.
LEMMA SendKeepsGenInv ==
  ASSUME GenInv, send, UNCHANGED <<input, gpc, answer, resp>>
  PROVE  GenInv'
<1>1. PICK c \in CPUs : phase = "ready" /\ xdp_tx(c)
  BY DEF send
<1>2. TypeOK' /\ DatapathInv'
  BY <1>1, RunKeepsTypes, RunKeepsInv DEF GenInv
<1>3. UNCHANGED <<phase, entries>>
  BY <1>1 DEF xdp_tx
<1>4. AnswerInv'
  BY <1>3 DEF GenInv, AnswerInv
<1> QED  BY <1>2, <1>4 DEF GenInv

\* The maps hold what the plugin answered to its request, and the datapath's invariants
\* hold, whoever fills the maps and however often each CPU runs the program.
THEOREM AnswersInvariant == GenSpec => []GenInv
<1>1. GenInv /\ [GenNext]_genVars => GenInv'
  <2> SUFFICES ASSUME GenInv, [GenNext]_genVars PROVE GenInv'
    OBVIOUS
  <2>1. CASE UNCHANGED genVars
    <3>1. UNCHANGED xdpVars /\ UNCHANGED <<input, gpc, answer, resp>>
      BY <2>1 DEF genVars
    <3>2. TypeOK'
      BY <3>1 DEF GenInv, TypeOK, xdpVars, mapVars
    <3>3. DatapathInv'
      BY <3>1 DEF GenInv, xdpVars, mapVars, DatapathInv, SlotsInv, WalkInv, StuckInv, SlotOf,
                  TemplateAt, FramesAreTheEntry, StatsCountTransmits, ExpectedFrame, ExpectedLen
    <3>4. AnswerInv'
      BY <3>1 DEF GenInv, AnswerInv, xdpVars
    <3> QED  BY <3>2, <3>3, <3>4 DEF GenInv
  <2>2. CASE plugin_process
    BY <2>2, AnswerKeepsInv
  <2>3. CASE (fill \/ send) /\ UNCHANGED <<input, gpc, answer, resp>>
    BY <2>3, FillKeepsGenInv, SendKeepsGenInv
  <2> QED  BY <2>1, <2>2, <2>3 DEF GenNext
<1> QED  BY <1>1, InitialGenInv, PTL DEF GenSpec

\* An answered request whose packet's length has 16 bits is one that Packet_proofs is
\* about.
LEMMA AnsweredIsSized ==
  ASSUME NEW r \in Inputs, Answered(r), PacketSize(r) <= 65535
  PROVE  Sized(r) /\ PacketSize(r) \in Nat /\ PacketSize(r) >= 42
<1>1. r \in GeneratorRequest /\ ~ Panics(r)
  BY UdpAssumption DEF Answered
<1>2. r.PayloadSize \in Int
  BY <1>1 DEF GeneratorRequest
<1>3. PacketSize(r) < 65536
  BY <1>2 DEF PacketSize
<1>4. Sized(r)
  BY <1>1, <1>3 DEF Sized
<1> QED  BY <1>2, <1>4, Fields DEF PacketSize, Sized

\* The list of one entry deals that entry to every CPU.
LEMMA OneEntry ==
  ASSUME NEW r, NEW c \in CPUs
  PROVE  EntryOf(<<BasePacket(r)>>, c) = BasePacket(r)
<1> DEFINE l == <<BasePacket(r)>>
<1>1. Len(l) = 1 /\ l[1] = BasePacket(r)
  OBVIOUS
<1>2. c % 1 = 0
  BY SizesAssumption DEF CPUs
<1> QED  BY <1>1, <1>2 DEF EntryOf

\* And if the packet's length has 16 bits, it comes with a length that is that of
\* its data: the 16 bits of Length cut nothing off.
LEMMA AnsweredEntry ==
  ASSUME NEW r \in Inputs, Answered(r), PacketSize(r) <= 65535, NEW c \in CPUs
  PROVE  /\ EntryOf(<<BasePacket(r)>>, c) = BasePacket(r)
         /\ BasePacket(r).Data = BuildSimpleUDPPacket(r)
         /\ BasePacket(r).Length = PacketSize(r)
         /\ Len(BuildSimpleUDPPacket(r)) = PacketSize(r)
<1>1. Sized(r) /\ PacketSize(r) \in Nat
  BY AnsweredIsSized
<1>2. Len(BuildSimpleUDPPacket(r)) = PacketSize(r)
  BY <1>1, FrameIsValid
<1>3. BasePacket(r).Data = BuildSimpleUDPPacket(r) /\ BasePacket(r).Length = PacketSize(r)
  <2>1. /\ BasePacket(r).Data = BuildSimpleUDPPacket(r)
        /\ BasePacket(r).Length = PacketSize(r) % 65536
    BY DEF BasePacket
  <2> QED  BY <1>1, <2>1
<1>4. EntryOf(<<BasePacket(r)>>, c) = BasePacket(r)
  BY OneEntry
<1> QED  BY <1>2, <1>3, <1>4

\* A frame on the wire is the packet of the request.
LEMMA FrameIsThePacket ==
  ASSUME GenInv, PacketSize(input) <= MaxTemplateSize, NEW f \in Sent
  PROVE  f = BuildSimpleUDPPacket(input) /\ Sized(input)
<1> DEFINE e == BasePacket(input)
           p == BuildSimpleUDPPacket(input)
<1>1. PICK c \in CPUs : \E n \in 1 .. Len(sent[c]) : f = sent[c][n]
  BY DEF Sent
<1>2. phase = "ready"
  <2>1. CASE phase # "ready"
    <3>1. sent[c] = <<>>
      BY <2>1 DEF GenInv, DatapathInv, SlotsInv
    <3> QED  BY <1>1, <3>1
  <2> QED  BY <2>1
<1>3. Answered(input) /\ entries = <<e>> /\ input \in Inputs
  BY <1>2 DEF GenInv, AnswerInv
<1>4. f = ExpectedFrame(c)
  BY <1>1 DEF GenInv, DatapathInv, FramesAreTheEntry
<1>5. PacketSize(input) <= 65535
  <2>1. input \in GeneratorRequest
    BY <1>3, UdpAssumption
  <2>2. input.PayloadSize \in Int
    BY <2>1 DEF GeneratorRequest
  <2> QED  BY <2>2, AnswersAssumption, SizesAssumption DEF PacketSize
<1>6. Sized(input) /\ PacketSize(input) \in Nat
  BY <1>3, <1>5, AnsweredIsSized
<1>7. p \in Seq(Bytes) /\ Len(p) = PacketSize(input)
  BY <1>6, FrameIsValid
<1>8. EntryOf(entries, c) = e /\ e.Data = p /\ e.Length = PacketSize(input)
  BY <1>3, <1>5, AnsweredEntry
<1> HIDE DEF e, p
<1>9. entries # <<>>
  BY <1>3
<1>10. ExpectedLen(c) = Len(p)
  BY <1>6, <1>7, <1>8, <1>9, SizesAssumption DEF ExpectedLen
<1>11. ExpectedFrame(c) = [i \in 1 .. Len(p) |-> p[i]]
  BY <1>8, <1>10 DEF ExpectedFrame
<1>12. p = [i \in 1 .. Len(p) |-> p[i]]
  BY <1>7
<1> QED  BY <1>4, <1>6, <1>11, <1>12 DEF p

\* Every frame on the wire has the length, the addresses and the IPv4 checksum of the
\* request, for every request whose packet a slot can hold.
THEOREM HeadersAreValidThm == GenSpec => []HeadersAreValid
<1>1. GenInv => HeadersAreValid
  <2> SUFFICES ASSUME GenInv, PacketSize(input) <= MaxTemplateSize, NEW f \in Sent
               PROVE  ValidHeaders(f, input)
    BY DEF HeadersAreValid
  <2> QED  BY FrameIsThePacket, FrameIsValid
<1> QED  BY <1>1, AnswersInvariant, PTL

\* And every one is a UDP datagram that its receiver accepts: the checksum is that of the
\* pseudo header and the payload, of whatever length, and never zero.
THEOREM DatagramsAreValidThm == GenSpec => []DatagramsAreValid
<1>1. GenInv => DatagramsAreValid
  <2> SUFFICES ASSUME GenInv, PacketSize(input) <= MaxTemplateSize, NEW f \in Sent
               PROVE  ValidUDP(IPv4Of(f), UDPOf(f), input)
    BY DEF DatagramsAreValid
  <2> QED  BY FrameIsThePacket, FrameIsValid
<1> QED  BY <1>1, AnswersInvariant, PTL

\* The host refuses nothing of an answer whose length has 16 bits.
LEMMA AnswerIsNotRefused ==
  ASSUME NEW r \in Inputs, Answered(r), PacketSize(r) <= 65535
  PROVE  ~ Refused(<<BasePacket(r)>>)
<1>1. PacketSize(r) \in Nat /\ PacketSize(r) >= 42
  BY AnsweredIsSized
<1>2. ASSUME NEW c \in CPUs
      PROVE  ~ \/ EntryOf(<<BasePacket(r)>>, c).Length <= 0
               \/ EntryOf(<<BasePacket(r)>>, c).Length > Len(EntryOf(<<BasePacket(r)>>, c).Data)
  BY <1>1, AnsweredEntry
<1>3. Len(<<BasePacket(r)>>) # 0
  OBVIOUS
<1> QED  BY <1>2, <1>3 DEF Refused

\* The tail of the sample can always be moved to where such a packet, or the part of it
\* that a slot holds, ends: a CPU that is stuck has left slot 0.
LEMMA StuckAfterTheFirst ==
  ASSUME GenInv, gpc = "host", PacketSize(input) <= 65535, NEW c \in CPUs, aborted[c]
  PROVE  MaxPacketEntry > 1 /\ sent[c] # <<>>
<1>1. phase = "ready"
  BY DEF GenInv, DatapathInv, SlotsInv
<1>2. Answered(input) /\ entries = <<BasePacket(input)>> /\ input \in Inputs
  BY <1>1 DEF GenInv, AnswerInv
<1>3. PacketSize(input) \in Nat /\ PacketSize(input) >= 42
  BY <1>2, AnsweredIsSized
<1>4. EntryOf(entries, c).Length = PacketSize(input)
  BY <1>2, AnsweredEntry
<1>5. ClampedLen(tx_override_map[0][c]) = ExpectedLen(c)
  BY <1>1, FilledSlot DEF GenInv, DatapathInv
<1>6. ExpectedLen(c) >= EthHlen
  <2>1. entries # <<>>
    BY <1>2
  <2> QED  BY <1>3, <1>4, <2>1, SizesAssumption, AnswersAssumption DEF ExpectedLen
<1>7. Resized(tx_override_map[0][c])
  BY <1>5, <1>6 DEF Resized, adjust_tail_ok
<1>8. ~ Resized(tx_override_map[SlotOf(c)][c])
  BY DEF GenInv, DatapathInv, StuckInv, TemplateAt
<1>9. seq_state_map[c] \in Slots /\ seq_state_map[c] # 0
  BY <1>7, <1>8, SlotFacts DEF GenInv, TypeOK
<1>10. MaxPacketEntry > 1
  BY <1>9, SizesAssumption DEF Slots
<1>11. Len(sent[c]) = seq_state_map[c]
  BY <1>10 DEF GenInv, DatapathInv, WalkInv
<1> QED  BY <1>9, <1>10, <1>11, EmptySeq

\* A packet whose length has 16 bits goes all the way from the plugin to the wire: it
\* fits the output buffer, the host fills the maps with it, and every CPU sends it.
THEOREM AnswersAreSentThm == GenSpec => []AnswersAreSent
<1>1. GenInv => AnswersAreSent
  <2> SUFFICES ASSUME GenInv, gpc = "host" PROVE AnswersAreSent
    BY DEF AnswersAreSent
  <2>1. /\ Answered(input) /\ input \in Inputs
        /\ resp = <<BasePacket(input)>> /\ answer = JSONLen(input)
    BY DEF GenInv, AnswerInv
  <2>2. answer <= OutputMaxLen
    BY <2>1 DEF Answered, OutputFits
  <2>3. PacketSize(input) <= 65535 => ~ Refused(resp)
    BY <2>1, AnswerIsNotRefused
  <2>4. PacketSize(input) <= 65535 =>
          \A c \in CPUs : aborted[c] => MaxPacketEntry > 1 /\ sent[c] # <<>>
    BY StuckAfterTheFirst
  <2> QED  BY <2>2, <2>3, <2>4 DEF AnswersAreSent
<1> QED  BY <1>1, AnswersInvariant, PTL

\* What is left of a length after 16 bits and the slot.
CutLen(n) == IF n % 65536 <= MaxTemplateSize THEN n % 65536 ELSE MaxTemplateSize

\* A frame on the wire is that much of the packet.
LEMMA FrameIsThePrefix ==
  ASSUME GenInv, NEW f \in Sent
  PROVE  LET p == BuildSimpleUDPPacket(input)
             k == CutLen(PacketSize(input))
         IN  /\ input \in GeneratorRequest /\ ~ Panics(input)
             /\ p \in Seq(Nat) /\ k \in Nat /\ k <= Len(p)
             /\ f = SubSeq(p, 1, k) /\ Len(f) = k /\ f \in Seq(Nat)
             /\ \A i \in 1 .. k : f[i] = p[i]
<1> DEFINE e == BasePacket(input)
           p == BuildSimpleUDPPacket(input)
           k == CutLen(PacketSize(input))
<1>1. PICK c \in CPUs : \E n \in 1 .. Len(sent[c]) : f = sent[c][n]
  BY DEF Sent
<1>2. phase = "ready"
  <2>1. CASE phase # "ready"
    <3>1. sent[c] = <<>>
      BY <2>1 DEF GenInv, DatapathInv, SlotsInv
    <3> QED  BY <1>1, <3>1
  <2> QED  BY <2>1
<1>3. Answered(input) /\ entries = <<e>> /\ input \in Inputs
  BY <1>2 DEF GenInv, AnswerInv
<1>4. f = ExpectedFrame(c)
  BY <1>1 DEF GenInv, DatapathInv, FramesAreTheEntry
<1>5. input \in GeneratorRequest /\ ~ Panics(input)
  BY <1>3, UdpAssumption DEF Answered
<1>6. PacketSize(input) % 65536 \in Nat
  <2>1. input.PayloadSize \in Int
    BY <1>5 DEF GeneratorRequest
  <2> QED  BY <2>1 DEF PacketSize
<1>7. e.Data = p /\ e.Length = PacketSize(input) % 65536
  BY DEF BasePacket
<1>8. p \in Seq(Nat) /\ e.Length <= Len(p)
  <2>1. <<e>> \in EntryLists
    BY <1>3, AnswersAssumption
  <2>2. 1 \in 1 .. Len(<<e>>) /\ <<e>>[1] = e
    OBVIOUS
  <2>3. <<e>> \in Seq(TxOverrideEntry)
    BY <2>1, EntriesAssumption
  <2>4. e \in TxOverrideEntry /\ e.Length <= Len(e.Data)
    <3> HIDE DEF e
    <3>1. <<e>>[1].Length <= Len(<<e>>[1].Data)
      BY <2>1, <2>2, EntriesAssumption
    <3>2. <<e>>[1] \in TxOverrideEntry
      BY <2>2, <2>3, ElementOfSeq
    <3> QED  BY <2>2, <3>1, <3>2
  <2> QED  BY <1>7, <2>4 DEF TxOverrideEntry
<1>9. EntryOf(entries, c) = e
  BY <1>3, OneEntry
<1> HIDE DEF e, p
<1>10. entries # <<>>
  BY <1>3
<1>11. ExpectedLen(c) = k
  BY <1>6, <1>7, <1>9, <1>10, SizesAssumption DEF ExpectedLen, CutLen
<1>12. k \in Nat /\ k <= Len(p)
  BY <1>6, <1>7, <1>8, SizesAssumption DEF CutLen
<1> HIDE DEF k
<1>13. f = [i \in 1 .. k |-> p[i]]
  BY <1>4, <1>7, <1>9, <1>11 DEF ExpectedFrame
<1>14. f \in Seq(Nat) /\ Len(f) = k /\ \A i \in 1 .. k : f[i] = p[i]
  <2>1. \A i \in 1 .. k : p[i] \in Nat
    BY <1>8, <1>12
  <2> QED  BY <1>12, <1>13, <2>1
<1>15. SubSeq(p, 1, k) = f
  <2>1. SubSeq(p, 1, k) = [i \in 1 .. k |-> p[i]]
    <3>1. \A i \in 1 .. k : i + 1 - 1 = i
      BY <1>12
    <3>2. k - 1 + 1 = k
      BY <1>12
    <3> QED  BY <1>8, <1>12, <3>1, <3>2
  <2> QED  BY <1>13, <2>1
<1> QED  BY <1>5, <1>8, <1>12, <1>14, <1>15 DEF p, k

\* A frame that holds the IPv4 header has the one of the packet.
LEMMA HeaderOfTheFrame ==
  ASSUME GenInv, NEW f \in Sent, 34 <= Len(f)
  PROVE  IPv4Of(f) = IPv4Header(input)
<1> DEFINE p == BuildSimpleUDPPacket(input)
           h == IPv4Header(input)
           g == SubSeq(f, 15, 34)
<1>1. /\ input \in GeneratorRequest /\ ~ Panics(input)
      /\ f \in Seq(Nat) /\ \A i \in 1 .. Len(f) : f[i] = p[i]
  BY FrameIsThePrefix
<1>2. h \in Seq(Bytes) /\ Len(h) = 20
  BY <1>1, AnyHeaderIsValid
<1>3. \A i \in 1 .. 20 : p[14 + i] = h[i]
  BY <1>1, PacketHeader
<1> HIDE DEF p, h
<1>4. /\ g \in Seq(Nat) /\ Len(g) = 20
      /\ \A i \in 1 .. 20 : g[i] = f[15 + i - 1]
  <2>1. \A i \in 15 .. 34 : f[i] \in Nat
    BY <1>1
  <2>2. 34 - 15 + 1 = 20
    OBVIOUS
  <2> QED  BY <2>1, <2>2, SubSeqProperties
<1>5. ASSUME NEW i \in 1 .. 20
      PROVE  g[i] = h[i]
  <2>1. 15 + i - 1 = 14 + i /\ 14 + i \in 1 .. Len(f)
    BY <1>1
  <2>2. g[i] = f[14 + i]
    BY <1>4, <2>1
  <2>3. f[14 + i] = p[14 + i]
    BY <1>1, <2>1
  <2> QED  BY <1>3, <2>2, <2>3
<1>6. h \in Seq(Nat)
  <2>1. h \in [1 .. 20 -> Bytes]
    BY <1>2, LenProperties
  <2>2. \A i \in 1 .. 20 : h[i] \in Bytes
    BY <2>1
  <2>3. \A i \in 1 .. 20 : h[i] \in Nat
    BY <2>2, ByteRange
  <2>4. Len(h) \in Nat /\ h \in [1 .. Len(h) -> Nat]
    BY <1>2, <2>1, <2>3
  <2> QED  BY <2>4
<1> HIDE DEF g
<1>7. g = h
  BY <1>2, <1>4, <1>5, <1>6, SeqEqual
<1> QED  BY <1>7 DEF g, h, IPv4Of

\* Whatever the length of a packet, what is sent of it is its beginning; and if the slot
\* did not cut it, a router accepts it, though the lengths may have wrapped.
THEOREM SentIsAPrefixThm == GenSpec => []SentIsAPrefix
<1>1. GenInv => SentIsAPrefix
  <2> DEFINE n == PacketSize(input) % 65536
             p == BuildSimpleUDPPacket(input)
  <2> SUFFICES ASSUME GenInv, NEW f \in Sent
               PROVE  /\ f = SubSeq(p, 1, CutLen(PacketSize(input)))
                      /\ 34 <= n /\ n <= MaxTemplateSize =>
                           Uint16(IPv4Of(f), 2) = Len(f) - 14 /\ Verifies(HeaderSum(IPv4Of(f)))
    BY DEF SentIsAPrefix, CutLen
  <2>1. f = SubSeq(p, 1, CutLen(PacketSize(input)))
    BY FrameIsThePrefix
  <2>2. Len(f) = CutLen(PacketSize(input))
    BY FrameIsThePrefix
  <2>3. input \in GeneratorRequest /\ ~ Panics(input)
    BY FrameIsThePrefix
  <2>4. n <= MaxTemplateSize => CutLen(PacketSize(input)) = n
    BY DEF CutLen
  <2>5. 34 <= n => IPTotalLen(input) = n - 14
    <3>1. input.PayloadSize \in Int
      BY <2>3 DEF GeneratorRequest
    <3>2. ASSUME NEW m \in Int, 34 <= (14 + 20 + 8 + m) % 65536
          PROVE  (20 + 8 + m) % 65536 = ((14 + 20 + 8 + m) % 65536) - 14
      BY <3>2
    <3> QED  BY <3>1, <3>2 DEF IPTotalLen, PacketSize
  <2> HIDE DEF n, p
  <2>6. ASSUME 34 <= n, n <= MaxTemplateSize
        PROVE  Uint16(IPv4Of(f), 2) = Len(f) - 14 /\ Verifies(HeaderSum(IPv4Of(f)))
    <3>1. Len(f) = n
      BY <2>2, <2>4, <2>6
    <3>2. IPv4Of(f) = IPv4Header(input)
      BY <2>6, <3>1, HeaderOfTheFrame
    <3>3. /\ Uint16(IPv4Header(input), 2) = IPTotalLen(input)
          /\ Verifies(HeaderSum(IPv4Header(input)))
      BY <2>3, AnyHeaderIsValid
    <3> QED  BY <2>5, <2>6, <3>1, <3>2, <3>3
  <2> QED  BY <2>1, <2>6
<1> QED  BY <1>1, AnswersInvariant, PTL

\* Between the plugin and the wire only the steps of XdpTx are taken.
THEOREM PluginUsesTheDatapath == GenSpec => Spec
<1>1. GenInit => Init
  BY DEF GenInit
<1>2. GenInv /\ [GenNext]_genVars => [Next]_xdpVars
  <2> SUFFICES ASSUME GenInv, GenNext, ~ UNCHANGED xdpVars PROVE Next
    BY DEF genVars
  <2>1. ~ plugin_process
    BY DEF plugin_process, Fails
  <2>2. CASE fill
    <3>1. resp \in EntryLists
      BY <2>2, AnswersAssumption DEF fill, GenInv, AnswerInv
    <3> QED  BY <2>2, <3>1 DEF fill, Next
  <2>3. CASE send
    BY <2>3 DEF send, Next
  <2> QED  BY <2>1, <2>2, <2>3 DEF GenNext
<1> QED  BY <1>1, <1>2, AnswersInvariant, PTL DEF GenSpec, Spec

\* So the simpleudp plugin and the datapath together are a stream of one frame per CPU,
\* which is assigned once, whose bytes and statistics never change or mix.
THEOREM PluginIsAStream == GenSpec => StreamSpec /\ AbortIsFinal /\ []StatsCountTransmits
BY PluginUsesTheDatapath, DatapathIsAStream, AbortsAreFinal, StatisticsAreExact, PTL
=============================================================================
