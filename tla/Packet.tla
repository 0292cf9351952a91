------------------------------- MODULE Packet -------------------------------
(***************************************************************************)
(* The packet of the plugin simpleudp (plugins/simpleudp/packet.go): its   *)
(* three headers, its payload and its two checksums, as functions of the   *)
(* request.  Data is a sequence of bytes, offset 0 of the code being       *)
(* index 1.                                                                *)
(***************************************************************************)
EXTENDS Integers, Sequences

\* The fields of GeneratorRequest.  form tells the inputs that are no request: an empty
\* one and one that json.Unmarshal refuses.  An address that net.ParseIP does not take
\* for an IPv4 address is the empty sequence.
Bytes == 0 .. 255
Uint16s == 0 .. 65535
Addresses == {<<>>} \cup [1 .. 4 -> Bytes]
GeneratorRequest ==
  [form : {"empty", "malformed", "request"}, DeviceMacAddr : Seq(Bytes), SrcIP : Addresses,
   DstIP : Addresses, SrcPort : Uint16s, DstPort : Uint16s, PayloadSize : Int]

-----------------------------------------------------------------------------
(* The packet, written front to back: the offsets 14, 34 and 42 of         *)
(* PacketBuilder are where each header ends.                               *)

\* A value of 16 bits in network order, and the one of bytes k and k + 1.
PutUint16(v) == <<v \div 256, v % 256>>
Uint16(d, k) == d[k + 1] * 256 + d[k + 2]

dstMAC == <<64, 166, 183, 130, 205, 216>>

WriteEthernet(mac) == dstMAC \o SubSeq(mac, 1, 6) \o <<8, 0>>

\* What copy leaves of net.IP.To4(), which is nil for no IPv4 address.
To4(a) == IF a = <<>> THEN <<0, 0, 0, 0>> ELSE a

\* Version 4, IHL 5, no fragment, TTL 64, protocol 17.
WriteIPv4(totalLength, checksum, src, dst) ==
  <<69, 0, totalLength \div 256, totalLength % 256, 0, 0, 0, 0,
    64, 17, checksum \div 256, checksum % 256,
    src[1], src[2], src[3], src[4], dst[1], dst[2], dst[3], dst[4]>>

WriteUDP(srcPort, dstPort, length, checksum) ==
  PutUint16(srcPort) \o PutUint16(dstPort) \o PutUint16(length) \o PutUint16(checksum)

Payload(n) == [i \in 1 .. n |-> (i - 1) % 256]

\* The carries above 16 bits are added until there are none: of a uint32, twice.
Fold(sum) == (sum % 65536) + (sum \div 65536)
Checksum(sum) == 65535 - Fold(Fold(sum))

\* Mutant: the loop ends one word early.
IPv4Sum_short(ip) ==
  Uint16(ip, 0) + Uint16(ip, 2) + Uint16(ip, 4) + Uint16(ip, 6) + Uint16(ip, 8)
    + Uint16(ip, 10) + Uint16(ip, 12) + Uint16(ip, 14) + Uint16(ip, 16)

\* The ten words of the IPv4 header.
IPv4Sum(ip) ==
  Uint16(ip, 0) + Uint16(ip, 2) + Uint16(ip, 4) + Uint16(ip, 6) + Uint16(ip, 8)
    + Uint16(ip, 10) + Uint16(ip, 12) + Uint16(ip, 14) + Uint16(ip, 16) + Uint16(ip, 18)

\* Mutant: the last byte of an odd length is left out.
UDPWord_even(udp, len, k) == IF k + 1 < len THEN Uint16(udp, k) ELSE 0

\* The word at offset k of the UDP segment; a last byte alone is a high byte.
UDPWord(udp, len, k) == IF k + 1 < len THEN Uint16(udp, k) ELSE udp[k + 1] * 256

\* f[0] + ... + f[m - 1], in halves for a recursion that is not deep: sum[n][k] is that
\* of the n numbers from f[k] on.
Total(f, m) ==
  LET sum[n \in 0 .. m] ==
        [k \in Nat |-> IF n = 0 THEN 0
                       ELSE IF n = 1 THEN f[k]
                       ELSE sum[n \div 2][k] + sum[n - (n \div 2)][k + (n \div 2)]]
  IN sum[m][0]

\* The words of the first len bytes.
UDPWords(udp, len) ==
  LET words == (len + 1) \div 2
  IN Total([k \in 0 .. words - 1 |-> UDPWord(udp, len, 2 * k)], words)

\* The pseudo header, whose addresses are those of ip, and the segment.
UDPSum(ip, udp, len) ==
  Uint16(ip, 12) + Uint16(ip, 14) + Uint16(ip, 16) + Uint16(ip, 18) + 17 + len
    + UDPWords(udp, len)

NonZero(checksum) == IF checksum = 0 THEN 65535 ELSE checksum

\* ipTotalLen and udpLen, of 16 bits.
IPTotalLen(r) == (20 + 8 + r.PayloadSize) % 65536
UDPLen(r) == (8 + r.PayloadSize) % 65536

\* The IPv4 header is written with a checksum of zero and then with its own.
HeaderWith(r, checksum) == WriteIPv4(IPTotalLen(r), checksum, To4(r.SrcIP), To4(r.DstIP))
IPv4Header(r) == HeaderWith(r, Checksum(IPv4Sum(HeaderWith(r, 0))))

\* And so is the UDP header, over the payload and the addresses of the IPv4 header.
SegmentWith(r, checksum) ==
  WriteUDP(r.SrcPort, r.DstPort, UDPLen(r), checksum) \o Payload(r.PayloadSize)
UDPSegment(r) ==
  SegmentWith(r, NonZero(Checksum(UDPSum(IPv4Header(r), SegmentWith(r, 0), UDPLen(r)))))

BuildSimpleUDPPacket(r) ==
  WriteEthernet(r.DeviceMacAddr) \o IPv4Header(r) \o UDPSegment(r)

PacketSize(r) == 14 + 20 + 8 + r.PayloadSize

\* make panics on a negative length, the conversion to [6]byte on a short slice.
Panics(r) == r.PayloadSize < 0 \/ Len(r.DeviceMacAddr) < 6

-----------------------------------------------------------------------------
(* What a receiver makes of a frame.                                       *)

\* A one's complement sum is zero, its representation without zero words being 65535.
Verifies(sum) == sum > 0 /\ sum % 65535 = 0

\* The 20 bytes of an IPv4 header as a sum of words.
HeaderSum(ip) ==
  256 * (ip[1] + ip[3] + ip[5] + ip[7] + ip[9] + ip[11] + ip[13] + ip[15] + ip[17] + ip[19])
    + (ip[2] + ip[4] + ip[6] + ip[8] + ip[10] + ip[12] + ip[14] + ip[16] + ip[18] + ip[20])

\* Any bytes as a sum of words: every second byte, from the first, is a high one.
BytesSum(s) ==
  Total([i \in 0 .. Len(s) - 1 |-> IF i % 2 = 0 THEN 256 * s[i + 1] ELSE s[i + 1]], Len(s))

IPv4Of(f) == SubSeq(f, 15, 34)
UDPOf(f) == SubSeq(f, 35, Len(f))

\* The frame is the request's packet in Ethernet and IPv4: its length, its addresses,
\* and an IPv4 header that a router accepts.
ValidHeaders(f, r) ==
  /\ Len(f) = 42 + r.PayloadSize
  /\ SubSeq(f, 7, 12) = SubSeq(r.DeviceMacAddr, 1, 6)
  /\ SubSeq(f, 27, 34) = To4(r.SrcIP) \o To4(r.DstIP)
  /\ Uint16(IPv4Of(f), 2) = Len(f) - 14
  /\ Verifies(HeaderSum(IPv4Of(f)))

\* Its UDP datagram is the request's, and its receiver accepts it.
ValidUDP(ip, udp, r) ==
  /\ SubSeq(udp, 1, 4) = PutUint16(r.SrcPort) \o PutUint16(r.DstPort)
  /\ SubSeq(udp, 9, Len(udp)) = Payload(r.PayloadSize)
  /\ Uint16(udp, 4) = Len(udp)
  /\ Uint16(udp, 6) # 0
  /\ Verifies(BytesSum(SubSeq(ip, 13, 20) \o <<0, 17>> \o PutUint16(Len(udp)) \o udp))
=============================================================================
