---------------------------- MODULE MCSimpleUdp ----------------------------
(***************************************************************************)
(* Instances of SimpleUdp.  The carries of the checksums, the 16 bits of   *)
(* the lengths and the slot of 2048 bytes are those of the program; the    *)
(* ring has one slot, and the output buffer 90000 bytes instead of 1 MiB.  *)
(***************************************************************************)
EXTENDS SimpleUdp

MAC(n) == [i \in 1 .. n |-> (37 * i) % 256]

\* The request xdperf makes: every field that matters has its default but the address.
Default ==
  [form |-> "request", DeviceMacAddr |-> MAC(6), SrcIP |-> <<192, 168, 1, 1>>,
   DstIP |-> <<192, 168, 1, 2>>, SrcPort |-> 1234, DstPort |-> 5678, PayloadSize |-> 1024]

WithPayload(n) == [Default EXCEPT !.PayloadSize = n]

\* Lengths around an empty payload, an odd one, the frame that is replayed (1500), a
\* slot (2048), 16 bits for the datagram (65507), for the frame (65493), for the UDP
\* length (65527), and the first ones whose response the output buffer does not hold.
Lengths ==
  {-1, 0, 1, 2, 3, 7, 255, 1024, 1457, 1458, 1459, 2005, 2006, 2007, 65493, 65494, 65495, 65507, 65528,
   66493, 67375, 67376, 67379}

\* Ports for which the sum of the segment is 65535, so that its complement is zero, and
\* the ports beside them.
Ports == {<<1024, 28344>>, <<1024, 28345>>, <<1024, 28346>>, <<3, 30129>>, <<7, 27553>>}

MCInputs ==
  {[Default EXCEPT !.form = f] : f \in {"empty", "malformed"}}
  \cup {WithPayload(n) : n \in Lengths}
  \cup {[WithPayload(p[1]) EXCEPT !.DstPort = p[2]] : p \in Ports}
  \cup {[Default EXCEPT !.DeviceMacAddr = MAC(n)] : n \in {0, 5, 8, 20}}
  \cup {[Default EXCEPT !.SrcIP = <<>>, !.DstIP = <<255, 255, 255, 255>>],
        [Default EXCEPT !.SrcIP = <<255, 255, 255, 255>>, !.DstIP = <<255, 255, 255, 255>>,
                        !.SrcPort = 65535, !.DstPort = 65535]}

\* What the plugin answers to them.
MCEntryLists ==
  {<<BasePacket(r)>> : r \in {q \in Inputs : Answered(q)}}
=============================================================================
