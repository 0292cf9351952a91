------------------------------ MODULE MCXdpTx ------------------------------
(***************************************************************************)
(* Small instances of XdpTx.  The sizes keep the order of the real ones:   *)
(* ETH_HLEN 14 -> 2, sample frame 1500 -> 3, MAX_TEMPLATE_SIZE 2048 -> 4.  *)
(***************************************************************************)
EXTENDS XdpTx, SequencesExt

\* An entry whose data bytes name the packet (p) and their position.
Packet(p, dataLen, length) ==
  [Data |-> [i \in 1 .. dataLen |-> 10 * p + i], Length |-> length]

\* Every kind of length: zero, shorter than an Ethernet header, shorter than, as
\* long as and longer than the sample frame, as long as a slot, too long for a
\* slot, and shorter than the data it comes with.
MCEntries ==
  {Packet(1, 3, 0), Packet(2, 1, 1), Packet(3, 2, 2), Packet(4, 3, 3),
   Packet(5, 4, 4), Packet(6, 5, 5), Packet(7, 5, 3)}

MCEntryLists == BoundedSeq(MCEntries, 3)
=============================================================================
