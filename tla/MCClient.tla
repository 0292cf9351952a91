------------------------------ MODULE MCClient ------------------------------
(***************************************************************************)
(* Client with values for TLC: three possible CPUs of which two are        *)
(* online, at most three workers (so that one cannot be pinned).           *)
(***************************************************************************)
EXTENDS Client

Packet(p, dataLen, length) ==
  [Data |-> [i \in 1 .. dataLen |-> 10 * p + i], Length |-> length]

\* One packet, two packets (the second of which is shorter than an Ethernet header, so
\* that the program aborts), none, and a length the data does not have.
MCResponses ==
  {<<Packet(1, 3, 3)>>, <<Packet(1, 2, 2), Packet(2, 3, 1)>>, <<>>, <<Packet(3, 2, 3)>>}

MCEntryLists == {r \in MCResponses : Convertible(r)}
MCOnlineCPUs == {0, 1}
=============================================================================
