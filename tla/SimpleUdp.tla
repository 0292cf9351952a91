----------------------------- MODULE SimpleUdp -----------------------------
(***************************************************************************)
(* The plugin simpleudp (plugins/simpleudp/main.go), from the bytes of a   *)
(* request to the frame on the wire: plugin_process, whose packet is that  *)
(* of Packet, and what the host and the XDP program make of its answer,    *)
(* which are the actions of XdpTx.                                         *)
(***************************************************************************)
EXTENDS XdpTx, Packet, FiniteSets

CONSTANTS
  Inputs,        \* what a host may pass to plugin_process
  OutputMaxLen   \* the size of the output buffer, 1 MiB

ASSUME UdpAssumption ==
  /\ Inputs \subseteq GeneratorRequest
  /\ OutputMaxLen \in Nat

-----------------------------------------------------------------------------
(* plugin_process.                                                         *)

VARIABLES
  input,   \* the request
  gpc,     \* plugin_process, host (it has answered) or failed
  answer,  \* the number it answers with
  resp     \* the list of packets in the response

genVars == <<xdpVars, input, gpc, answer, resp>>

\* The length of the response as JSON: the bytes are in base64.
JSONLen(r) ==
  107 + 4 * ((PacketSize(r) + 2) \div 3)
      + 1 + Cardinality({p \in {10, 100, 1000, 10000} : PacketSize(r) % 65536 >= p})

\* Mutant: the length of the payload, which the Ethernet header may not be part of.
BasePacket_payload(r) == [Data |-> BuildSimpleUDPPacket(r), Length |-> r.PayloadSize % 65536]

\* BasePacket, whose Length has 16 bits.
BasePacket(r) == [Data |-> BuildSimpleUDPPacket(r), Length |-> PacketSize(r) % 65536]

OutputFits(r) == JSONLen(r) <= OutputMaxLen

\* A request that is answered with a packet.
Answered(r) == r.form = "request" /\ ~ Panics(r) /\ OutputFits(r)

\* The lists of XdpTx hold every answer, the length of a slot has 16 bits, and a slot
\* holds a frame that is an Ethernet header, the shortest one the kernel accepts.
ASSUME AnswersAssumption ==
  /\ \A r \in Inputs : Answered(r) => <<BasePacket(r)>> \in EntryLists
  /\ MaxTemplateSize < 65536
  /\ EthHlen <= 14
  /\ EthHlen <= MaxTemplateSize

Fails(code) == gpc' = "failed" /\ answer' = code /\ UNCHANGED <<xdpVars, input, resp>>

plugin_process ==
  /\ gpc = "plugin_process"
  /\ \/ input.form = "empty" /\ Fails(-1)
     \/ input.form = "malformed" /\ Fails(-2)
     \/ input.form = "request" /\ Panics(input) /\ Fails(answer)
     \/ input.form = "request" /\ ~ Panics(input) /\ ~ OutputFits(input) /\ Fails(-4)
     \/ /\ Answered(input)
        /\ gpc' = "host"
        /\ answer' = JSONLen(input)
        /\ resp' = <<BasePacket(input)>>
        /\ UNCHANGED <<xdpVars, input>>

\* The host fills the maps with the response.
fill == gpc = "host" /\ (initSeqStateMap \/ initTxOverrideMap(resp))

\* The program sends.
send == \E c \in CPUs : phase = "ready" /\ Len(sent[c]) < FrameBound /\ xdp_tx(c)

\* xdperf's own callPlugin sends a count and the address of the interface, so that every
\* other field has its default (a payload of 1024 bytes); any other host may send what
\* plugins/README.md describes.
GenInit ==
  /\ Init
  /\ input \in Inputs
  /\ gpc = "plugin_process"
  /\ answer = 0
  /\ resp = <<>>

GenNext ==
  \/ plugin_process
  \/ (fill \/ send) /\ UNCHANGED <<input, gpc, answer, resp>>

GenSpec == GenInit /\ [][GenNext]_genVars

-----------------------------------------------------------------------------
(* Properties                                                              *)

Sent == UNION {{sent[c][n] : n \in 1 .. Len(sent[c])} : c \in CPUs}

\* Every frame on the wire of a request whose packet a slot can hold has the headers
\* that were asked for, though the plugin, the host and the XDP program each take a
\* length of their own: that of the payload, that of the entry, that of the slot.
HeadersAreValid ==
  PacketSize(input) <= MaxTemplateSize => \A f \in Sent : ValidHeaders(f, input)

\* And it is a UDP datagram that a receiver accepts and does not take for one without
\* a checksum, of an odd length or an even one, however the sum folds.
DatagramsAreValid ==
  PacketSize(input) <= MaxTemplateSize =>
    \A f \in Sent : ValidUDP(IPv4Of(f), UDPOf(f), input)

\* A packet whose length has 16 bits goes all the way: the answer lies in the output
\* buffer, whose end the host does not look at, the host refuses nothing of it, and no
\* CPU aborts at it, but at most in a later slot of the ring after it was sent.
AnswersAreSent ==
  gpc = "host" =>
    /\ answer <= OutputMaxLen
    /\ PacketSize(input) <= 65535 =>
         ~ Refused(resp) /\ \A c \in CPUs : aborted[c] => MaxPacketEntry > 1 /\ sent[c] # <<>>

\* What is sent of a request is the beginning of its packet, as much of it as the 16 bits
\* of Length and the slot let through, and nothing else.  A frame that the slot did not
\* cut has an IPv4 header that a router accepts, with the length of the frame, even if
\* Length wrapped: the length in the header wraps like it, so no router can tell.
SentIsAPrefix ==
  LET n == PacketSize(input) % 65536
      packet == BuildSimpleUDPPacket(input)
  IN \A f \in Sent :
       /\ f = SubSeq(packet, 1, IF n <= MaxTemplateSize THEN n ELSE MaxTemplateSize)
       /\ 34 <= n /\ n <= MaxTemplateSize =>
            Uint16(IPv4Of(f), 2) = Len(f) - 14 /\ Verifies(HeaderSum(IPv4Of(f)))
=============================================================================
