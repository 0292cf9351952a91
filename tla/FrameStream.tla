---------------------------- MODULE FrameStream ----------------------------
(***************************************************************************)
(* What the datapath of xdperf promises, without the BPF maps: each        *)
(* transmitting CPU is assigned one frame, once, before anything is sent,  *)
(* and from then on every frame that leaves on that CPU is that frame.     *)
(* XdpTx.tla, the model of the code, implements it (XdpTx_proofs.tla).     *)
(***************************************************************************)
EXTENDS Sequences

CONSTANTS
  CPUs,    \* the transmitting CPUs
  Frames   \* the frames a CPU can be assigned

VARIABLES
  assigned,  \* CPU -> its frame; the empty function until frames are assigned
  out        \* CPU -> the sequence of frames that left on it

vars == <<assigned, out>>

Init ==
  /\ assigned = [c \in {} |-> <<>>]
  /\ out = [c \in CPUs |-> <<>>]

\* All CPUs get their frame in one step, and only once.
Assign ==
  /\ DOMAIN assigned = {}
  /\ assigned' \in [CPUs -> Frames]
  /\ UNCHANGED out

Emit(c) ==
  /\ c \in DOMAIN assigned
  /\ out' = [out EXCEPT ![c] = Append(@, assigned[c])]
  /\ UNCHANGED assigned

Next == Assign \/ \E c \in CPUs : Emit(c)

Spec == Init /\ [][Next]_vars
=============================================================================
