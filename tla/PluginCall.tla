----------------------------- MODULE PluginCall -----------------------------
(***************************************************************************)
(* How the host calls into a plugin, pkg/plugin/manager.go: CallProcess    *)
(* and CallInit, which pass bytes through the memory of the guest, with    *)
(* the malloc and free the guest exports.  One goroutine makes the calls,  *)
(* one after the other, as the code and wazero's functions need it; another *)
(* may close the module under it at any time (UnloadPlugin, Close).        *)
(*                                                                         *)
(* The guest is external: a plugin built with TinyGo that keeps to         *)
(* plugins/README.md.  Its malloc hands out blocks that are not in use and *)
(* traps when it has none, and its free leaves the bytes of a block alone. *)
(* What a block holds is one value.                                        *)
(***************************************************************************)
EXTENDS Integers, FiniteSets

CONSTANTS
  Blocks,       \* the blocks malloc may hand out
  NoBlock,      \* a pointer the call has not got (yet, or any more)
  Inputs,       \* the inputs and configurations passed to the plugin
  OutputLen,    \* the bytes the plugin writes
  ErrorCodes,   \* the negative answers of plugin_process
  GuestMemory,  \* bytes of the guest's memory
  Word,         \* 2^32: a length is a uint32
  CallBound     \* bound on the calls

ASSUME CallAssumption ==
  /\ NoBlock \notin Blocks
  /\ IsFiniteSet(Blocks)
  /\ OutputLen \in 0 .. GuestMemory
  /\ Word \in Nat
  /\ GuestMemory \in 0 .. Word \div 2 - 1
  /\ ErrorCodes \subseteq -(Word \div 2) .. -1
  /\ CallBound \in Nat

\* What the plugin answers to an input; what a block can hold.
Answer(i) == <<"answer", i>>
Untouched == <<"untouched">>
Error == <<"error">>
Ok == <<"ok">>
Contents == {<<"input", i>> : i \in Inputs} \cup {Answer(i) : i \in Inputs} \cup {Untouched}

VARIABLES
  mem,        \* block -> what it holds
  allocated,  \* the blocks malloc has handed out and free has not taken back
  open,       \* the module is open
  pc,         \* where the call is
  op,         \* the running call, or the last one: CallInit or CallProcess
  arg,        \* its input
  in,         \* inPtr or configPtr
  out,        \* outPtr
  result,     \* what it returned: Error, Ok (CallInit), or what was copied
  calls,      \* how many calls were begun
  failures,   \* history: the calls that returned an error
  inits       \* history: the CallInits that returned none

callVars == <<mem, allocated, open, pc, op, arg, in, out, result, calls, failures, inits>>

Init ==
  /\ mem = [b \in Blocks |-> Untouched]
  /\ allocated = {}
  /\ open = TRUE
  /\ pc = "idle"
  /\ op = "none"
  /\ arg \in Inputs
  /\ in = NoBlock
  /\ out = NoBlock
  /\ result = Error
  /\ calls = 0
  /\ failures = 0
  /\ inits = 0

Goto(l) == pc' = l /\ UNCHANGED <<result, failures, inits>>

\* The early return with an error.  The pointers are lost, whatever they point to.
Fail ==
  /\ pc' = "idle"
  /\ result' = Error
  /\ failures' = failures + 1
  /\ in' = NoBlock
  /\ out' = NoBlock
  /\ UNCHANGED inits

\* A call into the guest that does not return: a trap, or a module that is closed.
Trap(l) ==
  /\ pc = l
  /\ Fail
  /\ UNCHANGED <<mem, allocated, open, op, arg, calls>>

-----------------------------------------------------------------------------

Begin ==
  /\ pc = "idle"
  /\ calls < CallBound
  /\ calls' = calls + 1
  /\ op' \in {"CallInit", "CallProcess"}
  /\ arg' \in Inputs
  /\ Goto("write")
  /\ UNCHANGED <<mem, allocated, open, in, out>>

\* malloc, and the bytes of the input written to the block.
writeToMemory ==
  /\ pc = "write"
  /\ open
  /\ \E b \in Blocks \ allocated :
       /\ allocated' = allocated \cup {b}
       /\ mem' = [mem EXCEPT ![b] = <<"input", arg>>]
       /\ in' = b
  /\ Goto(IF op = "CallInit" THEN "init" ELSE "malloc")
  /\ UNCHANGED <<open, op, arg, out, calls>>

\* plugin_init answers a number: 0 is success.  configPtr is not freed.
plugin_init ==
  /\ pc = "init"
  /\ open
  /\ \/ /\ pc' = "idle"
        /\ result' = Ok
        /\ inits' = inits + 1
        /\ in' = NoBlock
        /\ UNCHANGED <<out, failures>>
     \/ Fail
  /\ UNCHANGED <<mem, allocated, open, op, arg, calls>>

\* Mutant: the error of malloc is not looked at.
malloc_out_unchecked ==
  /\ pc = "malloc"
  /\ \/ /\ open
        /\ \E b \in Blocks \ allocated : allocated' = allocated \cup {b} /\ out' = b
     \/ UNCHANGED <<allocated, out>>
  /\ Goto("process")
  /\ UNCHANGED <<mem, open, op, arg, in, calls>>

\* The block for the output.
malloc_out ==
  /\ pc = "malloc"
  /\ open
  /\ \E b \in Blocks \ allocated : allocated' = allocated \cup {b} /\ out' = b
  /\ Goto("process")
  /\ UNCHANGED <<mem, open, op, arg, in, calls>>

\* The 32 bits of a number, read as unsigned.
Uint32(r) == IF r < 0 THEN r + Word ELSE r

\* Mutant: a length that is too large is cut to the length of the buffer.
ReadOk_clamped(len) == TRUE

\* memory.Read gives a view of the block if the length is within the memory.
ReadOk(len) == len <= GuestMemory

\* plugin_process answers with the bytes it has written or with an error code, which
\* the host reads as an unsigned number.
plugin_process ==
  /\ pc = "process"
  /\ open
  /\ \E r \in ErrorCodes \cup {OutputLen} :
       /\ mem' = IF r >= 0 THEN [mem EXCEPT ![out] = Answer(mem[in][2])] ELSE mem
       /\ IF ReadOk(Uint32(r)) THEN Goto("free_in") /\ UNCHANGED <<in, out>> ELSE Fail
  /\ UNCHANGED <<allocated, open, op, arg, calls>>

\* Mutants: the input is not freed; the output is freed in its place.
free_in_missing ==
  /\ pc = "free_in"
  /\ open
  /\ in' = NoBlock
  /\ Goto("free_out")
  /\ UNCHANGED <<mem, allocated, open, op, arg, out, calls>>

free_in_output ==
  /\ pc = "free_in"
  /\ open
  /\ allocated' = allocated \ {out}
  /\ in' = NoBlock
  /\ Goto("free_out")
  /\ UNCHANGED <<mem, open, op, arg, out, calls>>

free_in ==
  /\ pc = "free_in"
  /\ open
  /\ allocated' = allocated \ {in}
  /\ in' = NoBlock
  /\ Goto("free_out")
  /\ UNCHANGED <<mem, open, op, arg, out, calls>>

free_out ==
  /\ pc = "free_out"
  /\ open
  /\ allocated' = allocated \ {out}
  /\ Goto("copy")
  /\ UNCHANGED <<mem, open, op, arg, in, out, calls>>

\* The view is copied only now, out of a block that was freed.
copy ==
  /\ pc = "copy"
  /\ pc' = "idle"
  /\ result' = mem[out]
  /\ out' = NoBlock
  /\ UNCHANGED <<mem, allocated, open, op, arg, in, calls, failures, inits>>

\* Another goroutine closes the module: its functions fail, its memory can be read.
CloseModule == open /\ open' = FALSE /\ UNCHANGED <<mem, allocated, pc, op, arg, in, out,
                                                    result, calls, failures, inits>>

Next ==
  \/ Begin \/ writeToMemory \/ plugin_init
  \/ malloc_out \/ plugin_process \/ free_in \/ free_out \/ copy
  \/ \E l \in {"write", "init", "malloc", "process", "free_in", "free_out"} : Trap(l)
  \/ CloseModule

Spec == Init /\ [][Next]_callVars

-----------------------------------------------------------------------------
(* Properties                                                              *)

\* Types, and which pointers a call of which kind has at which point.
TypeOK ==
  /\ mem \in [Blocks -> Contents]
  /\ allocated \subseteq Blocks
  /\ open \in BOOLEAN
  /\ pc \in {"idle", "write", "init", "malloc", "process", "free_in", "free_out", "copy"}
  /\ op \in {"none", "CallInit", "CallProcess"}
  /\ pc = "init" => op = "CallInit"
  /\ arg \in Inputs
  /\ IF pc \in {"init", "malloc", "process", "free_in"} THEN in \in Blocks ELSE in = NoBlock
  /\ IF pc \in {"process", "free_in", "free_out", "copy"} THEN out \in Blocks ELSE out = NoBlock
  /\ result \in {Error, Ok} \cup Contents
  /\ calls \in 0 .. CallBound
  /\ failures \in Nat
  /\ inits \in Nat

\* The blocks the running call has to free.
Held == (IF pc = "copy" THEN {in} ELSE {in, out}) \ {NoBlock}

\* What the call still needs is safe: its two blocks are allocated and apart, the input
\* stays what the caller passed until the plugin has read it, and the output stays what
\* the plugin wrote until it is copied, through both frees and a close of the module.
BlocksAreSafe ==
  /\ Held \subseteq allocated
  /\ pc \in {"process", "free_in"} => in # out
  /\ pc \in {"init", "malloc", "process"} => mem[in] = <<"input", arg>>
  /\ pc \in {"free_in", "free_out", "copy"} => mem[out] = Answer(arg)

\* CallProcess returns the plugin's answer to this call's input or an error: never the
\* answer to an earlier call, never its own input, never what an error code stands for.
OutputIsTheAnswer ==
  pc = "idle" /\ op = "CallProcess" => result \in {Error, Answer(arg)}

\* The guest's memory that is never freed is exactly one block for each CallInit that
\* succeeded and at most two for each call that failed: calls of CallProcess that
\* succeed lose none.
LostBlocks ==
  LET lost == Cardinality(allocated \ Held)
  IN inits <= lost /\ lost <= inits + 2 * failures
=============================================================================
