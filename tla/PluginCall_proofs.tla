------------------------- MODULE PluginCall_proofs -------------------------
(***************************************************************************)
(* The call protocol of PluginCall is proved correct for any number of     *)
(* blocks, inputs and calls.  The inductive invariant says which pointers  *)
(* the call has at each point (TypeOK), that its blocks are its own and    *)
(* hold what it put there (BlocksAreSafe), and what was returned.          *)
(***************************************************************************)
EXTENDS PluginCall, FiniteSetTheorems, TLAPS

CallInv == TypeOK /\ BlocksAreSafe /\ OutputIsTheAnswer

\* An error code, read as an unsigned length, is beyond the guest's memory, so that
\* memory.Read refuses it; the length of a real output is not.
LEMMA Lengths ==
  /\ \A r \in ErrorCodes : r < 0 /\ ~ ReadOk(Uint32(r))
  /\ OutputLen >= 0 /\ ReadOk(Uint32(OutputLen))
BY CallAssumption DEF ReadOk, Uint32

\* Answers and inputs are different contents, and neither is a refusal.
LEMMA AnswersAreContents ==
  ASSUME NEW i \in Inputs
  PROVE  /\ Answer(i) \in Contents
         /\ <<"input", i>> \in Contents
         /\ <<"input", i>>[2] = i
BY DEF Contents, Answer

\* One block is written.
LEMMA WriteBlock ==
  ASSUME NEW f \in [Blocks -> Contents], NEW b \in Blocks, NEW v \in Contents
  PROVE  /\ [f EXCEPT ![b] = v] \in [Blocks -> Contents]
         /\ [f EXCEPT ![b] = v][b] = v
OBVIOUS

\* The initial state satisfies the invariant: nothing is held.
LEMMA InitialCall == Init => CallInv
BY CallAssumption DEF Init, CallInv, TypeOK, BlocksAreSafe, OutputIsTheAnswer, Held, Contents

\* An early return with an error: the call holds nothing any more.
LEMMA FailKeepsCallInv ==
  ASSUME TypeOK, Fail, UNCHANGED <<mem, allocated, open, op, arg, calls>>
  PROVE  CallInv'
<1>1. pc' = "idle" /\ result' = Error /\ in' = NoBlock /\ out' = NoBlock
  BY DEF Fail
<1>2. failures' \in Nat /\ inits' \in Nat
  BY DEF Fail, TypeOK
<1>3. TypeOK'
  BY <1>1, <1>2 DEF TypeOK
<1>4. BlocksAreSafe'
  BY <1>1 DEF BlocksAreSafe, Held
<1>5. OutputIsTheAnswer'
  BY <1>1 DEF OutputIsTheAnswer
<1> QED
  BY <1>3, <1>4, <1>5 DEF CallInv

\* Every step of a call, and a close of the module during it, keeps the invariant.
LEMMA StepKeepsCallInv ==
  ASSUME CallInv, [Next]_callVars
  PROVE  CallInv'
<1> USE CallAssumption DEF CallInv, TypeOK, BlocksAreSafe, Held, OutputIsTheAnswer, Goto
<1>1. CASE Begin
  BY <1>1 DEF Begin
<1>2. CASE writeToMemory
  <2> PICK b \in Blocks \ allocated :
        /\ allocated' = allocated \cup {b}
        /\ mem' = [mem EXCEPT ![b] = <<"input", arg>>]
        /\ in' = b
    BY <1>2 DEF writeToMemory
  <2>1. b \in Blocks /\ b # NoBlock /\ UNCHANGED <<open, op, arg, out, calls, result, failures, inits>>
    BY <1>2 DEF writeToMemory
  <2>2. mem' \in [Blocks -> Contents] /\ mem'[b] = <<"input", arg>>
    BY AnswersAreContents, WriteBlock
  <2>3. /\ in' = b
        /\ out' = NoBlock
        /\ \/ op = "CallInit" /\ pc' = "init"
           \/ pc' = "malloc"
    BY <1>2 DEF writeToMemory
  <2>4. TypeOK'
    BY <2>1, <2>2, <2>3
  <2>5. BlocksAreSafe'
    BY <2>1, <2>2, <2>3
  <2> QED
    BY <2>3, <2>4, <2>5
<1>3. CASE plugin_init
  <2>1. CASE Fail
    BY <1>3, <2>1, FailKeepsCallInv DEF plugin_init
  <2>2. CASE ~ Fail
    <3>1. pc = "init" /\ pc' = "idle" /\ in' = NoBlock /\ result' = Ok
      BY <1>3, <2>2 DEF plugin_init
    <3>2. inits' = inits + 1 /\ UNCHANGED <<mem, allocated, open, op, arg, out, calls, failures>>
      BY <1>3, <2>2 DEF plugin_init
    <3>3. op = "CallInit"
      BY <3>1
    <3> QED
      BY <3>1, <3>2, <3>3
  <2> QED
    BY <2>1, <2>2
<1>4. CASE malloc_out
  BY <1>4 DEF malloc_out
<1>5. CASE plugin_process
  <2> PICK r \in ErrorCodes \cup {OutputLen} :
        /\ mem' = IF r >= 0 THEN [mem EXCEPT ![out] = Answer(mem[in][2])] ELSE mem
        /\ IF ReadOk(Uint32(r)) THEN Goto("free_in") /\ UNCHANGED <<in, out>> ELSE Fail
    BY <1>5 DEF plugin_process
  <2>1. CASE r \in ErrorCodes
    <3>1. mem' = mem /\ Fail
      BY <2>1, Lengths
    <3> QED
      BY <1>5, <3>1, FailKeepsCallInv DEF plugin_process
  <2>2. CASE r = OutputLen
    <3>1. pc = "process" /\ in # out /\ in \in Blocks /\ out \in Blocks
      BY <1>5 DEF plugin_process
    <3>2. mem[in][2] = arg
      BY <3>1, AnswersAreContents
    <3>3. mem' = [mem EXCEPT ![out] = Answer(arg)]
      BY <2>2, <3>2, Lengths
    <3>4. pc' = "free_in" /\ UNCHANGED <<in, out, result, failures, inits>>
      BY <2>2, Lengths
    <3>5. UNCHANGED <<allocated, open, op, arg, calls>>
      BY <1>5 DEF plugin_process
    <3>6. mem' \in [Blocks -> Contents] /\ mem'[out] = Answer(arg)
      <4>1. arg \in Inputs /\ mem \in [Blocks -> Contents] /\ out \in Blocks
        BY <3>1
      <4>2. Answer(arg) \in Contents
        BY <4>1, AnswersAreContents
      <4> HIDE DEF CallInv, TypeOK, BlocksAreSafe, OutputIsTheAnswer
      <4> QED
        BY <3>3, <4>1, <4>2, WriteBlock
    <3>7. TypeOK'
      BY <3>1, <3>4, <3>5, <3>6
    <3>8. BlocksAreSafe'
      BY <3>1, <3>4, <3>5, <3>6
    <3> QED
      BY <3>4, <3>7, <3>8
  <2> QED
    BY <2>1, <2>2
<1>6. CASE free_in
  BY <1>6 DEF free_in
<1>7. CASE free_out
  BY <1>7 DEF free_out
<1>8. CASE copy
  BY <1>8 DEF copy
<1>9. CASE \E l \in {"write", "init", "malloc", "process", "free_in", "free_out"} : Trap(l)
  BY <1>9, FailKeepsCallInv DEF Trap
<1>10. CASE CloseModule
  BY <1>10 DEF CloseModule
<1>11. CASE UNCHANGED callVars
  BY <1>11 DEF callVars
<1> QED
  BY <1>1, <1>2, <1>3, <1>4, <1>5, <1>6, <1>7, <1>8, <1>9, <1>10, <1>11 DEF Next

\* The blocks of a running call are safe, and CallProcess returns the plugin's answer to
\* its own input or an error, whatever calls came before and whenever the module closes.
THEOREM CallInvariant == Spec => []CallInv
<1>1. Init => CallInv
  BY InitialCall
<1>2. CallInv /\ [Next]_callVars => CallInv'
  BY StepKeepsCallInv
<1> QED
  BY <1>1, <1>2, PTL DEF Spec

\* Every variable keeps its type, and a call has exactly the pointers its point in the
\* code says it has: none is used before malloc gave it or after the call let it go.
THEOREM CallTypeCorrect == Spec => []TypeOK
<1>1. CallInv => TypeOK
  BY DEF CallInv
<1> QED
  BY <1>1, CallInvariant, PTL

\* The part of it that the caller sees.
THEOREM CallReturnsTheAnswer == Spec => []OutputIsTheAnswer
<1>1. CallInv => OutputIsTheAnswer
  BY DEF CallInv
<1> QED
  BY <1>1, CallInvariant, PTL

\* The part of it that keeps the call's blocks apart and their contents in place.
THEOREM BlocksStaySafe == Spec => [](TypeOK /\ BlocksAreSafe)
<1>1. CallInv => TypeOK /\ BlocksAreSafe
  BY DEF CallInv
<1> QED
  BY <1>1, CallInvariant, PTL

-----------------------------------------------------------------------------
(* What is never freed.                                                    *)

Lost == allocated \ Held

\* Blocks added to a finite set: none, one or two more.
LEMMA AddBlocks ==
  ASSUME NEW S, IsFiniteSet(S), NEW x, NEW y
  PROVE  /\ Cardinality(S) \in Nat
         /\ x \notin S => Cardinality(S \cup {x}) = Cardinality(S) + 1
         /\ Cardinality(S) <= Cardinality(S \cup {x})
         /\ Cardinality(S \cup {x}) <= Cardinality(S) + 1
         /\ Cardinality(S) <= Cardinality(S \cup {x} \cup {y})
         /\ Cardinality(S \cup {x} \cup {y}) <= Cardinality(S) + 2
<1>1. Cardinality(S) \in Nat
  BY FS_CardinalityType
<1>2. /\ IsFiniteSet(S \cup {x})
      /\ Cardinality(S \cup {x}) = IF x \in S THEN Cardinality(S) ELSE Cardinality(S) + 1
  BY FS_AddElement
<1>3. Cardinality(S \cup {x} \cup {y}) =
        IF y \in S \cup {x} THEN Cardinality(S \cup {x}) ELSE Cardinality(S \cup {x}) + 1
  BY <1>2, FS_AddElement
<1> QED
  BY <1>1, <1>2, <1>3

\* The lost blocks are finitely many, so that they can be counted.
LEMMA LostIsFinite ==
  ASSUME TypeOK
  PROVE  IsFiniteSet(Lost) /\ Cardinality(Lost) \in Nat
BY CallAssumption, FS_Subset, FS_CardinalityType DEF TypeOK, Lost

\* A call that fails gives up the blocks it holds.
LEMMA FailLosesTwo ==
  ASSUME CallInv, CallInv', LostBlocks, Fail, allocated' = allocated
  PROVE  LostBlocks'
<1>1. Lost' = Lost \cup Held
  BY DEF CallInv, BlocksAreSafe, Lost, Held, Fail
<1>2. \/ Held = {}
      \/ \E x, y : Held = {x} \cup {y}
  BY DEF Held
<1>3. Cardinality(Lost) <= Cardinality(Lost') /\ Cardinality(Lost') <= Cardinality(Lost) + 2
  <2>1. CASE Held = {}
    BY <1>1, <2>1, LostIsFinite DEF CallInv
  <2>2. CASE \E x, y : Held = {x} \cup {y}
    <3> PICK x, y : Held = {x} \cup {y}
      BY <2>2
    <3>1. Lost' = Lost \cup {x} \cup {y}
      BY <1>1
    <3> QED
      BY <3>1, LostIsFinite, AddBlocks DEF CallInv
  <2> QED
    BY <1>2, <2>1, <2>2
<1>4. Cardinality(Lost) \in Nat /\ Cardinality(Lost') \in Nat
  <2> USE DEF CallInv
  <2>1. Cardinality(Lost) \in Nat
    BY LostIsFinite
  <2>2. IsFiniteSet(Lost')
    BY CallAssumption, FS_Subset DEF TypeOK, Lost
  <2> QED
    BY <2>1, <2>2, FS_CardinalityType
<1> QED
  BY <1>3, <1>4 DEF LostBlocks, Lost, Fail, CallInv, TypeOK

\* A step that ends no call loses no block.
LEMMA SameLost ==
  ASSUME LostBlocks, Lost' = Lost, UNCHANGED <<failures, inits>>
  PROVE  LostBlocks'
BY DEF LostBlocks, Lost

\* Every step keeps the bounds on the lost blocks.
LEMMA StepKeepsLost ==
  ASSUME CallInv, CallInv', LostBlocks, [Next]_callVars
  PROVE  LostBlocks'
<1> USE DEF CallInv, TypeOK, BlocksAreSafe, Held, Lost, Goto
<1>1. CASE Begin
  BY <1>1, SameLost DEF Begin
<1>2. CASE writeToMemory
  <2>1. Lost' = Lost /\ UNCHANGED <<failures, inits>>
    BY <1>2, CallAssumption DEF writeToMemory
  <2> QED
    BY <2>1, SameLost
<1>3. CASE plugin_init /\ ~ Fail
  <2>1. /\ pc = "init" /\ in' = NoBlock /\ in \in Blocks /\ out = NoBlock
        /\ UNCHANGED <<allocated, out, failures>>
        /\ inits' = inits + 1
    BY <1>3 DEF plugin_init
  <2>2. Lost' = Lost \cup {in} /\ in \notin Lost
    BY <2>1, CallAssumption
  <2>3. Cardinality(Lost) \in Nat /\ Cardinality(Lost') = Cardinality(Lost) + 1
    BY <2>2, LostIsFinite, AddBlocks
  <2> QED
    BY <2>1, <2>3 DEF LostBlocks
<1>4. CASE malloc_out
  <2>1. Lost' = Lost /\ UNCHANGED <<failures, inits>>
    BY <1>4, CallAssumption DEF malloc_out
  <2> QED
    BY <2>1, SameLost
<1>5. CASE plugin_process /\ ~ Fail
  <2>1. Lost' = Lost /\ UNCHANGED <<failures, inits>>
    BY <1>5 DEF plugin_process
  <2> QED
    BY <2>1, SameLost
<1>6. CASE free_in
  <2>1. Lost' = Lost /\ UNCHANGED <<failures, inits>>
    BY <1>6, CallAssumption DEF free_in
  <2> QED
    BY <2>1, SameLost
<1>7. CASE free_out
  <2>1. Lost' = Lost /\ UNCHANGED <<failures, inits>>
    BY <1>7, CallAssumption DEF free_out
  <2> QED
    BY <2>1, SameLost
<1>8. CASE copy
  <2>1. Lost' = Lost /\ UNCHANGED <<failures, inits>>
    BY <1>8 DEF copy
  <2> QED
    BY <2>1, SameLost
<1>9. CASE Fail /\ allocated' = allocated
  BY <1>9, FailLosesTwo
<1>10. CASE CloseModule
  BY <1>10, SameLost DEF CloseModule
<1>11. CASE UNCHANGED callVars
  BY <1>11, SameLost DEF callVars
<1>12. Trap("write") \/ plugin_init \/ plugin_process => allocated' = allocated
  BY DEF Trap, plugin_init, plugin_process
<1>13. ASSUME NEW l, Trap(l) PROVE Fail /\ allocated' = allocated
  BY <1>13 DEF Trap
<1> QED
  BY <1>1, <1>2, <1>3, <1>4, <1>5, <1>6, <1>7, <1>8, <1>9, <1>10, <1>11, <1>12, <1>13 DEF Next

\* The guest's memory that is never freed: one block for each CallInit that succeeded,
\* at most two for each call that failed, and none for a CallProcess that succeeded.
THEOREM LossesAreBounded == Spec => []LostBlocks
<1>1. Init => LostBlocks
  BY FS_EmptySet DEF Init, LostBlocks, Held
<1>2. CallInv /\ CallInv' /\ LostBlocks /\ [Next]_callVars => LostBlocks'
  BY StepKeepsLost
<1> QED
  BY <1>1, <1>2, CallInvariant, PTL DEF Spec
=============================================================================
