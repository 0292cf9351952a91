------------------------ MODULE PluginManager_proofs ------------------------
(***************************************************************************)
(* Theorems about PluginManager, for any callers, names and modules: the   *)
(* inductive invariant ManagerInv (who holds the lock, the life of each    *)
(* module, what every caller has in its hands, what a Close still has to   *)
(* do), preserved part by part, and every safety property that follows.    *)
(***************************************************************************)
EXTENDS PluginManager, TLAPS

USE DEF lockVars, runtimeVars, historyVars

-----------------------------------------------------------------------------
(* The two steps of Close that change several fields of an operation.        *)

\* Close has the names and the modules of the registry in its hands.
LEMMA CloseNamesFacts ==
  ASSUME TypeOK, ManagerInv, NEW c \in Callers, CloseNames(c)
  PROVE  /\ call[c].pc = "close.names"
         /\ call' \in [Callers -> Operations]
         /\ \A d \in Callers \ {c} : call'[d] = call[d]
         /\ call'[c].pc = "close.next"
         /\ call'[c].op = "Close"
         /\ call'[c].err = call[c].err
         /\ call'[c].todo = {n \in Names : plugins[n] # None}
         /\ call'[c].found = {plugins[n] : n \in Names} \ {None}
         /\ readers' = readers \ {c}
         /\ UNCHANGED <<plugins, writer, runtimeVars, ops, historyVars>>
<1> DEFINE t == {n \in Names : plugins[n] # None}
           f == {plugins[n] : n \in Names} \ {None}
<1>1. call' = [call EXCEPT ![c].todo = t, ![c].found = f, ![c].pc = "close.next"]
  BY DEF CloseNames
<1>2. t \in SUBSET Names /\ f \in SUBSET Modules
  BY DEF TypeOK
<1>3. call \in [Callers -> Operations] /\ call[c].op = "Close" /\ call[c].pc = "close.names"
  BY DEF TypeOK, ManagerInv, HandsInv, CloseNames, At
<1>4. /\ readers' = readers \ {c}
      /\ UNCHANGED <<plugins, writer, runtimeVars, ops, historyVars>>
  BY DEF CloseNames, RUnlock
<1> HIDE DEF t, f
<1>5. /\ call' \in [Callers -> Operations]
      /\ \A d \in Callers \ {c} : call'[d] = call[d]
      /\ call'[c].pc = "close.next" /\ call'[c].op = "Close"
      /\ call'[c].err = call[c].err /\ call'[c].todo = t /\ call'[c].found = f
  BY <1>1, <1>2, <1>3 DEF Operations
<1> QED
  BY <1>3, <1>4, <1>5 DEF t, f

\* Close takes a name off its list and waits for the lock, or comes to the runtime.
LEMMA CloseNextFacts ==
  ASSUME TypeOK, ManagerInv, NEW c \in Callers, CloseNext(c)
  PROVE  /\ call[c].pc = "close.next"
         /\ call' \in [Callers -> Operations]
         /\ \A d \in Callers \ {c} : call'[d] = call[d]
         /\ call'[c].op = "Close"
         /\ call'[c].err = call[c].err /\ call'[c].found = call[c].found
         /\ \/ /\ call'[c].pc = "close.runtime"
               /\ call[c].todo = {} /\ call'[c].todo = {}
            \/ \E n \in call[c].todo :
                 /\ call'[c].pc = "lock" /\ call'[c].name = n
                 /\ call'[c].todo = call[c].todo \ {n}
         /\ UNCHANGED <<plugins, lockVars, runtimeVars, ops, historyVars>>
<1>1. call \in [Callers -> Operations] /\ call[c].op = "Close" /\ call[c].pc = "close.next"
  BY DEF TypeOK, ManagerInv, HandsInv, CloseNext, At
<1>2. UNCHANGED <<plugins, lockVars, runtimeVars, ops, historyVars>>
  BY DEF CloseNext
<1>3. CASE call[c].todo = {} /\ Goto(c, "close.runtime")
  BY <1>1, <1>2, <1>3 DEF Goto, Operations
<1>4. ASSUME NEW n \in call[c].todo,
             call' = [call EXCEPT ![c].todo = @ \ {n}, ![c].name = n, ![c].pc = "lock"]
      PROVE  /\ call' \in [Callers -> Operations]
             /\ \A d \in Callers \ {c} : call'[d] = call[d]
             /\ call'[c].op = "Close"
             /\ call'[c].err = call[c].err /\ call'[c].found = call[c].found
             /\ call'[c].pc = "lock" /\ call'[c].name = n
             /\ call'[c].todo = call[c].todo \ {n}
  <2> DEFINE t == call[c].todo \ {n}
  <2>1. call' = [call EXCEPT ![c].todo = t, ![c].name = n, ![c].pc = "lock"]
    BY <1>4
  <2>2. t \in SUBSET Names /\ n \in Names
    BY <1>1 DEF Operations
  <2> HIDE DEF t
  <2>3. /\ call' \in [Callers -> Operations]
        /\ \A d \in Callers \ {c} : call'[d] = call[d]
        /\ call'[c].op = "Close"
        /\ call'[c].err = call[c].err /\ call'[c].found = call[c].found
        /\ call'[c].pc = "lock" /\ call'[c].name = n /\ call'[c].todo = t
    BY <1>1, <2>1, <2>2 DEF Operations
  <2> QED  BY <2>3 DEF t
<1> QED
  BY <1>1, <1>2, <1>3, <1>4 DEF CloseNext

-----------------------------------------------------------------------------
(* Types, the lock and the hands of the callers.                            *)

\* Every step of a caller keeps the types.
LEMMA TypesKept ==
  ASSUME TypeOK, ManagerInv, NEW c \in Callers, Invoke(c) \/ Acquire(c) \/ Continue(c)
  PROVE  TypeOK'
<1> USE ManagerAssumption DEF TypeOK, ManagerInv, HandsInv, Operations, At, Goto, Return
<1>1. CASE Invoke(c)
  <2>1. \A o \in {"LoadPlugin", "UnloadPlugin", "CallPlugin", "Close"},
           p \in {"lock", "rlock"}, n \in Names \cup {None} :
          Operation(o, p, n) \in Operations
    BY DEF Operation
  <2>2. PICK x \in Operations : call' = [call EXCEPT ![c] = x]
    <3> HIDE DEF Operations
    <3> QED  BY <1>1, <2>1 DEF Invoke
  <2>3. call' \in [Callers -> Operations]
    <3> HIDE DEF Operations
    <3> QED  BY <2>2
  <2> QED  BY <1>1, <2>3 DEF Invoke
<1>2. CASE CloseNames(c)
  <2> HIDE DEF Operations
  <2> QED  BY <1>2, CloseNamesFacts
<1>3. CASE CloseNext(c)
  <2> HIDE DEF Operations
  <2> QED  BY <1>3, CloseNextFacts
<1>4. CASE Lock(c)
  BY <1>4, SMTT(30) DEF Lock, Unlock, RUnlock
<1>5. CASE RLock(c)
  BY <1>5, SMTT(30) DEF RLock, Unlock, RUnlock
<1>6. CASE LoadPlugin(c)
  BY <1>6, SMTT(30) DEF LoadPlugin, Unlock, RUnlock
<1>7. CASE InstantiateWithConfig(c)
  BY <1>7, SMTT(30) DEF InstantiateWithConfig, Unlock, RUnlock
<1>8. CASE ExportedFunctions(c)
  BY <1>8, SMTT(30) DEF ExportedFunctions, Unlock, RUnlock
<1>9. CASE UnloadPlugin(c)
  BY <1>9, SMTT(30) DEF UnloadPlugin, Unlock, RUnlock
<1>10. CASE CallCleanup(c)
  BY <1>10, SMTT(30) DEF CallCleanup, Unlock, RUnlock
<1>11. CASE CloseModule(c)
  BY <1>11, SMTT(30) DEF CloseModule, Unlock, RUnlock
<1>12. CASE GetPlugin(c)
  BY <1>12, SMTT(30) DEF GetPlugin, Unlock, RUnlock
<1>13. CASE CallProcess(c)
  BY <1>13, SMTT(30) DEF CallProcess, Unlock, RUnlock
<1>14. CASE CloseRuntime(c)
  BY <1>14, SMTT(30) DEF CloseRuntime, Unlock, RUnlock
<1> QED
  BY <1>1, <1>2, <1>3, <1>4, <1>5, <1>6, <1>7, <1>8, <1>9, <1>10, <1>11, <1>12, <1>13,
     <1>14 DEF Acquire, Continue

\* The labels that need the write lock are those of its holder.
LEMMA OneWriter ==
  ASSUME TypeOK, ManagerInv, NEW c \in Callers, NEW d \in Callers,
         call[c].pc \in WriterLabels, call[d].pc \in WriterLabels
  PROVE  c = d
BY DEF ManagerInv, LockInv

\* Every step keeps the labels and the holders of the lock in agreement.
LEMMA LockKept ==
  ASSUME TypeOK, ManagerInv, NEW c \in Callers, Invoke(c) \/ Acquire(c) \/ Continue(c)
  PROVE  LockInv'
<1> USE ManagerAssumption DEF TypeOK, ManagerInv, LockInv, HandsInv, Operations, At, Goto,
   Return, WriterLabels
<1>1. CASE CloseNames(c)
  BY <1>1, CloseNamesFacts
<1>2. CASE CloseNext(c)
  BY <1>2, CloseNextFacts
<1>3. CASE Invoke(c)
  BY <1>3, SMTT(30) DEF Invoke, Unlock, RUnlock, Operation
<1>4. CASE Lock(c)
  BY <1>4, SMTT(30) DEF Lock, Unlock, RUnlock
<1>5. CASE RLock(c)
  BY <1>5, SMTT(30) DEF RLock, Unlock, RUnlock
<1>6. CASE LoadPlugin(c)
  BY <1>6, SMTT(30) DEF LoadPlugin, Unlock, RUnlock
<1>7. CASE InstantiateWithConfig(c)
  BY <1>7, SMTT(30) DEF InstantiateWithConfig, Unlock, RUnlock
<1>8. CASE ExportedFunctions(c)
  BY <1>8, SMTT(30) DEF ExportedFunctions, Unlock, RUnlock
<1>9. CASE UnloadPlugin(c)
  BY <1>9, SMTT(30) DEF UnloadPlugin, Unlock, RUnlock
<1>10. CASE CallCleanup(c)
  BY <1>10, SMTT(30) DEF CallCleanup, Unlock, RUnlock
<1>11. CASE CloseModule(c)
  BY <1>11, SMTT(30) DEF CloseModule, Unlock, RUnlock
<1>12. CASE GetPlugin(c)
  BY <1>12, SMTT(30) DEF GetPlugin, Unlock, RUnlock
<1>13. CASE CallProcess(c)
  BY <1>13, SMTT(30) DEF CallProcess, Unlock, RUnlock
<1>14. CASE CloseRuntime(c)
  BY <1>14, SMTT(30) DEF CloseRuntime, Unlock, RUnlock
<1> QED
  BY <1>1, <1>2, <1>3, <1>4, <1>5, <1>6, <1>7, <1>8, <1>9, <1>10, <1>11, <1>12, <1>13,
     <1>14 DEF Acquire, Continue

\* Every step keeps the labels to the methods they belong to.
LEMMA MethodsKept ==
  ASSUME TypeOK, ManagerInv, NEW c \in Callers, Invoke(c) \/ Acquire(c) \/ Continue(c)
  PROVE  MethodInv'
<1>1. call \in [Callers -> Operations] /\ MethodInv
  BY DEF TypeOK, ManagerInv
<1>2. CASE Invoke(c)
  BY <1>1, <1>2 DEF Invoke, Operation, MethodInv, At
<1>3. CASE CloseNames(c)
  BY <1>1, <1>3, CloseNamesFacts DEF MethodInv, At
<1>4. CASE CloseNext(c)
  BY <1>1, <1>4, CloseNextFacts DEF MethodInv, At
<1>5. CASE \/ Acquire(c) \/ LoadPlugin(c) \/ InstantiateWithConfig(c)
           \/ ExportedFunctions(c) \/ UnloadPlugin(c) \/ CallCleanup(c)
           \/ CloseModule(c) \/ GetPlugin(c) \/ CallProcess(c) \/ CloseRuntime(c)
  <2>1. \A d \in Callers \ {c} : call'[d] = call[d]
    BY <1>1, <1>5, SMTT(30)
    DEF Acquire, Lock, RLock, LoadPlugin, InstantiateWithConfig, ExportedFunctions,
        UnloadPlugin, CallCleanup, CloseModule, GetPlugin, CallProcess, CloseRuntime,
        Goto, Return
  <2> DEFINE Moved ==
        /\ call'[c].op = call[c].op
        /\ \/ call'[c].pc \in {"idle", "close.next", "close.names", "get", "call"}
           \/ call[c].pc = "lock" /\ call'[c].pc = "load" /\ call[c].op = "LoadPlugin"
           \/ call[c].pc = "lock" /\ call'[c].pc = "unload" /\ call[c].op # "LoadPlugin"
           \/ /\ call[c].pc \in {"load", "load.instantiate"}
              /\ call'[c].pc \in {"load.instantiate", "load.exports"}
           \/ /\ call[c].pc \in {"unload", "unload.cleanup"}
              /\ call'[c].pc \in {"unload.cleanup", "unload.close"}
  <2> SUFFICES Moved
    BY <1>1, <2>1 DEF MethodInv, At
  <2>2. CASE Acquire(c)
    BY <1>1, <2>2 DEF Acquire, Lock, RLock, Goto, At, Operations
  <2>3. CASE LoadPlugin(c) \/ ExportedFunctions(c)
    BY <1>1, <2>3 DEF LoadPlugin, ExportedFunctions, Goto, Return, At, Operations
  <2>4. CASE InstantiateWithConfig(c)
    BY <1>1, <2>4 DEF InstantiateWithConfig, Return, At, Operations
  <2>5. CASE UnloadPlugin(c) \/ CallCleanup(c) \/ CloseModule(c)
    BY <1>1, <2>5 DEF UnloadPlugin, CallCleanup, CloseModule, Goto, Return, At, Operations
  <2>6. CASE GetPlugin(c) \/ CallProcess(c) \/ CloseRuntime(c)
    BY <1>1, <2>6 DEF GetPlugin, CallProcess, CloseRuntime, Return, At, Operations
  <2> QED  BY <1>5, <2>2, <2>3, <2>4, <2>5, <2>6
<1> QED  BY <1>2, <1>3, <1>4, <1>5 DEF Acquire, Continue

\* Every step keeps what the callers have in their hands.
LEMMA HandsKept ==
  ASSUME TypeOK, ManagerInv, NEW c \in Callers, Invoke(c) \/ Acquire(c) \/ Continue(c)
  PROVE  HandsInv'
<1> USE ManagerAssumption DEF TypeOK, ManagerInv, LockInv, HandsInv, Operations, At, Goto,
   Return, WriterLabels
<1>1. CASE CloseNames(c)
  BY <1>1, CloseNamesFacts
<1>2. CASE CloseNext(c)
  <2>1. call[c].todo \subseteq Names
    OBVIOUS
  <2>2. /\ \A d \in Callers \ {c} : call'[d] = call[d]
        /\ call'[c].op = "Close" /\ call'[c].pc \in {"close.runtime", "lock"}
        /\ call'[c].pc = "lock" => call'[c].name \in Names
        /\ UNCHANGED <<plugins, open, hasCleanup, made, cleanups>>
    BY <1>2, <2>1, CloseNextFacts
  <2> QED  BY <2>2
<1>3. CASE CallCleanup(c)
  <2> DEFINE m == call[c].mod
  <2>1. m \in Modules /\ m = plugins[call[c].name] /\ call[c].name \in Names
    BY <1>3 DEF CallCleanup
  <2>2. m \in open => cleanups[m] = 0
    BY <1>3, <2>1, OneWriter DEF CallCleanup, ModuleInv
  <2>3. m \in hasCleanup /\ call'[c].pc = "unload.close" => cleanups'[m] = 1
    BY <1>3, <2>1, <2>2 DEF CallCleanup
  <2>4. \A d \in Callers \ {c} : call'[d] = call[d] /\ call[d].pc \notin WriterLabels
    BY <1>3, OneWriter DEF CallCleanup
  <2>5. /\ call'[c].pc \in {"idle", "close.next", "unload.close"}
        /\ call'[c].pc = "close.next" => call'[c].op = "Close"
        /\ call'[c].pc = "unload.close" => call'[c] = [call[c] EXCEPT !.pc = "unload.close"]
        /\ UNCHANGED <<plugins, hasCleanup, made, open>>
    BY <1>3 DEF CallCleanup
  <2> QED  BY <2>1, <2>3, <2>4, <2>5
<1>4. CASE Invoke(c)
  BY <1>4, SMTT(30) DEF Invoke, Unlock, RUnlock, Operation
<1>5. CASE Lock(c)
  BY <1>5, SMTT(30) DEF Lock, Unlock, RUnlock
<1>6. CASE RLock(c)
  BY <1>6, SMTT(30) DEF RLock, Unlock, RUnlock
<1>7. CASE LoadPlugin(c)
  BY <1>7, SMTT(30) DEF LoadPlugin, Unlock, RUnlock
<1>8. CASE InstantiateWithConfig(c)
  BY <1>8, SMTT(30) DEF InstantiateWithConfig, Unlock, RUnlock
<1>9. CASE ExportedFunctions(c)
  BY <1>9, SMTT(30) DEF ExportedFunctions, Unlock, RUnlock
<1>10. CASE UnloadPlugin(c)
  BY <1>10, SMTT(30) DEF UnloadPlugin, Unlock, RUnlock
<1>11. CASE CloseModule(c)
  BY <1>11, SMTT(30) DEF CloseModule, Unlock, RUnlock
<1>12. CASE GetPlugin(c)
  BY <1>12, SMTT(30) DEF GetPlugin, Unlock, RUnlock
<1>13. CASE CallProcess(c)
  BY <1>13, SMTT(30) DEF CallProcess, Unlock, RUnlock
<1>14. CASE CloseRuntime(c)
  BY <1>14, SMTT(30) DEF CloseRuntime, Unlock, RUnlock
<1> QED
  BY <1>1, <1>2, <1>3, <1>4, <1>5, <1>6, <1>7, <1>8, <1>9, <1>10, <1>11, <1>12, <1>13,
     <1>14 DEF Acquire, Continue

-----------------------------------------------------------------------------
(* The life of a module.                                                    *)

\* A caller that holds the lock is the only one that loads or unloads.
LEMMA OnlyWriter ==
  ASSUME TypeOK, ManagerInv, NEW c \in Callers, call[c].pc \in WriterLabels
  PROVE  \A d \in Callers \ {c} : call[d].pc \notin WriterLabels
BY OneWriter

\* What keeps the registry, the runtime and the loads and unloads that are under way
\* keeps the modules.
LEMMA ModulesKeptByOthers ==
  ASSUME ModuleInv, UNCHANGED <<plugins, runtimeVars, historyVars>>,
         \A d \in Callers :
           \/ call'[d] = call[d]
           \/ {call[d].pc, call'[d].pc} \cap {"load.exports", "unload.close"} = {}
  PROVE  ModuleInv'
<1>1. \A m \in Modules : /\ Registered(m)' <=> Registered(m)
                         /\ Loading(m)' <=> Loading(m)
                         /\ Gone(m)' <=> Gone(m)
  BY DEF Registered, Loading, Gone, At
<1>2. \A m \in Modules : (\E d \in Callers : At(d, "unload.close") /\ call[d].mod = m)
        => (\E d \in Callers : At(d, "unload.close") /\ call[d].mod = m)'
  BY DEF At
<1> QED
  BY <1>1, <1>2 DEF ModuleInv

\* A module is made while nothing else is loaded or unloaded.
LEMMA InstantiateKeepsModules ==
  ASSUME TypeOK, ManagerInv, NEW c \in Callers, InstantiateWithConfig(c)
  PROVE  ModuleInv'
<1>1. call[c].pc = "load.instantiate" /\ call \in [Callers -> Operations]
  BY DEF InstantiateWithConfig, At, TypeOK
<1>2. \A d \in Callers : call[d].pc \notin {"load.exports", "unload.close"}
  BY <1>1, OnlyWriter DEF WriterLabels
<1>3. CASE Return(c, TRUE) /\ UNCHANGED <<open, hasCleanup, made>>
  <2>1. \A d \in Callers : call'[d].pc \notin {"load.exports", "unload.close"}
    BY <1>1, <1>2, <1>3 DEF Return, Operations
  <2>2. UNCHANGED <<plugins, runtimeVars, historyVars>>
    BY <1>3 DEF InstantiateWithConfig
  <2> QED  BY <1>2, <2>1, <2>2, ModulesKeptByOthers DEF ManagerInv
<1>4. CASE ~ (Return(c, TRUE) /\ UNCHANGED <<open, hasCleanup, made>>)
  <2> DEFINE f == Fresh
  <2>1. f \in Modules /\ f \notin made
    BY <1>4 DEF InstantiateWithConfig, Fresh, TypeOK
  <2>2. /\ ~ closed
        /\ open' = open \cup {f}
        /\ made' = made \cup {f}
        /\ hasCleanup' \subseteq hasCleanup \cup {f} /\ hasCleanup \subseteq hasCleanup'
        /\ call' = [call EXCEPT ![c].mod = f, ![c].pc = "load.exports"]
        /\ UNCHANGED <<plugins, closed, refused, unclosed, cleanups>>
    BY <1>4 DEF InstantiateWithConfig
  <2> HIDE DEF f
  <2>3. call'[c].pc = "load.exports" /\ call'[c].mod = f /\ \A d \in Callers \ {c} : call'[d] = call[d]
    BY <1>1, <2>1, <2>2 DEF Operations
  <2>4. \A m \in Modules : ~ Loading(m) /\ (Loading(m)' <=> m = f)
    BY <1>2, <2>3 DEF Loading, At
  <2>5. \A m \in Modules : Registered(m)' <=> Registered(m)
    BY <2>2 DEF Registered
  <2>6. \A m \in Modules \ {f} : Gone(m)' <=> Gone(m)
    BY <2>2 DEF Gone
  <2>7. \A m \in Modules : m \in open => cleanups[m] = 0
    BY <1>2 DEF ManagerInv, ModuleInv, At, TypeOK
  <2> QED
    BY <2>1, <2>2, <2>4, <2>5, <2>6, <2>7 DEF ManagerInv, ModuleInv
<1> QED  BY <1>3, <1>4

\* The module at hand is refused or registered, and no longer loading.
LEMMA ExportedKeepsModules ==
  ASSUME TypeOK, ManagerInv, NEW c \in Callers, ExportedFunctions(c)
  PROVE  ModuleInv'
<1> DEFINE k == call[c].mod
           n == call[c].name
<1>1. call[c].pc = "load.exports" /\ call \in [Callers -> Operations]
  BY DEF ExportedFunctions, At, TypeOK
<1>2. /\ \A d \in Callers : call[d].pc # "unload.close"
      /\ \A d \in Callers \ {c} : call[d].pc # "load.exports"
  BY <1>1, OnlyWriter DEF WriterLabels
<1>3. n \in Names /\ plugins[n] = None /\ k \in Modules /\ k # None
  BY <1>1, ManagerAssumption DEF ManagerInv, HandsInv, At, Operations, WriterLabels
<1>4. /\ call'[c].pc \in {"idle", "close.next"}
      /\ \A d \in Callers \ {c} : call'[d] = call[d]
      /\ UNCHANGED <<runtimeVars, made, unclosed, cleanups>>
  BY <1>1 DEF ExportedFunctions, Return, Operations
<1>5. \/ refused' = refused \cup {k} /\ plugins' = plugins
      \/ refused' = refused /\ plugins' = [plugins EXCEPT ![n] = k]
  BY DEF ExportedFunctions
<1>6. \A m \in Modules : (Loading(m) <=> m = k) /\ ~ Loading(m)'
  BY <1>1, <1>2, <1>4 DEF Loading, At
<1>7. \A m \in Modules : Gone(m)' <=> Gone(m)
  BY <1>4 DEF Gone
<1>8. \A m \in Modules : m \in open => cleanups[m] = 0
  BY <1>2 DEF ManagerInv, ModuleInv, At, TypeOK
<1>9. k \in made /\ k \notin refused /\ ~ Registered(k) /\ (~ closed => k \in open)
  BY <1>3, <1>6 DEF ManagerInv, ModuleInv
<1> HIDE DEF k, n
<1>10. CASE refused' = refused \cup {k} /\ plugins' = plugins
  <2>1. \A m \in Modules : Registered(m)' <=> Registered(m)
    BY <1>10 DEF Registered
  <2> QED
    BY <1>3, <1>4, <1>6, <1>7, <1>8, <1>9, <1>10, <2>1 DEF ManagerInv, ModuleInv
<1>11. CASE refused' = refused /\ plugins' = [plugins EXCEPT ![n] = k]
  <2>1. plugins'[n] = k /\ \A x \in Names \ {n} : plugins'[x] = plugins[x]
    BY <1>3, <1>11 DEF TypeOK
  <2>2. \A m \in Modules : Registered(m)' <=> Registered(m) \/ m = k
    BY <1>3, <2>1, ManagerAssumption DEF Registered
  <2>3. \A x, y \in Names : plugins'[x] = plugins'[y] /\ plugins'[x] # None => x = y
    BY <1>3, <1>9, <2>1 DEF ManagerInv, ModuleInv, Registered
  <2> QED
    BY <1>3, <1>4, <1>6, <1>7, <1>8, <1>9, <1>11, <2>2, <2>3 DEF ManagerInv, ModuleInv
<1> QED  BY <1>5, <1>10, <1>11

\* plugin_cleanup succeeds on a module that is open and was not cleaned up before.
LEMMA CleanupKeepsModules ==
  ASSUME TypeOK, ManagerInv, NEW c \in Callers, CallCleanup(c)
  PROVE  ModuleInv'
<1> DEFINE k == call[c].mod
<1>1. call[c].pc = "unload.cleanup" /\ call \in [Callers -> Operations]
  BY DEF CallCleanup, At, TypeOK
<1>2. \A d \in Callers : call[d].pc \notin {"load.exports", "unload.close"}
  BY <1>1, OnlyWriter DEF WriterLabels
<1>3. \A d \in Callers \ {c} : call'[d] = call[d]
  BY <1>1 DEF CallCleanup, Return, Goto
<1>4. call'[c].pc \in {"idle", "close.next",
   "unload.close"} /\ (call'[c].pc = "unload.close" => call'[c].mod = k)
  BY <1>1 DEF CallCleanup, Return, Goto, Operations
<1>5. \A m \in Modules : ~ Loading(m) /\ ~ Loading(m)'
  BY <1>2, <1>3, <1>4 DEF Loading, At
<1>6. \A m \in Modules : m \in open => cleanups[m] = 0
  BY <1>2 DEF ManagerInv, ModuleInv, At, TypeOK
<1>7. k \in Modules /\ Registered(k)
  BY <1>1, ManagerAssumption DEF ManagerInv, HandsInv, At, Operations, WriterLabels, Registered
<1>8. UNCHANGED <<plugins, runtimeVars, made, refused, unclosed>>
  BY DEF CallCleanup
<1>9. \A m \in Modules : Registered(m)' <=> Registered(m)
  BY <1>8 DEF Registered
<1>10. \/ UNCHANGED cleanups
       \/ /\ k \in open /\ cleanups' = [cleanups EXCEPT ![k] = @ + 1]
          /\ call'[c].pc = "unload.close"
  BY <1>1 DEF CallCleanup, Goto, Operations
<1> HIDE DEF k
<1>11. CASE UNCHANGED cleanups
  <2>1. \A m \in Modules : Gone(m)' <=> Gone(m)
    BY <1>8, <1>11 DEF Gone
  <2> QED
    BY <1>5, <1>6, <1>8, <1>9, <1>11, <2>1 DEF ManagerInv, ModuleInv
<1>12. CASE k \in open /\ cleanups' = [cleanups EXCEPT ![k] = @ + 1] /\ call'[c].pc = "unload.close"
  <2>1. cleanups'[k] = 1 /\ \A m \in Modules \ {k} : cleanups'[m] = cleanups[m]
    BY <1>6, <1>7, <1>12 DEF TypeOK
  <2>2. \A m \in Modules \ {k} : Gone(m)' <=> Gone(m)
    BY <1>8, <2>1 DEF Gone
  <2>3. \E d \in Callers : At(d, "unload.close")' /\ call'[d].mod = k
    BY <1>4, <1>12 DEF At
  <2>4. k \in made
    BY <1>7 DEF ManagerInv, ModuleInv
  <2> QED
    BY <1>5, <1>6, <1>7, <1>8, <1>9, <2>1, <2>2, <2>3, <2>4 DEF ManagerInv, ModuleInv
<1> QED  BY <1>10, <1>11, <1>12

\* The module at hand is closed, and its entry goes or it is one of the unclosed.
LEMMA CloseModuleKeepsModules ==
  ASSUME TypeOK, ManagerInv, NEW c \in Callers, CloseModule(c)
  PROVE  ModuleInv'
<1>1. call[c].pc = "unload.close" /\ call \in [Callers -> Operations]
  BY DEF CloseModule, At, TypeOK
<1>6. PICK n \in Names, k \in Modules :
        /\ call[c].mod = k /\ call[c].name = n
        /\ plugins[n] = k /\ k # None
        /\ k \in hasCleanup => cleanups[k] = 1
  BY <1>1, ManagerAssumption DEF ManagerInv, HandsInv, At, Operations, WriterLabels
<1>2. /\ \A d \in Callers : call[d].pc # "load.exports"
      /\ \A d \in Callers \ {c} : call[d].pc # "unload.close"
  BY <1>1, OnlyWriter DEF WriterLabels
<1>3. /\ call'[c].pc \in {"idle", "close.next"}
      /\ \A d \in Callers \ {c} : call'[d] = call[d]
  BY <1>1 DEF CloseModule, Return, Operations
<1>4. \A m \in Modules : ~ Loading(m) /\ ~ Loading(m)'
  BY <1>2, <1>3 DEF Loading, At
<1>5. \A m \in Modules \ {k} : m \in open => cleanups[m] = 0
  BY <1>1, <1>2, <1>6 DEF ManagerInv, ModuleInv, At, TypeOK
<1>7. /\ open' = open \ {k}
      /\ UNCHANGED <<closed, hasCleanup, made, refused, cleanups>>
  BY <1>6 DEF CloseModule
<1>8. \/ plugins' = [plugins EXCEPT ![n] = None] /\ UNCHANGED unclosed
      \/ plugins' = plugins /\ unclosed' = unclosed \cup {k}
  BY <1>6 DEF CloseModule
<1>9. Gone(k)' /\ \A m \in Modules : Gone(m) => Gone(m)'
  BY <1>6, <1>7 DEF Gone
<1>10. CASE plugins' = [plugins EXCEPT ![n] = None] /\ UNCHANGED unclosed
  <2>1. plugins'[n] = None /\ \A x \in Names \ {n} : plugins'[x] = plugins[x]
    BY <1>6, <1>10 DEF TypeOK
  <2>2. \A m \in Modules : Registered(m)' <=> Registered(m) /\ m # k
    BY <1>6, <2>1, ManagerAssumption DEF Registered, ManagerInv, ModuleInv
  <2>3. \A x, y \in Names : plugins'[x] = plugins'[y] /\ plugins'[x] # None => x = y
    BY <2>1 DEF ManagerInv, ModuleInv
  <2> QED
    BY <1>4, <1>5, <1>6, <1>7, <1>9, <1>10, <2>2, <2>3 DEF ManagerInv, ModuleInv
<1>11. CASE plugins' = plugins /\ unclosed' = unclosed \cup {k}
  <2>1. \A m \in Modules : Registered(m)' <=> Registered(m)
    BY <1>11 DEF Registered
  <2>2. Registered(k)
    BY <1>6 DEF Registered
  <2> QED
    BY <1>4, <1>5, <1>6, <1>7, <1>9, <1>11, <2>1, <2>2 DEF ManagerInv, ModuleInv
<1> QED  BY <1>8, <1>10, <1>11

\* Every step keeps the life of the modules.
LEMMA ModulesKept ==
  ASSUME TypeOK, ManagerInv, NEW c \in Callers, Invoke(c) \/ Acquire(c) \/ Continue(c)
  PROVE  ModuleInv'
<1>1. CASE InstantiateWithConfig(c) \/ ExportedFunctions(c) \/ CallCleanup(c) \/ CloseModule(c)
  BY <1>1, InstantiateKeepsModules, ExportedKeepsModules, CleanupKeepsModules,
     CloseModuleKeepsModules
<1>2. CASE CloseNames(c) \/ CloseNext(c)
  <2>1. /\ \A d \in Callers \ {c} : call'[d] = call[d]
        /\ {call[c].pc, call'[c].pc} \cap {"load.exports", "unload.close"} = {}
        /\ UNCHANGED <<plugins, runtimeVars, historyVars>>
    BY <1>2, CloseNamesFacts, CloseNextFacts
  <2> QED  BY <2>1, ModulesKeptByOthers DEF ManagerInv
<1>3. CASE \/ Invoke(c) \/ Lock(c) \/ RLock(c) \/ LoadPlugin(c) \/ UnloadPlugin(c)
           \/ GetPlugin(c) \/ CallProcess(c)
  <2>1. /\ \A d \in Callers \ {c} : call'[d] = call[d]
        /\ {call[c].pc, call'[c].pc} \cap {"load.exports", "unload.close"} = {}
        /\ UNCHANGED <<plugins, runtimeVars, historyVars>>
    BY <1>3, SMTT(30) DEF Invoke, Operation, Lock, RLock, LoadPlugin, UnloadPlugin, GetPlugin,
       CallProcess, Goto, Return, At, TypeOK, Operations
  <2> QED  BY <2>1, ModulesKeptByOthers DEF ManagerInv
<1>4. CASE CloseRuntime(c)
  <2>1. /\ \A d \in Callers \ {c} : call'[d] = call[d]
        /\ {call[c].pc, call'[c].pc} \cap {"load.exports", "unload.close"} = {}
    BY <1>4 DEF CloseRuntime, Return, At, TypeOK, Operations
  <2>2. closed' = TRUE /\ open' = {} /\ UNCHANGED <<plugins, hasCleanup, historyVars>>
    BY <1>4 DEF CloseRuntime
  <2>3. \A m \in Modules : /\ Registered(m)' <=> Registered(m)
                           /\ Loading(m)' <=> Loading(m)
                           /\ Gone(m) => Gone(m)'
    BY <2>1, <2>2 DEF Registered, Loading, Gone, At
  <2> QED  BY <2>2, <2>3 DEF ManagerInv, ModuleInv
<1> QED  BY <1>1, <1>2, <1>3, <1>4 DEF Acquire, Continue

-----------------------------------------------------------------------------
(* What a Close has found.                                                  *)

\* What was unloaded stays so, and an entry goes only with its module.
LEMMA EntryOrGone ==
  ASSUME TypeOK, ManagerInv, NEW c \in Callers, Invoke(c) \/ Acquire(c) \/ Continue(c)
  PROVE  /\ made \subseteq made'
         /\ \A m \in made : Gone(m) => Gone(m)'
         /\ \A m \in made, n \in Names : plugins[n] = m => plugins'[n] = m \/ Gone(m)'
<1>1. CASE InstantiateWithConfig(c)
  <2>1. /\ UNCHANGED <<plugins, cleanups>>
        /\ made \subseteq made' /\ open' \subseteq open \cup (made' \ made)
        /\ hasCleanup' \subseteq hasCleanup \cup (made' \ made)
    <3>1. CASE UNCHANGED <<open, hasCleanup, made>>
      BY <1>1, <3>1 DEF InstantiateWithConfig
    <3>2. CASE ~ UNCHANGED <<open, hasCleanup, made>>
      <4>1. Fresh \notin made
        BY <1>1, <3>2 DEF InstantiateWithConfig, Fresh, TypeOK
      <4> QED  BY <1>1, <3>2, <4>1 DEF InstantiateWithConfig
    <3> QED  BY <3>1, <3>2
  <2> QED  BY <2>1 DEF Gone
<1>2. CASE ExportedFunctions(c)
  <2>1. plugins[call[c].name] = None
    BY <1>2 DEF ExportedFunctions, At, ManagerInv, HandsInv
  <2>2. UNCHANGED <<made, open, hasCleanup, cleanups>>
    BY <1>2 DEF ExportedFunctions
  <2>3. \A n \in Names : plugins'[n] = plugins[n] \/ plugins[n] = None
    BY <1>2, <2>1 DEF ExportedFunctions, TypeOK
  <2>4. \A m \in made : m # None
    BY ManagerAssumption DEF TypeOK
  <2> QED  BY <2>2, <2>3, <2>4 DEF Gone
<1>3. CASE CallCleanup(c)
  <2>1. \A m \in Modules : m \notin open => cleanups'[m] = cleanups[m]
    BY <1>3 DEF CallCleanup, TypeOK
  <2>2. UNCHANGED <<plugins, made, open, hasCleanup>>
    BY <1>3 DEF CallCleanup
  <2> QED  BY <2>1, <2>2 DEF Gone, TypeOK
<1>4. CASE CloseModule(c)
  <2>1. PICK n \in Names, k \in Modules :
          /\ call[c].mod = k /\ call[c].name = n
          /\ plugins[n] = k
          /\ k \in hasCleanup => cleanups[k] = 1
    BY <1>4, ManagerAssumption
    DEF CloseModule, TypeOK, ManagerInv, HandsInv, At, Operations, WriterLabels
  <2>2. /\ open' = open \ {k}
        /\ UNCHANGED <<made, hasCleanup, cleanups>>
        /\ \A x \in Names \ {n} : plugins'[x] = plugins[x]
    BY <1>4, <2>1 DEF CloseModule, TypeOK
  <2> QED  BY <2>1, <2>2 DEF Gone
<1>5. CASE CloseRuntime(c)
  BY <1>5 DEF CloseRuntime, Gone
<1>6. CASE \/ Invoke(c) \/ Lock(c) \/ RLock(c) \/ LoadPlugin(c) \/ UnloadPlugin(c)
           \/ GetPlugin(c) \/ CallProcess(c) \/ CloseNames(c) \/ CloseNext(c)
  <2>1. UNCHANGED <<plugins, made, open, hasCleanup, cleanups>>
    BY <1>6 DEF Invoke, Lock, RLock, LoadPlugin, UnloadPlugin, GetPlugin, CallProcess,
                CloseNames, CloseNext
  <2> QED  BY <2>1 DEF Gone
<1> QED
  BY <1>1, <1>2, <1>3, <1>4, <1>5, <1>6 DEF Acquire, Continue

\* Every step keeps what a Close has found within reach.
LEMMA ClosesKept ==
  ASSUME TypeOK, ManagerInv, NEW c \in Callers, Invoke(c) \/ Acquire(c) \/ Continue(c)
  PROVE  CloseInv'
<1> DEFINE Current(d) ==
      IF call[d].pc \in {"lock", "unload", "unload.cleanup", "unload.close"}
      THEN {call[d].name} ELSE {}
           Kept(d) ==
      call[d].op = "Close" =>
        /\ call[d].pc \in {"idle", "close.runtime"} => call[d].todo = {}
        /\ call[d].pc \in {"rlock", "close.names"} => call[d].found = {}
        /\ call[d].found \subseteq made
        /\ ~ call[d].err =>
             \A m \in call[d].found :
               Gone(m) \/ \E n \in call[d].todo \cup Current(d) : plugins[n] = m
<1>1. \A d \in Callers : Kept(d)
  BY DEF ManagerInv, CloseInv, Ahead
<1>2. CloseInv' <=> \A d \in Callers : Kept(d)'
  BY DEF CloseInv, Ahead
<1>3. call \in [Callers -> Operations]
  BY DEF TypeOK
<1>4. \A d \in Callers : call[d].todo \subseteq Names /\ Current(d) \subseteq Names
  BY <1>3 DEF ManagerInv, HandsInv, WriterLabels, Operations
<1>5. ASSUME NEW d \in Callers, call'[d] = call[d]
      PROVE  Kept(d)'
  BY <1>1, <1>4, <1>5, EntryOrGone
\* A step of c that keeps its Close, or has it meet an error.
<1>6. ASSUME call'[c].op = call[c].op, call'[c].found = call[c].found,
             call'[c].todo = call[c].todo,
             call[c].err => call'[c].err,
             ~ call'[c].err => Current(c)' = Current(c),
             call[c].pc \notin {"rlock", "close.names"},
             call'[c].pc \notin {"rlock", "close.names", "close.runtime"},
             call'[c].pc = "idle" => call[c].op # "Close"
      PROVE  Kept(c)'
  <2> SUFFICES ASSUME call'[c].op = "Close"
               PROVE  Kept(c)'
    OBVIOUS
  <2>1. call'[c].found \subseteq made'
    BY <1>1, <1>6, EntryOrGone
  <2>2. ASSUME ~ call'[c].err, NEW m \in call'[c].found
        PROVE  Gone(m)' \/ \E n \in call'[c].todo \cup Current(c)' : plugins'[n] = m
    <3>1. m \in made /\ (Gone(m) \/ \E n \in call[c].todo \cup Current(c) : plugins[n] = m)
      BY <1>1, <1>6, <2>2
    <3>2. call'[c].todo \cup Current(c)' = call[c].todo \cup Current(c)
      BY <1>6, <2>2
    <3> HIDE DEF Current
    <3>3. \A n \in call[c].todo \cup Current(c) : n \in Names
      BY <1>4
    <3> QED  BY <3>1, <3>2, <3>3, EntryOrGone
  <2> QED  BY <1>6, <2>1, <2>2
<1>7. ASSUME call'[c].op # "Close"
      PROVE  Kept(c)'
  BY <1>7
<1> HIDE DEF Kept
<1>8. CASE Invoke(c)
  <2>1. PICK o \in {"LoadPlugin", "UnloadPlugin", "CallPlugin", "Close"}, q \in {"lock",
     "rlock"},
             n \in Names \cup {None} :
          /\ call' = [call EXCEPT ![c] = Operation(o, q, n)]
          /\ o = "Close" => q = "rlock"
    BY <1>8 DEF Invoke
  <2>2. Kept(c)'
    <3>1. /\ call'[c].op = o /\ call'[c].pc = q
          /\ call'[c].found = {} /\ call'[c].todo = {}
      BY <1>3, <2>1 DEF Operation
    <3> QED  BY <2>1, <3>1 DEF Kept
  <2>3. \A d \in Callers \ {c} : call'[d] = call[d]
    BY <1>3, <1>8 DEF Invoke
  <2> QED  BY <1>2, <1>5, <2>2, <2>3
<1>9. CASE RLock(c)
  <2>1. /\ \A d \in Callers \ {c} : call'[d] = call[d]
        /\ call'[c].op = call[c].op /\ call'[c].found = call[c].found
        /\ call'[c].todo = call[c].todo
        /\ call[c].pc = "rlock" /\ (call'[c].op = "Close" => call'[c].pc = "close.names")
    BY <1>3, <1>9 DEF RLock, Goto, At, Operations
  <2>2. Kept(c)'
    BY <1>1, <2>1 DEF Kept
  <2> QED  BY <1>2, <1>5, <2>1, <2>2
<1>10. CASE CloseNames(c)
  <2>1. Kept(c)'
    <3>1. /\ call'[c].pc = "close.next" /\ plugins' = plugins /\ made' = made
          /\ call'[c].todo = {n \in Names : plugins[n] # None}
          /\ call'[c].found = {plugins[n] : n \in Names} \ {None}
      BY <1>10, CloseNamesFacts
    <3>2. \A m \in {plugins[n] : n \in Names} \ {None} : m \in made
      BY DEF ManagerInv, ModuleInv, Registered, TypeOK
    <3> QED  BY <3>1, <3>2 DEF Kept
  <2> QED  BY <1>2, <1>5, <1>10, <2>1, CloseNamesFacts
<1>11. CASE CloseNext(c)
  <2>1. Kept(c)'
    <3>1. call[c].pc = "close.next" /\ call[c].op = "Close"
      BY <1>11, CloseNextFacts DEF ManagerInv, HandsInv
    <3>2. /\ call'[c].todo \cup Current(c)' = call[c].todo \cup Current(c)
          /\ call'[c].err = call[c].err /\ call'[c].found = call[c].found
          /\ call'[c].pc = "close.runtime" => call'[c].todo = {}
          /\ call'[c].pc \in {"close.runtime", "lock"}
          /\ UNCHANGED <<plugins, runtimeVars, made, cleanups>>
      BY <1>11, <3>1, CloseNextFacts
    <3> QED  BY <1>1, <3>1, <3>2 DEF Kept, Gone
  <2> QED  BY <1>2, <1>5, <1>11, <2>1, CloseNextFacts
<1>12. CASE CloseModule(c)
  <2>1. /\ \A d \in Callers \ {c} : call'[d] = call[d]
        /\ call'[c].op = call[c].op /\ call'[c].found = call[c].found
        /\ call'[c].todo = call[c].todo /\ call[c].pc = "unload.close"
        /\ call[c].err => call'[c].err
        /\ call'[c].op = "Close" => call'[c].pc = "close.next"
    BY <1>3, <1>12 DEF CloseModule, Return, At, Operations
  <2>2. PICK n \in Names, k \in Modules : call[c].mod = k /\ call[c].name = n /\ plugins[n] = k
    BY <1>12, <2>1, ManagerAssumption
    DEF TypeOK, ManagerInv, HandsInv, At, Operations, WriterLabels
  <2>3. Gone(k)'
    BY <1>12, <2>1, <2>2 DEF CloseModule, Gone, ManagerInv, HandsInv, At
  <2>4. \A m \in call[c].found : plugins[n] = m => Gone(m)'
    BY <2>2, <2>3
  <2>5. ASSUME ~ call'[c].err, call'[c].op = "Close", NEW m \in call'[c].found
        PROVE  Gone(m)' \/ \E x \in call'[c].todo \cup Current(c)' : plugins'[x] = m
    <3>1. m \in made /\ (Gone(m) \/ \E x \in call[c].todo \cup Current(c) : plugins[x] = m)
      BY <1>1, <2>1, <2>5 DEF Kept
    <3>2. Current(c) = {n} /\ Current(c)' = {}
      BY <2>1, <2>2, <2>5
    <3>3. \A x \in call[c].todo : x \in Names
      BY <1>4
    <3> HIDE DEF Current
    <3> QED  BY <2>1, <2>3, <2>2, <3>1, <3>2, <3>3, EntryOrGone
  <2>6. call'[c].op = "Close" => call'[c].found \subseteq made'
    BY <1>1, <2>1, EntryOrGone DEF Kept
  <2>7. Kept(c)'
    BY <2>1, <2>5, <2>6 DEF Kept
  <2> QED  BY <1>2, <1>5, <2>1, <2>7
<1>13. CASE CloseRuntime(c)
  <2>1. /\ \A d \in Callers \ {c} : call'[d] = call[d]
        /\ call'[c].op = call[c].op /\ call'[c].found = call[c].found
        /\ call'[c].todo = call[c].todo /\ call[c].pc = "close.runtime"
        /\ call[c].err => call'[c].err
        /\ call'[c].pc = "idle"
    BY <1>3, <1>13 DEF CloseRuntime, Return, At, Operations
  <2>2. Kept(c)'
    BY <1>1, <1>4, <2>1, EntryOrGone DEF Kept
  <2> QED  BY <1>2, <1>5, <2>1, <2>2
<1>14. CASE GetPlugin(c) \/ CallProcess(c)
  <2>1. call[c].op = "CallPlugin"
    BY <1>14 DEF GetPlugin, CallProcess, At, ManagerInv, HandsInv
  <2>2. call'[c].op = call[c].op /\ \A d \in Callers \ {c} : call'[d] = call[d]
    BY <1>3, <1>14 DEF GetPlugin, CallProcess, Return, Operations
  <2> QED  BY <1>2, <1>5, <1>7, <2>1, <2>2
<1>15. CASE \/ Lock(c) \/ LoadPlugin(c) \/ InstantiateWithConfig(c) \/ ExportedFunctions(c)
            \/ UnloadPlugin(c) \/ CallCleanup(c)
  <2>1. /\ \A d \in Callers \ {c} : call'[d] = call[d]
        /\ call'[c].op = call[c].op /\ call'[c].found = call[c].found
        /\ call'[c].todo = call[c].todo /\ call'[c].name = call[c].name
        /\ call[c].err => call'[c].err
        /\ call'[c].pc = "idle" => call[c].op # "Close"
        /\ call[c].pc \in {"lock", "load", "load.instantiate", "load.exports", "unload",
                           "unload.cleanup"}
        /\ call'[c].pc \in {"idle", "close.next", "load", "load.instantiate", "load.exports",
                            "unload", "unload.cleanup", "unload.close"}
        /\ ~ call'[c].err /\ call[c].op = "Close" =>
             \/ call[c].pc \in {"lock", "unload", "unload.cleanup"}
                /\ call'[c].pc \in {"unload", "unload.cleanup", "unload.close"}
             \/ call[c].pc \in {"load", "load.instantiate", "load.exports"}
                /\ call'[c].pc \in {"close.next", "load.instantiate", "load.exports"}
    BY <1>3, <1>15, SMTT(60) DEF Lock, LoadPlugin, InstantiateWithConfig, ExportedFunctions,
       UnloadPlugin, CallCleanup, Goto, Return, At, Operations
  <2>2. Kept(c)'
    BY <1>6, <1>7, <2>1
  <2> QED  BY <1>2, <1>5, <2>1, <2>2
<1> QED
  BY <1>8, <1>9, <1>10, <1>11, <1>12, <1>13, <1>14, <1>15 DEF Acquire, Continue

-----------------------------------------------------------------------------
(* The manager implements Registry: every step is one of its steps, or     *)
(* changes nothing that Registry knows of.                                 *)

\* Other callers keep their task when c takes a step.
LEMMA OthersWait ==
  ASSUME TypeOK, ManagerInv, NEW c \in Callers, Invoke(c) \/ Acquire(c) \/ Continue(c)
  PROVE  \A d \in Callers \ {c} : call'[d] = call[d]
<1>1. CASE CloseNames(c) \/ CloseNext(c)
  BY <1>1, CloseNamesFacts, CloseNextFacts
<1>2. CASE ~ (CloseNames(c) \/ CloseNext(c))
  BY <1>2 DEF TypeOK, Invoke, Acquire, Continue, Lock, RLock, LoadPlugin, InstantiateWithConfig,
     ExportedFunctions, UnloadPlugin, CallCleanup, CloseModule, GetPlugin, CallProcess,
     CloseRuntime, Goto, Return
<1> QED  BY <1>1, <1>2

\* What Registry sees of the operation of a caller.
View(c) ==
  Promise!Method(call[c].op, IF call[c].op = "Close" THEN None ELSE call[c].name,
                 At(c, "idle"), call[c].err, call[c].found)

\* The fields of a task.
LEMMA TaskFields ==
  ASSUME NEW c \in Callers
  PROVE  /\ Tasks[c].op = call[c].op
         /\ Tasks[c].name = (IF call[c].op = "Close" THEN None ELSE call[c].name)
         /\ Tasks[c].done <=> call[c].pc = "idle"
         /\ Tasks[c].err = call[c].err
         /\ Tasks[c].found = call[c].found
BY DEF Tasks, At

\* One caller's step changes that caller's task.
LEMMA TaskMoves ==
  ASSUME NEW c \in Callers, \A d \in Callers \ {c} : call'[d] = call[d]
  PROVE  /\ Tasks[c] = View(c)
         /\ Tasks' = [Tasks EXCEPT ![c] = View(c)']
BY DEF Tasks, View, At, Promise!Method

\* A step that changes neither the method, its answer nor its name.
LEMMA TaskStays ==
  ASSUME NEW c \in Callers, \A d \in Callers \ {c} : call'[d] = call[d],
         call'[c].op = call[c].op, call'[c].err = call[c].err,
         call'[c].found = call[c].found,
         call'[c].name = call[c].name \/ call[c].op = "Close",
         call[c].pc # "idle", call'[c].pc # "idle"
  PROVE  UNCHANGED Tasks
<1>1. View(c)' = View(c)
  BY DEF View, Promise!Method, At
<1> QED  BY <1>1, TaskMoves DEF Tasks, View, At, Promise!Method

\* A method that returns, to its caller or to the loop of Close, answers.
LEMMA ReturnIsAnswer ==
  ASSUME TypeOK, NEW c \in Callers, NEW e \in BOOLEAN, Return(c, e),
         call[c].pc \notin {"idle", "close.runtime"}
  PROVE  Promise!Answer(c, e) /\ ~ Tasks[c].done
<1> DEFINE dn == Tasks[c].op # "Close"
           er == Tasks[c].err \/ e
<1>1. call \in [Callers -> Operations]
  BY DEF TypeOK
<1>2. \A d \in Callers \ {c} : call'[d] = call[d]
  BY <1>1 DEF Return
<1>3. /\ call'[c].op = call[c].op /\ call'[c].name = call[c].name
      /\ call'[c].found = call[c].found
      /\ call'[c].err = (call[c].err \/ e)
      /\ (call'[c].pc = "idle") = (call[c].op # "Close")
  BY <1>1 DEF Return, Operations
<1>4. At(c, "idle")' = dn /\ call'[c].err = er
  BY <1>3, TaskFields DEF At
<1>5. View(c)' = Promise!Method(Tasks[c].op, Tasks[c].name, dn, er, Tasks[c].found)
  <2>1. (IF call[c].op = "Close" THEN None ELSE call[c].name)' = Tasks[c].name
    BY <1>3, TaskFields
  <2>2. call'[c].op = Tasks[c].op /\ call'[c].found = Tasks[c].found
    BY <1>3, TaskFields
  <2> HIDE DEF dn, er
  <2> QED  BY <1>4, <2>1, <2>2 DEF View
<1>6. Tasks' = [Tasks EXCEPT ![c] = View(c)']
  BY <1>2, TaskMoves
<1>7. Promise!Answer(c, e)
  BY <1>5, <1>6, Zenon DEF Promise!Answer
<1>8. ~ Tasks[c].done
  BY TaskFields
<1> QED  BY <1>7, <1>8

\* What is loaded, can be called and is cleaned up, when nothing is made, refused,
\* registered, cleaned up or closed.
LEMMA RegistryStays ==
  ASSUME TypeOK, UNCHANGED <<runtimeVars, made, refused, cleanups>>,
         \A m \in Modules : Loading(m)' <=> Loading(m)
  PROVE  UNCHANGED <<Known, Usable, Tidy, closed>>
<1>1. Known' = Known
  BY DEF Known, TypeOK
<1> QED  BY <1>1 DEF Usable, Tidy

\* A plugin under a name is one that was loaded.
LEMMA RegisteredIsKnown ==
  ASSUME TypeOK, ManagerInv, NEW n \in Names, plugins[n] # None
  PROVE  plugins[n] \in Known /\ plugins[n] \in Modules
<1>1. plugins[n] \in Modules /\ Registered(plugins[n])
  BY DEF TypeOK, Registered
<1> QED  BY <1>1 DEF ManagerInv, ModuleInv, Known

\* Registry sees nothing of a step that only brings a caller further.
LEMMA Unseen ==
  ASSUME TypeOK, NEW c \in Callers, \A d \in Callers \ {c} : call'[d] = call[d],
         call'[c].op = call[c].op, call'[c].err = call[c].err,
         call'[c].found = call[c].found,
         call'[c].name = call[c].name \/ call[c].op = "Close",
         {call[c].pc, call'[c].pc} \cap {"idle", "load.exports"} = {},
         UNCHANGED <<plugins, runtimeVars, made, refused, cleanups>>
  PROVE  UNCHANGED Promise!vars
<1>1. \A m \in Modules : Loading(m)' <=> Loading(m)
  BY DEF Loading, At
<1>2. UNCHANGED <<Known, Usable, Tidy, closed>>
  BY <1>1, RegistryStays
<1>3. UNCHANGED Tasks
  BY TaskStays
<1> QED  BY <1>2, <1>3 DEF Promise!vars

\* A method that fails without an effect.
LEMMA FailStep ==
  ASSUME TypeOK, NEW c \in Callers, Return(c, TRUE),
         call[c].pc \notin {"idle", "close.runtime"},
         UNCHANGED <<plugins, Known, Usable, Tidy, closed>>
  PROVE  Promise!Fail(c)
BY ReturnIsAnswer DEF Promise!Fail

\* The same, when what a caller does is not the loading of a module.
LEMMA PlainFail ==
  ASSUME TypeOK, NEW c \in Callers, Return(c, TRUE),
         call[c].pc \notin {"idle", "close.runtime", "load.exports"},
         UNCHANGED <<plugins, runtimeVars, made, refused, cleanups>>
  PROVE  Promise!Fail(c)
<1>1. /\ call'[c].pc \in {"idle", "close.next"}
      /\ \A d \in Callers \ {c} : call'[d] = call[d]
  BY DEF Return, TypeOK, Operations
<1>2. \A m \in Modules : Loading(m)' <=> Loading(m)
  BY <1>1 DEF Loading, At
<1> QED  BY <1>2, RegistryStays, FailStep

\* Invoke begins a method.
LEMMA InvokeBegins ==
  ASSUME TypeOK, ManagerInv, NEW c \in Callers, Invoke(c)
  PROVE  \E o \in {"LoadPlugin", "UnloadPlugin", "CallPlugin", "Close"},
            n \in Names \cup {None} : Promise!Begin(c, o, n)
<1>1. PICK o \in {"LoadPlugin", "UnloadPlugin", "CallPlugin", "Close"},
           p \in {"lock", "rlock"}, n \in Names \cup {None} :
        /\ call' = [call EXCEPT ![c] = Operation(o, p, n)]
        /\ IF o = "Close" THEN n = None ELSE n \in Names
  BY DEF Invoke
<1>2. call[c].pc = "idle" /\ call \in [Callers -> Operations]
  BY DEF Invoke, At, TypeOK
<1>3. call'[c] = Operation(o, p, n) /\ \A d \in Callers \ {c} : call'[d] = call[d]
  BY <1>1, <1>2
<1>4. View(c)' = Promise!Method(o, n, FALSE, FALSE, {})
  <2>1. At(c, "idle")' = FALSE /\ call'[c].err = FALSE
    BY <1>3 DEF Operation, At
  <2>2. call'[c].op = o /\ call'[c].found = {}
    BY <1>3 DEF Operation
  <2>3. (IF call[c].op = "Close" THEN None ELSE call[c].name)' = n
    BY <1>1, <1>3 DEF Operation
  <2> QED  BY <2>1, <2>2, <2>3 DEF View
<1>5. Tasks' = [Tasks EXCEPT ![c] = View(c)'] /\ Tasks[c].done
  BY <1>2, <1>3, TaskMoves, TaskFields
<1>6. \A m \in Modules : Loading(m)' <=> Loading(m)
  BY <1>2, <1>3 DEF Loading, At, Operation
<1>7. UNCHANGED <<plugins, Known, Usable, Tidy, closed>>
  BY <1>6, RegistryStays DEF Invoke
<1>8. Promise!Begin(c, o, n)
  BY <1>1, <1>4, <1>5, <1>7 DEF Promise!Begin
<1> QED  BY <1>8

\* The lock is not seen, and neither is the loop of Close.
LEMMA QuietSteps ==
  ASSUME TypeOK, ManagerInv, NEW c \in Callers, Acquire(c) \/ CloseNext(c)
  PROVE  UNCHANGED Promise!vars
<1>1. CASE Acquire(c)
  BY <1>1, Unseen DEF Acquire, Lock, RLock, Goto, At, TypeOK, Operations
<1>2. CASE CloseNext(c)
  BY <1>2, CloseNextFacts, Unseen DEF ManagerInv, HandsInv
<1> QED  BY <1>1, <1>2

\* A call succeeds on what is registered and can be called.
LEMMA CallSteps ==
  ASSUME TypeOK, ManagerInv, NEW c \in Callers, GetPlugin(c) \/ CallProcess(c)
  PROVE  Promise!Fail(c) \/ Promise!Call(c) \/ UNCHANGED Promise!vars
<1>1. /\ call \in [Callers -> Operations] /\ call[c].pc \in {"get", "call"}
      /\ call[c].op = "CallPlugin" /\ call[c].name \in Names
  BY DEF TypeOK, ManagerInv, HandsInv, GetPlugin, CallProcess, At
<1>2. UNCHANGED <<plugins, runtimeVars, made, refused, cleanups>>
  BY DEF GetPlugin, CallProcess
<1>3. CASE Return(c, TRUE)
  BY <1>1, <1>2, <1>3, PlainFail
<1>4. CASE GetPlugin(c) /\ ~ Return(c, TRUE)
  <2>1. PICK m \in Modules : call' = [call EXCEPT ![c].mod = m, ![c].pc = "call"]
    BY <1>1, <1>4 DEF GetPlugin, TypeOK
  <2>2. /\ call'[c].pc = "call" /\ call'[c].op = call[c].op /\ call'[c].err = call[c].err
        /\ call'[c].found = call[c].found /\ call'[c].name = call[c].name
        /\ \A d \in Callers \ {c} : call'[d] = call[d]
    BY <1>1, <2>1 DEF Operations
  <2> QED  BY <1>1, <1>2, <2>2, Unseen
<1>5. CASE CallProcess(c) /\ ~ Return(c, TRUE)
  <2>1. Return(c, FALSE) /\ call[c].mod \in open /\ call[c].pc = "call"
    BY <1>5 DEF CallProcess, At
  <2>2. plugins[call[c].name] = call[c].mod /\ call[c].mod # None
    BY <2>1, ManagerAssumption DEF ManagerInv, HandsInv, At, TypeOK
  <2>3. plugins[Tasks[c].name] \in Usable
    BY <1>1, <2>1, <2>2, RegisteredIsKnown, TaskFields DEF Usable
  <2>4. Promise!Busy(c, {"CallPlugin"})
    BY <1>1, <2>1, TaskFields DEF Promise!Busy
  <2>5. UNCHANGED <<Known, Usable, Tidy, closed>>
    <3>1. \A m \in Modules : Loading(m)' <=> Loading(m)
      BY <1>1, <2>1 DEF Loading, At, Return, Operations
    <3> QED  BY <1>2, <3>1, RegistryStays
  <2>6. Promise!Answer(c, FALSE)
    BY <2>1, ReturnIsAnswer
  <2> QED  BY <1>2, <2>3, <2>4, <2>5, <2>6 DEF Promise!Call
<1> QED  BY <1>3, <1>4, <1>5

\* A module that is made is not seen before it is registered, and never if it is refused.
LEMMA LoadSteps ==
  ASSUME TypeOK, ManagerInv, NEW c \in Callers,
         LoadPlugin(c) \/ InstantiateWithConfig(c) \/ ExportedFunctions(c)
  PROVE  Promise!Fail(c) \/ (\E m \in Modules : Promise!Load(c, m)) \/ UNCHANGED Promise!vars
<1>1. /\ call \in [Callers -> Operations]
      /\ call[c].pc \in {"load", "load.instantiate", "load.exports"}
      /\ call[c].op = "LoadPlugin" /\ call[c].name \in Names
  BY DEF TypeOK, ManagerInv, HandsInv, MethodInv, LoadPlugin, InstantiateWithConfig,
     ExportedFunctions, At, WriterLabels
<1>2. \A d \in Callers \ {c} : call'[d] = call[d] /\ call[d].pc # "load.exports"
  BY <1>1, OthersWait, OnlyWriter DEF Continue, WriterLabels
<1>3. CASE LoadPlugin(c)
  <2>1. UNCHANGED <<plugins, runtimeVars, made, refused, cleanups>> /\ call[c].pc = "load"
    BY <1>3 DEF LoadPlugin, At
  <2>2. CASE Return(c, TRUE)
    BY <2>1, <2>2, PlainFail
  <2>3. CASE Goto(c, "load.instantiate")
    BY <1>1, <1>2, <2>1, <2>3, Unseen DEF Goto, Operations
  <2> QED  BY <1>3, <2>2, <2>3 DEF LoadPlugin
<1>4. CASE InstantiateWithConfig(c) /\ Return(c, TRUE) /\ UNCHANGED <<open, hasCleanup, made>>
  BY <1>4, PlainFail DEF InstantiateWithConfig, At
<1>5. CASE InstantiateWithConfig(c) /\ ~ (Return(c, TRUE) /\ UNCHANGED <<open, hasCleanup, made>>)
  <2> DEFINE f == Fresh
  <2>1. f \in Modules /\ f \notin made
    BY <1>5 DEF InstantiateWithConfig, Fresh, TypeOK
  <2>2. /\ open' = open \cup {f}
        /\ made' = made \cup {f}
        /\ hasCleanup' \subseteq hasCleanup \cup {f} /\ hasCleanup \subseteq hasCleanup'
        /\ call' = [call EXCEPT ![c].mod = f, ![c].pc = "load.exports"]
        /\ UNCHANGED <<plugins, closed, refused, cleanups>>
        /\ call[c].pc = "load.instantiate"
    BY <1>5 DEF InstantiateWithConfig, At
  <2> HIDE DEF f
  <2>3. /\ call'[c].pc = "load.exports" /\ call'[c].mod = f
        /\ call'[c].op = call[c].op /\ call'[c].err = call[c].err
        /\ call'[c].found = call[c].found /\ call'[c].name = call[c].name
    BY <1>1, <2>1, <2>2 DEF Operations
  <2>4. \A m \in Modules : ~ Loading(m) /\ (Loading(m)' <=> m = f)
    BY <1>2, <2>2, <2>3 DEF Loading, At
  <2>5. UNCHANGED <<Known, Usable, Tidy>>
    <3>1. f \notin Known /\ Known' = Known
      BY <2>1, <2>2, <2>4 DEF Known, TypeOK
    <3> QED  BY <2>2, <3>1 DEF Usable, Tidy
  <2>6. UNCHANGED Tasks
    BY <1>2, <2>2, <2>3, TaskStays
  <2> QED  BY <2>2, <2>5, <2>6 DEF Promise!vars
<1>6. CASE ExportedFunctions(c)
  <2> DEFINE k == call[c].mod
             n == call[c].name
  <2>1. call[c].pc = "load.exports" /\ UNCHANGED <<runtimeVars, made, cleanups>>
    BY <1>6 DEF ExportedFunctions, At
  <2>2. plugins[n] = None /\ k \in Modules
    BY <1>1, <2>1 DEF ManagerInv, HandsInv, At, Operations
  <2>3. call'[c].pc \in {"idle", "close.next"}
    BY <1>1, <1>6, <2>1 DEF ExportedFunctions, Return, Operations
  <2>4. \A m \in Modules : (Loading(m) <=> m = k) /\ ~ Loading(m)'
    BY <1>2, <2>1, <2>3 DEF Loading, At
  <2>5. k \in made \ refused /\ (~ closed => k \in open) /\ (closed => open = {})
    BY <2>2, <2>4 DEF ManagerInv, ModuleInv
  <2>6. Promise!Busy(c, {"LoadPlugin"}) /\ Tasks[c].name = n
    BY <1>1, <2>1, TaskFields DEF Promise!Busy
  <2> HIDE DEF k, n
  <2>7. CASE Return(c, TRUE) /\ refused' = refused \cup {k} /\ UNCHANGED plugins
    <3>1. Known' = Known
      BY <2>1, <2>2, <2>4, <2>7 DEF Known, TypeOK
    <3>2. UNCHANGED <<Usable, Tidy, closed>>
      BY <2>1, <3>1 DEF Usable, Tidy
    <3> QED  BY <2>1, <2>7, <3>1, <3>2, FailStep
  <2>8. CASE /\ Return(c, FALSE) /\ UNCHANGED refused
             /\ plugins' = [plugins EXCEPT ![n] = k]
    <3>1. Known' = Known \cup {k} /\ k \notin Known
      BY <2>1, <2>2, <2>4, <2>5, <2>8 DEF Known, TypeOK
    <3>2. Usable' = IF closed THEN Usable ELSE Usable \cup {k}
      BY <2>1, <2>5, <3>1 DEF Usable
    <3>3. Tidy' \in {Tidy, Tidy \cup {k}}
      <4>1. CASE k \in hasCleanup /\ cleanups[k] = 0
        <5>1. Tidy' = Tidy
          BY <2>1, <3>1, <4>1 DEF Tidy
        <5> QED  BY <5>1
      <4>2. CASE ~ (k \in hasCleanup /\ cleanups[k] = 0)
        <5>1. Tidy' = Tidy \cup {k}
          BY <2>1, <3>1, <4>2 DEF Tidy
        <5> QED  BY <5>1
      <4> QED  BY <4>1, <4>2
    <3>4. Promise!Answer(c, FALSE)
      BY <2>1, <2>8, ReturnIsAnswer
    <3>5. Promise!Load(c, k)
      BY <2>1, <2>2, <2>6, <2>8, <3>1, <3>2, <3>3, <3>4 DEF Promise!Load
    <3> QED  BY <2>2, <3>5
  <2> QED  BY <1>6, <2>7, <2>8 DEF ExportedFunctions, k, n
<1> QED  BY <1>3, <1>4, <1>5, <1>6

\* An unload cleans up, once, and then closes the module: that is when its entry goes.
LEMMA UnloadSteps ==
  ASSUME TypeOK, ManagerInv, NEW c \in Callers,
         UnloadPlugin(c) \/ CallCleanup(c) \/ CloseModule(c)
  PROVE  \/ Promise!Fail(c) \/ UNCHANGED Promise!vars
         \/ \E n \in Names : Promise!CleanUp(c, n) \/ Promise!Unload(c, n)
<1>1. /\ call \in [Callers -> Operations]
      /\ call[c].pc \in {"unload", "unload.cleanup", "unload.close"}
      /\ call[c].op \in {"UnloadPlugin", "Close"} /\ call[c].name \in Names
  BY DEF TypeOK, ManagerInv, HandsInv, MethodInv, UnloadPlugin, CallCleanup, CloseModule, At,
     WriterLabels
<1>2. \A d \in Callers \ {c} : call'[d] = call[d] /\ call[d].pc \notin WriterLabels
  BY <1>1, OthersWait, OnlyWriter DEF Continue, WriterLabels
<1>3. CASE UnloadPlugin(c)
  <2>1. UNCHANGED <<plugins, runtimeVars, made, refused, cleanups>> /\ call[c].pc = "unload"
    BY <1>3 DEF UnloadPlugin, At
  <2>2. CASE Return(c, TRUE)
    BY <2>1, <2>2, PlainFail
  <2>3. CASE ~ Return(c, TRUE)
    <3>1. PICK m \in Modules : call' = [call EXCEPT ![c].mod = m, ![c].pc = "unload.cleanup"]
      BY <1>1, <1>3, <2>3 DEF UnloadPlugin, TypeOK
    <3>2. /\ call'[c].pc = "unload.cleanup" /\ call'[c].op = call[c].op
          /\ call'[c].err = call[c].err /\ call'[c].found = call[c].found
          /\ call'[c].name = call[c].name
      BY <1>1, <3>1 DEF Operations
    <3> QED  BY <1>2, <2>1, <3>2, Unseen
  <2> QED  BY <2>2, <2>3
\* The last two steps have the module that is registered in their hands.
<1>4. CASE CallCleanup(c) \/ CloseModule(c)
  <2>1. PICK n \in Names, k \in Modules :
          call[c].name = n /\ call[c].mod = k /\ plugins[n] = k /\ k # None
    BY <1>1, <1>4, ManagerAssumption
    DEF ManagerInv, HandsInv, At, Operations, CallCleanup, CloseModule
  <2>2. k \in Known
    BY <2>1, RegisteredIsKnown
  <2>3. Promise!Unloads(c, n)
    BY <1>1, <2>1, TaskFields DEF Promise!Unloads, Promise!Busy
  <2>4. CASE CallCleanup(c)
    <3>1. /\ UNCHANGED <<plugins, runtimeVars, made, refused>>
          /\ call[c].pc = "unload.cleanup"
      BY <2>4 DEF CallCleanup, At
    <3>2. CASE Return(c, TRUE) /\ UNCHANGED cleanups
      BY <3>1, <3>2, PlainFail
    <3>3. CASE Goto(c, "unload.close") /\ UNCHANGED cleanups
      BY <1>1, <1>2, <3>1, <3>3, Unseen DEF Goto, Operations
    <3>4. CASE /\ k \in hasCleanup \cap open /\ Goto(c, "unload.close")
               /\ cleanups' = [cleanups EXCEPT ![k] = @ + 1]
      <4>1. \A d \in Callers : call[d].pc \notin {"unload.close", "load.exports"}
        BY <1>2, <3>1 DEF WriterLabels
      <4>2. cleanups[k] = 0
        BY <3>4, <4>1 DEF ManagerInv, ModuleInv, At
      <4>3. cleanups'[k] = 1 /\ \A m \in Modules \ {k} : cleanups'[m] = cleanups[m]
        BY <3>4, <4>2 DEF TypeOK
      <4>4. /\ call'[c].pc = "unload.close" /\ call'[c].op = call[c].op
            /\ call'[c].err = call[c].err /\ call'[c].found = call[c].found
            /\ call'[c].name = call[c].name
        BY <1>1, <3>4 DEF Goto, Operations
      <4>5. \A m \in Modules : Loading(m)' <=> Loading(m)
        BY <1>2, <3>1, <4>4 DEF Loading, At
      <4>6. Known' = Known /\ Usable' = Usable
        BY <3>1, <4>5 DEF Known, Usable, TypeOK
      <4>7. Known \subseteq Modules
        BY DEF Known, TypeOK
      <4>8. Tidy' = Tidy \cup {k} /\ k \notin Tidy
        BY <2>1, <2>2, <3>1, <3>4, <4>2, <4>3, <4>6, <4>7 DEF Tidy
      <4>9. UNCHANGED Tasks
        BY <1>2, <3>1, <4>4, TaskStays
      <4>10. k \in Usable
        BY <2>2, <3>4 DEF Usable
      <4>11. Promise!CleanUp(c, n)
        BY <2>1, <2>3, <3>1, <4>6, <4>8, <4>9, <4>10 DEF Promise!CleanUp
      <4> QED  BY <4>11
    <3> QED  BY <2>1, <2>4, <3>2, <3>3, <3>4 DEF CallCleanup
  <2>5. CASE CloseModule(c)
    <3>1. /\ open' = open \ {k} /\ call[c].pc = "unload.close"
          /\ UNCHANGED <<closed, hasCleanup, made, refused, cleanups>>
      BY <2>1, <2>5 DEF CloseModule, At
    <3>2. \/ Return(c, FALSE) /\ plugins' = [plugins EXCEPT ![n] = None]
          \/ Return(c, TRUE) /\ k \in open /\ UNCHANGED plugins
      BY <2>1, <2>5 DEF CloseModule
    <3>3. call'[c].pc # "load.exports"
      BY <1>1, <3>2 DEF Return, Operations
    <3>4. \A m \in Modules : Loading(m)' <=> Loading(m)
      BY <1>2, <3>1, <3>3 DEF Loading, At
    <3>5. Known' = Known
      BY <3>1, <3>4 DEF Known, TypeOK
    <3>6. Usable' = Usable \ {k} /\ Tidy' = Tidy
      BY <3>1, <3>5 DEF Usable, Tidy
    <3>7. k \in Tidy
      BY <2>1, <2>2, <3>1 DEF Tidy, ManagerInv, HandsInv, At
    <3>8. \/ Promise!Answer(c, FALSE) /\ plugins' = [plugins EXCEPT ![n] = None]
          \/ Promise!Answer(c, TRUE) /\ k \in Usable /\ UNCHANGED plugins
      BY <2>2, <3>1, <3>2, ReturnIsAnswer DEF Usable
    <3>9. Promise!Unload(c, n)
      BY <2>1, <2>3, <3>1, <3>5, <3>6, <3>7, <3>8 DEF Promise!Unload
    <3> QED  BY <3>9
  <2> QED  BY <1>4, <2>4, <2>5
<1> QED  BY <1>3, <1>4

\* Close takes stock of the registry, and returns when the runtime is closed.
LEMMA CloseSteps ==
  ASSUME TypeOK, ManagerInv, NEW c \in Callers, CloseNames(c) \/ CloseRuntime(c)
  PROVE  Promise!Collect(c) \/ \E e \in BOOLEAN : Promise!Shutdown(c, e)
<1>1. /\ call \in [Callers -> Operations] /\ call[c].op = "Close"
      /\ call[c].pc \in {"close.names", "close.runtime"}
  BY DEF TypeOK, ManagerInv, HandsInv, CloseNames, CloseRuntime, At
<1>2. Promise!Busy(c, {"Close"})
  BY <1>1, TaskFields DEF Promise!Busy
<1>3. CASE CloseNames(c)
  <2> DEFINE f == {plugins[n] : n \in Names} \ {None}
  <2>1. /\ \A d \in Callers \ {c} : call'[d] = call[d]
        /\ call'[c].pc = "close.next" /\ call'[c].op = "Close"
        /\ call'[c].err = call[c].err /\ call'[c].found = f
        /\ UNCHANGED <<plugins, runtimeVars, made, refused, cleanups>>
    BY <1>3, CloseNamesFacts
  <2>2. View(c)' = Promise!Method("Close", None, FALSE, Tasks[c].err, f)
    <3>1. At(c, "idle")' = FALSE /\ call'[c].err = Tasks[c].err
      BY <2>1, TaskFields DEF At
    <3> QED  BY <2>1, <3>1 DEF View
  <2>3. Tasks' = [Tasks EXCEPT ![c] = View(c)']
    BY <2>1, TaskMoves
  <2>4. \A m \in Modules : Loading(m)' <=> Loading(m)
    BY <1>1, <2>1 DEF Loading, At
  <2>5. UNCHANGED <<Known, Usable, Tidy, closed>>
    BY <2>1, <2>4, RegistryStays
  <2>6. Promise!Collect(c)
    BY <1>2, <2>1, <2>2, <2>3, <2>5 DEF Promise!Collect
  <2> QED  BY <2>6
<1>4. CASE CloseRuntime(c)
  <2>1. /\ call[c].pc = "close.runtime" /\ closed' = TRUE /\ open' = {}
        /\ UNCHANGED <<plugins, hasCleanup, made, refused, cleanups>>
    BY <1>4 DEF CloseRuntime, At
  <2>2. PICK e \in BOOLEAN : Return(c, e)
    BY <1>4 DEF CloseRuntime
  <2>3. /\ \A d \in Callers \ {c} : call'[d] = call[d]
        /\ call'[c].pc = "idle" /\ call'[c].op = "Close"
        /\ call'[c].err = (call[c].err \/ e) /\ call'[c].found = call[c].found
    BY <1>1, <2>1, <2>2 DEF Return, Operations
  <2>4. View(c)' = Promise!Method("Close", None, TRUE, Tasks[c].err \/ e, Tasks[c].found)
    <3>1. At(c, "idle")' = TRUE /\ call'[c].err = (Tasks[c].err \/ e)
      BY <2>3, TaskFields DEF At
    <3>2. call'[c].found = Tasks[c].found
      BY <2>3, TaskFields
    <3> QED  BY <2>3, <3>1, <3>2 DEF View
  <2>5. Tasks' = [Tasks EXCEPT ![c] = View(c)']
    BY <2>3, TaskMoves
  <2>6. \A m \in Modules : Loading(m)' <=> Loading(m)
    BY <2>1, <2>3 DEF Loading, At
  <2>7. Known' = Known /\ Usable' = {} /\ Tidy' = Tidy
    <3>1. Known' = Known
      BY <2>1, <2>6 DEF Known, TypeOK
    <3> QED  BY <2>1, <3>1 DEF Usable, Tidy
  <2>8. ~ Tasks[c].err => Tasks[c].found \subseteq Tidy \ Usable
    <3> SUFFICES ASSUME ~ call[c].err, NEW m \in call[c].found
                 PROVE  m \in Tidy \ Usable
      BY TaskFields
    <3>1. Gone(m) /\ m \in Known
      BY <1>1, <2>1 DEF ManagerInv, CloseInv, FoundInv, Ahead
    <3> QED  BY <3>1 DEF Gone, Usable, Tidy
  <2>9. Promise!Shutdown(c, e)
    BY <1>2, <2>1, <2>4, <2>5, <2>7, <2>8 DEF Promise!Shutdown
  <2> QED  BY <2>9
<1> QED  BY <1>3, <1>4

\* Every step of a caller is a step of Registry, or is not seen.
LEMMA StepIsPromised ==
  ASSUME TypeOK, ManagerInv, NEW c \in Callers, Invoke(c) \/ Acquire(c) \/ Continue(c)
  PROVE  Promise!Next \/ UNCHANGED Promise!vars
<1>1. CASE Invoke(c)
  BY <1>1, InvokeBegins DEF Promise!Next
<1>2. CASE Acquire(c) \/ CloseNext(c)
  BY <1>2, QuietSteps
<1>3. CASE GetPlugin(c) \/ CallProcess(c)
  BY <1>3, CallSteps DEF Promise!Next
<1>4. CASE LoadPlugin(c) \/ InstantiateWithConfig(c) \/ ExportedFunctions(c)
  BY <1>4, LoadSteps DEF Promise!Next
<1>5. CASE UnloadPlugin(c) \/ CallCleanup(c) \/ CloseModule(c)
  BY <1>5, UnloadSteps DEF Promise!Next
<1>6. CASE CloseNames(c) \/ CloseRuntime(c)
  BY <1>6, CloseSteps DEF Promise!Next
<1> QED  BY <1>1, <1>2, <1>3, <1>4, <1>5, <1>6 DEF Continue

\* A plugin that was loaded once stays known.
LEMMA KnownGrows ==
  ASSUME TypeOK, ManagerInv, NEW c \in Callers, Invoke(c) \/ Acquire(c) \/ Continue(c)
  PROVE  Known \subseteq Known'
BY StepIsPromised
DEF Promise!Next, Promise!vars, Promise!Begin, Promise!Fail, Promise!Load, Promise!Call,
    Promise!CleanUp, Promise!Unload, Promise!Collect, Promise!Shutdown

\* Every step keeps what a Close has found among the plugins that were loaded.
LEMMA FoundKept ==
  ASSUME TypeOK, ManagerInv, NEW c \in Callers, Invoke(c) \/ Acquire(c) \/ Continue(c)
  PROVE  FoundInv'
<1>1. \A d \in Callers : call[d].found \subseteq Known
  BY DEF ManagerInv, FoundInv
<1>2. \A d \in Callers \ {c} : call'[d].found = call[d].found
  BY OthersWait
<1>3. Known \subseteq Known' /\ call \in [Callers -> Operations]
  BY KnownGrows DEF TypeOK
<1>4. call'[c].found \in {call[c].found, {}} \/ call'[c].found \subseteq Known
  <2>1. CASE CloseNames(c)
    <3>1. \A m \in {plugins[n] : n \in Names} \ {None} : m \in Known
      BY RegisteredIsKnown
    <3> QED  BY <2>1, <3>1, CloseNamesFacts
  <2>2. CASE CloseNext(c)
    BY <2>2, CloseNextFacts
  <2>3. CASE Invoke(c)
    BY <1>3, <2>3 DEF Invoke, Operation
  <2>4. CASE Acquire(c)
    BY <1>3, <2>4 DEF Acquire, Lock, RLock, Goto, Operations
  <2>5. CASE LoadPlugin(c) \/ ExportedFunctions(c)
    BY <1>3, <2>5 DEF LoadPlugin, ExportedFunctions, Goto, Return, Operations
  <2>6. CASE InstantiateWithConfig(c)
    BY <1>3, <2>6 DEF InstantiateWithConfig, Return, Operations
  <2>7. CASE UnloadPlugin(c) \/ CallCleanup(c) \/ CloseModule(c)
    BY <1>3, <2>7 DEF UnloadPlugin, CallCleanup, CloseModule, Goto, Return, Operations
  <2>8. CASE GetPlugin(c) \/ CallProcess(c) \/ CloseRuntime(c)
    BY <1>3, <2>8 DEF GetPlugin, CallProcess, CloseRuntime, Return, Operations
  <2> QED  BY <2>1, <2>2, <2>3, <2>4, <2>5, <2>6, <2>7, <2>8 DEF Continue
<1>5. call'[c].found \subseteq Known
  BY <1>1, <1>4
<1> QED  BY <1>1, <1>2, <1>3, <1>5 DEF FoundInv

-----------------------------------------------------------------------------
(* The invariant of every behaviour, and what follows from it.              *)

\* Nothing is loaded and nobody is at work.
LEMMA InitialInvariant ==
  ASSUME Init
  PROVE  TypeOK /\ ManagerInv
<1>1. TypeOK
  <2>1. Operation("none", "idle", None) \in Operations
    BY DEF Operation, Operations
  <2>2. call \in [Callers -> Operations]
    BY <2>1 DEF Init
  <2>3. ops \in [Callers -> 0 .. OpBound] /\ cleanups \in [Modules -> Nat]
    BY ManagerAssumption DEF Init
  <2>4. plugins \in [Names -> Modules \cup {None}]
    BY DEF Init
  <2>5. {open, hasCleanup, made, refused, unclosed} \subseteq SUBSET Modules
    BY DEF Init
  <2> QED  BY <2>2, <2>3, <2>4, <2>5 DEF Init, TypeOK
<1>2. \A c \in Callers : call[c] = Operation("none", "idle", None)
  BY DEF Init
<1>3. LockInv
  BY <1>2, ManagerAssumption DEF Init, LockInv, WriterLabels, Operation
<1>4. ModuleInv
  BY <1>2, ManagerAssumption DEF Init, ModuleInv, Registered, Loading, At, Operation
<1>5. HandsInv /\ MethodInv
  <2>1. Operation("none", "idle", None).pc = "idle"
    BY DEF Operation
  <2>2. \A c \in Callers : call[c].pc = "idle"
    BY <1>2, <2>1
  <2> QED  BY <2>2 DEF HandsInv, MethodInv, At, WriterLabels
<1>6. CloseInv
  BY <1>2 DEF CloseInv, Operation
<1>7. FoundInv
  <2>1. Operation("none", "idle", None).found = {}
    BY DEF Operation
  <2>2. \A c \in Callers : call[c].found = {}
    BY <1>2, <2>1
  <2> QED  BY <2>2 DEF FoundInv
<1> QED  BY <1>1, <1>3, <1>4, <1>5, <1>6, <1>7 DEF ManagerInv

\* A step of the environment that changes nothing.
LEMMA StutterKeeps ==
  ASSUME TypeOK, ManagerInv, UNCHANGED managerVars
  PROVE  TypeOK' /\ ManagerInv'
BY DEF managerVars, TypeOK, ManagerInv, LockInv, ModuleInv, MethodInv, HandsInv, CloseInv,
       FoundInv, Known, Ahead, Registered, Loading, Gone, At

\* The locks, the modules, and what every caller has in its hands go together,
\* for any number of callers, names and modules.
THEOREM ManagerInvariant == Spec => [](TypeOK /\ ManagerInv)
<1>1. Init => TypeOK /\ ManagerInv
  BY InitialInvariant
<1>2. (TypeOK /\ ManagerInv) /\ [Next]_managerVars => (TypeOK /\ ManagerInv)'
  BY TypesKept, LockKept, ModulesKept, MethodsKept, HandsKept, ClosesKept,
     FoundKept, StutterKeeps DEF Next, ManagerInv
<1> QED  BY <1>1, <1>2, PTL DEF Spec

\* Every variable of the manager keeps its type, and the lock has one writer or readers.
THEOREM ManagerTypeCorrect == Spec => []TypeOK
BY ManagerInvariant, PTL

\* A plugin that GetPlugin hands out is open, or an unload of it has met an error.
THEOREM PluginsAreOpen == Spec => []RegisteredIsOpen
<1>1. TypeOK /\ ManagerInv => RegisteredIsOpen
  BY DEF TypeOK, ManagerInv, ModuleInv, Registered, RegisteredIsOpen
<1> QED  BY <1>1, ManagerInvariant, PTL

\* No module is open that no name leads to, but one that is loading or was refused.
THEOREM OpenPluginsAreFound == Spec => []OpenIsRegistered
<1>1. TypeOK /\ ManagerInv => OpenIsRegistered
  BY DEF TypeOK, ManagerInv, ModuleInv, Registered, Loading, Gone, OpenIsRegistered
<1> QED  BY <1>1, ManagerInvariant, PTL

\* plugin_cleanup never succeeds twice on a module, whoever unloads it.
THEOREM CleanedUpOnce == Spec => []CleanupOnce
<1>1. ManagerInv => CleanupOnce
  BY DEF ManagerInv, ModuleInv, CleanupOnce
<1> QED  BY <1>1, ManagerInvariant, PTL

\* A Close without an error leaves none of the plugins it found open or not cleaned up.
THEOREM CloseIsComplete == Spec => []CloseCleansUp
<1>1. TypeOK /\ ManagerInv => CloseCleansUp
  <2> SUFFICES ASSUME TypeOK, ManagerInv, NEW c \in Callers,
                      call[c].pc = "idle", call[c].op = "Close", ~ call[c].err
               PROVE  \A m \in call[c].found : Gone(m)
    BY DEF CloseCleansUp, At, Gone
  <2>1. Ahead(c) = {}
    BY DEF ManagerInv, CloseInv, Ahead
  <2> QED  BY <2>1 DEF ManagerInv, CloseInv
<1> QED  BY <1>1, ManagerInvariant, PTL

\* The callers never all wait for the lock, however many there are: whoever holds it can
\* go on, a Close among them.
THEOREM LockIsNoDeadlock == Spec => []SomebodyGoesOn
<1>1. TypeOK /\ ManagerInv => SomebodyGoesOn
  <2> SUFFICES ASSUME TypeOK, LockInv, NEW c \in Callers, ~ At(c, "idle")
               PROVE  \E d \in Callers : ~ At(d, "idle") /\ ~ Waits(d)
    BY DEF SomebodyGoesOn, ManagerInv
  <2>1. CASE writer = None /\ readers = {}
    BY <2>1 DEF Waits
  <2>2. CASE writer # None
    <3>1. writer \in Callers /\ call[writer].pc \in WriterLabels
      BY <2>2 DEF TypeOK, LockInv
    <3> QED  BY <3>1 DEF Waits, At, WriterLabels
  <2>3. CASE readers # {}
    <3>1. PICK d \in readers : d \in Callers
      BY <2>3 DEF TypeOK
    <3>2. call[d].pc \in {"get", "close.names"}
      BY <3>1 DEF LockInv
    <3> QED  BY <3>1, <3>2 DEF Waits, At
  <2> QED  BY <2>1, <2>2, <2>3
<1> QED  BY <1>1, ManagerInvariant, PTL

\* A call succeeds only on the module its name stands for at that moment, though the
\* lock was released since the lookup.
THEOREM StaleCallsFail == Spec => StaleCallFails
<1>1. TypeOK /\ ManagerInv /\ [Next]_managerVars =>
        [\A c \in Callers :
           At(c, "call") /\ call'[c].pc = "idle" /\ ~ call'[c].err =>
             plugins[call[c].name] = call[c].mod]_managerVars
  <2> SUFFICES ASSUME TypeOK, ManagerInv, Next, NEW c \in Callers,
                      At(c, "call"), call'[c].pc = "idle", ~ call'[c].err
               PROVE  plugins[call[c].name] = call[c].mod
    OBVIOUS
  <2>1. call \in [Callers -> Operations] /\ call[c].pc = "call"
    BY DEF TypeOK, At
  <2>2. PICK d \in Callers : Invoke(d) \/ Acquire(d) \/ Continue(d)
    BY DEF Next
  <2>3. CASE d # c
    <3>1. call'[c] = call[c]
      <4>1. CASE CloseNames(d) \/ CloseNext(d)
        BY <2>3, <4>1, CloseNamesFacts, CloseNextFacts
      <4>2. CASE ~ (CloseNames(d) \/ CloseNext(d))
        BY <2>1, <2>2, <2>3, <4>2
        DEF Invoke, Acquire, Continue, Lock, RLock, LoadPlugin, InstantiateWithConfig,
            ExportedFunctions, UnloadPlugin, CallCleanup, CloseModule, GetPlugin,
            CallProcess, CloseRuntime, Goto, Return
      <4> QED  BY <4>1, <4>2
    <3> QED  BY <2>1, <3>1
  <2>4. CASE d = c
    <3>1. CallProcess(c)
      BY <2>1, <2>2, <2>4
      DEF Invoke, Acquire, Continue, Lock, RLock, LoadPlugin, InstantiateWithConfig,
          ExportedFunctions, UnloadPlugin, CallCleanup, CloseModule, GetPlugin,
          CloseNames, CloseNext, CloseRuntime, At
    <3>2. call[c].mod \in open
      BY <2>1, <3>1 DEF CallProcess, Return, Operations
    <3> QED  BY <2>1, <3>2 DEF ManagerInv, HandsInv, At
  <2> QED  BY <2>3, <2>4
<1> QED  BY <1>1, ManagerInvariant, PTL DEF Spec, StaleCallFails

\* The manager behaves as a registry whose methods take effect in one step each, for
\* any number of goroutines that use it.
THEOREM ManagerIsARegistry == Spec => RegistrySpec
<1>1. Init => Promise!Init
  <2> SUFFICES ASSUME Init
               PROVE  Promise!Init
    OBVIOUS
  <2>1. Known = {} /\ Usable = {} /\ Tidy = {}
    BY DEF Init, Known, Usable, Tidy
  <2>2. Tasks = [c \in Callers |-> Promise!Method("none", None, TRUE, FALSE, {})]
    <3>1. \A c \in Callers : /\ call[c].op = "none" /\ call[c].name = None
                             /\ At(c, "idle") = TRUE /\ call[c].err = FALSE
                             /\ call[c].found = {}
      BY DEF Init, Operation, At
    <3> QED  BY <3>1 DEF Tasks, Promise!Method
  <2> QED  BY <2>1, <2>2 DEF Init, Promise!Init
<1>2. TypeOK /\ ManagerInv /\ [Next]_managerVars => [Promise!Next]_Promise!vars
  <2> SUFFICES ASSUME TypeOK, ManagerInv, [Next]_managerVars
               PROVE  Promise!Next \/ UNCHANGED Promise!vars
    OBVIOUS
  <2>1. CASE Next
    BY <2>1, StepIsPromised DEF Next
  <2>2. CASE UNCHANGED managerVars
    BY <2>2 DEF managerVars, Promise!vars, Known, Usable, Tidy, Tasks, Loading, At
  <2> QED  BY <2>1, <2>2
<1> QED  BY <1>1, <1>2, ManagerInvariant, PTL DEF Spec, RegistrySpec, Promise!Spec
=============================================================================
