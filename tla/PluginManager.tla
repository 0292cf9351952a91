--------------------------- MODULE PluginManager ---------------------------
(***************************************************************************)
(* The registry of WASM plugins, pkg/plugin/manager.go: LoadPlugin,        *)
(* UnloadPlugin, CallPlugin and Close, under the manager's sync.RWMutex    *)
(* and over the wazero runtime.  The command xdperf is one caller that     *)
(* loads, calls and closes; the lock is there for several, and so are the  *)
(* callers here.                                                           *)
(*                                                                         *)
(* A module is an instance of a WASM binary in the runtime.  What goes on  *)
(* in its memory during a call is the subject of PluginCall.               *)
(***************************************************************************)
EXTENDS Naturals

CONSTANTS
  Callers,   \* the goroutines that use the manager
  Names,     \* plugin names
  Modules,   \* the instances the runtime may make (bounds the loads, for TLC)
  None,      \* no caller, no name, no module
  OpBound    \* bound on the operations of each caller

ASSUME ManagerAssumption ==
  /\ None \notin Callers \cup Names \cup Modules
  /\ OpBound \in Nat

VARIABLES
  plugins,     \* m.plugins: name -> module, None where the map has no entry
  writer,      \* the caller that holds m.mu, or None
  readers,     \* the callers that hold it for reading
  open,        \* the modules that are open in the runtime
  closed,      \* the runtime is closed
  hasCleanup,  \* the modules that export plugin_cleanup
  call,        \* caller -> its operation, or the last one it has finished
  ops,         \* caller -> how many operations it has begun
  made,        \* history: the modules that were instantiated
  refused,     \* history: the modules LoadPlugin has made and then rejected
  unclosed,    \* history: the modules whose Close has answered with an error
  cleanups     \* history: module -> how often its plugin_cleanup has succeeded

lockVars == <<writer, readers>>
runtimeVars == <<open, closed, hasCleanup>>
historyVars == <<made, refused, unclosed, cleanups>>
managerVars == <<plugins, lockVars, runtimeVars, call, ops, historyVars>>

\* An operation: where it is (pc), the name and the module in its hands, for Close
\* the names it still has to unload and the modules it found, and err, whether it
\* has seen an error.
Operation(o, p, n) ==
  [op |-> o, pc |-> p, name |-> n, mod |-> None, todo |-> {}, found |-> {}, err |-> FALSE]

Operations ==
  [op : {"none", "LoadPlugin", "UnloadPlugin", "CallPlugin", "Close"},
   pc : {"idle", "lock", "rlock", "load", "load.instantiate", "load.exports", "unload",
         "unload.cleanup", "unload.close", "get", "call", "close.names", "close.next",
         "close.runtime"},
   name : Names \cup {None}, mod : Modules \cup {None}, todo : SUBSET Names,
   found : SUBSET Modules, err : BOOLEAN]

Init ==
  /\ plugins = [n \in Names |-> None]
  /\ writer = None
  /\ readers = {}
  /\ open = {}
  /\ closed = FALSE
  /\ hasCleanup = {}
  /\ call = [c \in Callers |-> Operation("none", "idle", None)]
  /\ ops = [c \in Callers |-> 0]
  /\ made = {}
  /\ refused = {}
  /\ unclosed = {}
  /\ cleanups = [m \in Modules |-> 0]

At(c, l) == call[c].pc = l
Goto(c, l) == call' = [call EXCEPT ![c].pc = l]

\* The method returns: to its caller, or to the loop of Close.
Return(c, e) ==
  call' = [call EXCEPT ![c].pc = IF @ # "close.runtime" /\ call[c].op = "Close"
                                 THEN "close.next" ELSE "idle",
                       ![c].err = @ \/ e, ![c].mod = None]

-----------------------------------------------------------------------------
(* Beginning, and m.mu.  That a waiting writer also holds up new readers   *)
(* is left out: no goroutine takes the lock twice, so it only delays them. *)

Invoke(c) ==
  /\ At(c, "idle")
  /\ ops[c] < OpBound
  /\ ops' = [ops EXCEPT ![c] = @ + 1]
  /\ \/ \E o \in {"LoadPlugin", "UnloadPlugin"}, n \in Names :
          call' = [call EXCEPT ![c] = Operation(o, "lock", n)]
     \/ \E n \in Names : call' = [call EXCEPT ![c] = Operation("CallPlugin", "rlock", n)]
     \/ call' = [call EXCEPT ![c] = Operation("Close", "rlock", None)]
  /\ UNCHANGED <<plugins, lockVars, runtimeVars, historyVars>>

\* Mutant: readers do not keep a writer out.
Lock_pastReaders(c) ==
  /\ At(c, "lock")
  /\ writer = None
  /\ writer' = c
  /\ Goto(c, IF call[c].op = "LoadPlugin" THEN "load" ELSE "unload")
  /\ UNCHANGED <<plugins, readers, runtimeVars, ops, historyVars>>

Lock(c) ==
  /\ At(c, "lock")
  /\ writer = None
  /\ readers = {}
  /\ writer' = c
  /\ Goto(c, IF call[c].op = "LoadPlugin" THEN "load" ELSE "unload")
  /\ UNCHANGED <<plugins, readers, runtimeVars, ops, historyVars>>

RLock(c) ==
  /\ At(c, "rlock")
  /\ writer = None
  /\ readers' = readers \cup {c}
  /\ Goto(c, IF call[c].op = "Close" THEN "close.names" ELSE "get")
  /\ UNCHANGED <<plugins, writer, runtimeVars, ops, historyVars>>

Unlock == writer' = None /\ UNCHANGED readers
RUnlock(c) == readers' = readers \ {c} /\ UNCHANGED writer

-----------------------------------------------------------------------------
(* LoadPlugin, with the lock held from its first line to its last.         *)

\* A plugin that is loaded already is refused; so is a file that cannot be read.
LoadPlugin(c) ==
  /\ At(c, "load")
  /\ \/ Return(c, TRUE) /\ Unlock
     \/ plugins[call[c].name] = None /\ Goto(c, "load.instantiate") /\ UNCHANGED lockVars
  /\ UNCHANGED <<plugins, runtimeVars, ops, historyVars>>

\* A module that was not made yet.  Which one does not matter.
Fresh == CHOOSE m \in Modules : m \notin made

\* A closed runtime makes no module.
InstantiateWithConfig(c) ==
  /\ At(c, "load.instantiate")
  /\ \/ /\ Return(c, TRUE)
        /\ Unlock
        /\ UNCHANGED <<open, hasCleanup, made>>
     \/ /\ ~ closed
        /\ made # Modules
        /\ open' = open \cup {Fresh}
        /\ made' = made \cup {Fresh}
        /\ hasCleanup' \in {hasCleanup, hasCleanup \cup {Fresh}}
        /\ call' = [call EXCEPT ![c].mod = Fresh, ![c].pc = "load.exports"]
        /\ UNCHANGED lockVars
  /\ UNCHANGED <<plugins, closed, ops, refused, unclosed, cleanups>>

\* A module that lacks malloc, free, plugin_init or plugin_process is refused, and
\* stays open; any other is registered.
ExportedFunctions(c) ==
  /\ At(c, "load.exports")
  /\ \/ /\ Return(c, TRUE)
        /\ refused' = refused \cup {call[c].mod}
        /\ UNCHANGED plugins
     \/ /\ Return(c, FALSE)
        /\ plugins' = [plugins EXCEPT ![call[c].name] = call[c].mod]
        /\ UNCHANGED refused
  /\ Unlock
  /\ UNCHANGED <<runtimeVars, ops, made, unclosed, cleanups>>

-----------------------------------------------------------------------------
(* UnloadPlugin, with the lock held throughout.                            *)

\* Mutant: the lock is let go before the plugin's own code is called.
UnloadPlugin_unlocked(c) ==
  LET m == plugins[call[c].name]
  IN /\ At(c, "unload")
     /\ \/ m = None /\ Return(c, TRUE)
        \/ m # None /\ call' = [call EXCEPT ![c].mod = m, ![c].pc = "unload.cleanup"]
     /\ Unlock
     /\ UNCHANGED <<plugins, runtimeVars, ops, historyVars>>

UnloadPlugin(c) ==
  LET m == plugins[call[c].name]
  IN /\ At(c, "unload")
     /\ \/ m = None /\ Return(c, TRUE) /\ Unlock
        \/ /\ m # None
           /\ call' = [call EXCEPT ![c].mod = m, ![c].pc = "unload.cleanup"]
           /\ UNCHANGED lockVars
     /\ UNCHANGED <<plugins, runtimeVars, ops, historyVars>>

\* Mutant: the error of plugin_cleanup is not reported.
CallCleanup_errorLost(c) ==
  LET m == call[c].mod
  IN /\ At(c, "unload.cleanup")
     /\ \/ m \notin hasCleanup /\ Goto(c, "unload.close") /\ UNCHANGED <<lockVars, cleanups>>
        \/ m \in hasCleanup /\ Return(c, FALSE) /\ Unlock /\ UNCHANGED cleanups
        \/ /\ m \in hasCleanup \cap open
           /\ Goto(c, "unload.close")
           /\ cleanups' = [cleanups EXCEPT ![m] = @ + 1]
           /\ UNCHANGED lockVars
     /\ UNCHANGED <<plugins, runtimeVars, ops, made, refused, unclosed>>

\* plugin_cleanup is optional.  When it fails nothing more is done; the functions
\* of a closed module always fail.
CallCleanup(c) ==
  LET m == call[c].mod
  IN /\ At(c, "unload.cleanup")
     /\ \/ m \notin hasCleanup /\ Goto(c, "unload.close") /\ UNCHANGED <<lockVars, cleanups>>
        \/ m \in hasCleanup /\ Return(c, TRUE) /\ Unlock /\ UNCHANGED cleanups
        \/ /\ m \in hasCleanup \cap open
           /\ Goto(c, "unload.close")
           /\ cleanups' = [cleanups EXCEPT ![m] = @ + 1]
           /\ UNCHANGED lockVars
     /\ UNCHANGED <<plugins, runtimeVars, ops, made, refused, unclosed>>

\* Mutant: the entry is deleted whether or not the module is closed.
CloseModule_deleteOnly(c) ==
  /\ At(c, "unload.close")
  /\ Return(c, FALSE)
  /\ plugins' = [plugins EXCEPT ![call[c].name] = None]
  /\ Unlock
  /\ UNCHANGED <<runtimeVars, ops, historyVars>>

\* Mutant: the entry is not deleted.
CloseModule_entryKept(c) ==
  LET m == call[c].mod
  IN /\ At(c, "unload.close")
     /\ open' = open \ {m}
     /\ \/ Return(c, FALSE) /\ UNCHANGED unclosed
        \/ m \in open /\ Return(c, TRUE) /\ unclosed' = unclosed \cup {m}
     /\ Unlock
     /\ UNCHANGED <<plugins, closed, hasCleanup, ops, made, refused, cleanups>>

\* module.Close closes the module even when it answers with an error, and then the
\* entry stays; closing it once more is no error.
CloseModule(c) ==
  LET m == call[c].mod
  IN /\ At(c, "unload.close")
     /\ open' = open \ {m}
     /\ \/ /\ Return(c, FALSE)
           /\ plugins' = [plugins EXCEPT ![call[c].name] = None]
           /\ UNCHANGED unclosed
        \/ /\ m \in open
           /\ Return(c, TRUE)
           /\ unclosed' = unclosed \cup {m}
           /\ UNCHANGED plugins
     /\ Unlock
     /\ UNCHANGED <<closed, hasCleanup, ops, made, refused, cleanups>>

-----------------------------------------------------------------------------
(* CallPlugin: GetPlugin under the read lock, then the call without it.    *)
(* InitPlugin does the same.  ListPlugins only reads, as Close does first. *)

GetPlugin(c) ==
  LET m == plugins[call[c].name]
  IN /\ At(c, "get")
     /\ \/ m = None /\ Return(c, TRUE)
        \/ m # None /\ call' = [call EXCEPT ![c].mod = m, ![c].pc = "call"]
     /\ RUnlock(c)
     /\ UNCHANGED <<plugins, runtimeVars, ops, historyVars>>

\* CallProcess, in one step: the last call it makes into the guest.  That call fails
\* on a module that is closed by then; the copy of the output after it cannot fail.
CallProcess(c) ==
  /\ At(c, "call")
  /\ \/ Return(c, TRUE)
     \/ call[c].mod \in open /\ Return(c, FALSE)
  /\ UNCHANGED <<plugins, lockVars, runtimeVars, ops, historyVars>>

-----------------------------------------------------------------------------
(* Close: the names are collected under the read lock, the plugins are     *)
(* unloaded one by one, and the runtime is closed.                         *)

\* Mutant: the read lock is kept, for a deferred RUnlock.
CloseNames_deferred(c) ==
  /\ At(c, "close.names")
  /\ call' = [call EXCEPT ![c].todo = {n \in Names : plugins[n] # None},
                          ![c].found = {plugins[n] : n \in Names} \ {None},
                          ![c].pc = "close.next"]
  /\ UNCHANGED <<plugins, lockVars, runtimeVars, ops, historyVars>>

CloseNames(c) ==
  /\ At(c, "close.names")
  /\ call' = [call EXCEPT ![c].todo = {n \in Names : plugins[n] # None},
                          ![c].found = {plugins[n] : n \in Names} \ {None},
                          ![c].pc = "close.next"]
  /\ RUnlock(c)
  /\ UNCHANGED <<plugins, runtimeVars, ops, historyVars>>

\* The next name, in the order of a Go map: any.
CloseNext(c) ==
  /\ At(c, "close.next")
  /\ \/ \E n \in call[c].todo :
          call' = [call EXCEPT ![c].todo = @ \ {n}, ![c].name = n, ![c].pc = "lock"]
     \/ call[c].todo = {} /\ Goto(c, "close.runtime")
  /\ UNCHANGED <<plugins, lockVars, runtimeVars, ops, historyVars>>

\* Every module that is still open is closed with the runtime.
CloseRuntime(c) ==
  /\ At(c, "close.runtime")
  /\ closed' = TRUE
  /\ open' = {}
  /\ \/ Return(c, FALSE)
     \/ ~ closed /\ Return(c, TRUE)
  /\ UNCHANGED <<plugins, lockVars, hasCleanup, ops, historyVars>>

-----------------------------------------------------------------------------

Acquire(c) == Lock(c) \/ RLock(c)

Continue(c) ==
  \/ LoadPlugin(c) \/ InstantiateWithConfig(c) \/ ExportedFunctions(c)
  \/ UnloadPlugin(c) \/ CallCleanup(c) \/ CloseModule(c)
  \/ GetPlugin(c) \/ CallProcess(c)
  \/ CloseNames(c) \/ CloseNext(c) \/ CloseRuntime(c)

Next == \E c \in Callers : Invoke(c) \/ Acquire(c) \/ Continue(c)

\* A goroutine that can run does.  Go's mutexes keep no waiter out for ever.
Fairness ==
  \A c \in Callers : WF_managerVars(Continue(c)) /\ SF_managerVars(Acquire(c))

Spec == Init /\ [][Next]_managerVars /\ Fairness

-----------------------------------------------------------------------------
(* Properties                                                              *)

\* Types, and what the lock allows: one writer and no reader, or readers only.
TypeOK ==
  /\ plugins \in [Names -> Modules \cup {None}]
  /\ writer \in Callers \cup {None}
  /\ readers \subseteq Callers
  /\ writer = None \/ readers = {}
  /\ {open, hasCleanup, made, refused, unclosed} \subseteq SUBSET Modules
  /\ closed \in BOOLEAN
  /\ call \in [Callers -> Operations]
  /\ ops \in [Callers -> 0 .. OpBound]
  /\ cleanups \in [Modules -> Nat]

\* Until the manager is closed, GetPlugin hands out a plugin that can be called: the
\* module is open, unless an unload has closed it and met an error.
RegisteredIsOpen ==
  ~ closed => \A n \in Names : plugins[n] \in open \cup unclosed \cup {None}

\* A module that is open can be reached by its name, so that it can be unloaded: no
\* two are loaded under one name, none survives its entry.  The exceptions are one
\* that is just being loaded and those LoadPlugin has refused: these it never closes.
OpenIsRegistered ==
  \A m \in open :
    \/ \E n \in Names : plugins[n] = m
    \/ \E c \in Callers : At(c, "load.exports") /\ call[c].mod = m
    \/ m \in refused

\* plugin_cleanup never succeeds twice on one module, however many callers unload it
\* and close the manager.
CleanupOnce == \A m \in Modules : cleanups[m] <= 1

\* A Close that reports no error has left nothing behind: every plugin it found was
\* closed, after its plugin_cleanup if it has one, by whoever got to it first.
CloseCleansUp ==
  \A c \in Callers :
    At(c, "idle") /\ call[c].op = "Close" /\ ~ call[c].err =>
      /\ call[c].found \cap open = {}
      /\ \A m \in call[c].found \cap hasCleanup : cleanups[m] = 1

\* CallPlugin uses the plugin after it has let go of the lock.  If it was unloaded or
\* replaced meanwhile the call fails; it never succeeds on a module that is not the
\* one registered.
StaleCallFails ==
  [][\A c \in Callers :
       At(c, "call") /\ call'[c].pc = "idle" /\ ~ call'[c].err =>
         plugins[call[c].name] = call[c].mod]_managerVars

\* Every operation returns: no caller waits for the lock for ever, itself included.
EveryCallReturns == \A c \in Callers : ~ At(c, "idle") ~> At(c, "idle")

\* The part of it that needs no fairness: when some are at work, not all of them wait
\* for the lock. Its holder is never among those that wait.
Waits(c) ==
  \/ At(c, "lock") /\ (writer # None \/ readers # {})
  \/ At(c, "rlock") /\ writer # None

SomebodyGoesOn ==
  (\E c \in Callers : ~ At(c, "idle")) => \E c \in Callers : ~ At(c, "idle") /\ ~ Waits(c)

-----------------------------------------------------------------------------
(* The inductive invariant behind them (PluginManager_proofs.tla).         *)

WriterLabels ==
  {"load", "load.instantiate", "load.exports", "unload", "unload.cleanup", "unload.close"}

\* The label of a caller tells which lock it holds.
LockInv ==
  \A c \in Callers :
    /\ call[c].pc \in WriterLabels <=> writer = c
    /\ call[c].pc \in {"get", "close.names"} <=> c \in readers

Registered(m) == \E n \in Names : plugins[n] = m
Loading(m) == \E c \in Callers : At(c, "load.exports") /\ call[c].mod = m

\* The module was unloaded: it is closed, and its plugin_cleanup has succeeded.
Gone(m) == m \notin open /\ (m \in hasCleanup => cleanups[m] = 1)

\* The life of a module: it is loading, then refused or registered, under one name,
\* and then gone.
ModuleInv ==
  /\ closed => open = {}
  /\ \A n, k \in Names : plugins[n] = plugins[k] /\ plugins[n] # None => n = k
  /\ \A m \in Modules :
       /\ m \notin made =>
            ~ Registered(m) /\ ~ Loading(m) /\ m \notin refused \cup open \cup hasCleanup \cup unclosed
              /\ cleanups[m] = 0
       /\ m \in made => Registered(m) \/ Loading(m) \/ m \in refused \/ Gone(m)
       /\ Registered(m) => ~ Loading(m) /\ m \notin refused
       /\ Loading(m) => m \notin refused
       /\ ~ closed /\ Loading(m) => m \in open
       /\ ~ closed /\ Registered(m) => m \in open \cup unclosed
       /\ cleanups[m] <= 1
       /\ m \in open /\ cleanups[m] # 0 =>
            \E c \in Callers : At(c, "unload.close") /\ call[c].mod = m

\* The methods a label belongs to.
MethodInv ==
  \A c \in Callers :
    /\ call[c].pc \in {"load", "load.instantiate", "load.exports"} => call[c].op = "LoadPlugin"
    /\ call[c].pc \in {"unload", "unload.cleanup", "unload.close"} =>
         call[c].op \in {"UnloadPlugin", "Close"}
    /\ At(c, "lock") => call[c].op \in {"LoadPlugin", "UnloadPlugin", "Close"}

\* What a caller has in its hands at each label.
HandsInv ==
  \A c \in Callers :
    /\ call[c].pc \in WriterLabels \cup {"lock", "get", "call"} => call[c].name \in Names
    /\ At(c, "rlock") =>
         call[c].op = "Close" \/ (call[c].op = "CallPlugin" /\ call[c].name \in Names)
    /\ call[c].pc \in {"close.names", "close.next", "close.runtime"} => call[c].op = "Close"
    /\ call[c].pc \in {"get", "call"} => call[c].op = "CallPlugin"
    /\ call[c].pc \in {"load.instantiate", "load.exports"} => plugins[call[c].name] = None
    /\ At(c, "load.exports") => call[c].mod # None
    /\ call[c].pc \in {"unload.cleanup", "unload.close"} =>
         call[c].mod = plugins[call[c].name] /\ call[c].mod # None
    /\ At(c, "unload.close") /\ call[c].mod \in hasCleanup => cleanups[call[c].mod] = 1
    /\ At(c, "call") =>
         /\ call[c].mod \in made
         /\ call[c].mod \in open => plugins[call[c].name] = call[c].mod

\* The names a Close has still to unload, the one it is at included.
Ahead(c) ==
  call[c].todo \cup (IF call[c].pc \in {"lock", "unload", "unload.cleanup", "unload.close"}
                     THEN {call[c].name} ELSE {})

\* A Close without an error has each module it found still ahead, or it is gone.
CloseInv ==
  \A c \in Callers :
    call[c].op = "Close" =>
      /\ call[c].pc \in {"idle", "close.runtime"} => call[c].todo = {}
      /\ call[c].pc \in {"rlock", "close.names"} => call[c].found = {}
      /\ call[c].found \subseteq made
      /\ ~ call[c].err =>
           \A m \in call[c].found : Gone(m) \/ \E n \in Ahead(c) : plugins[n] = m

\* The modules that were registered at some time: a Close has found no others.
Known == {m \in made \ refused : ~ Loading(m)}
FoundInv == \A c \in Callers : call[c].found \subseteq Known

ManagerInv == LockInv /\ ModuleInv /\ MethodInv /\ HandsInv /\ CloseInv /\ FoundInv

-----------------------------------------------------------------------------
(* What the callers can rely on (Registry.tla).                            *)

\* Of the modules that were registered at some time, those that are open, and those that
\* have nothing to clean up or have done so.
Usable == open \cap Known
Tidy == {m \in Known : m \in hasCleanup => cleanups[m] # 0}

\* The operations, as the callers see them.
Tasks ==
  [c \in Callers |->
     [op |-> call[c].op, name |-> IF call[c].op = "Close" THEN None ELSE call[c].name,
      done |-> At(c, "idle"), err |-> call[c].err, found |-> call[c].found]]

Promise ==
  INSTANCE Registry
  WITH registry <- plugins, known <- Known, usable <- Usable, tidy <- Tidy,
       down <- closed, task <- Tasks

\* The manager behaves as a registry whose methods take effect in one step each: what
\* goes on in the others while one is under way is never to be seen in its answer.
RegistrySpec == Promise!Spec
=============================================================================
