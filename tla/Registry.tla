------------------------------ MODULE Registry ------------------------------
(***************************************************************************)
(* What the plugin manager promises its callers, without the lock, the     *)
(* runtime and the steps in between: a method is begun, has its effect on  *)
(* the registry in one step, and has returned with that same step.  What a *)
(* caller can tell from the answers is what it could tell if nobody else   *)
(* were at work during that step.  Only two methods do more than one thing *)
(* that others can see: an unload cleans the plugin up before it removes   *)
(* it, and Close unloads one plugin after the other.                       *)
(* PluginManager.tla, the model of the code, implements it                 *)
(* (PluginManager_proofs.tla).                                             *)
(***************************************************************************)
EXTENDS Naturals

CONSTANTS
  Callers,  \* the goroutines that use the manager
  Names,    \* plugin names
  Modules,  \* the plugins there may be
  None      \* no name, no plugin

VARIABLES
  registry,  \* name -> the plugin loaded under it, or None
  known,     \* the plugins that were ever loaded
  usable,    \* those of them that can be called
  tidy,      \* those that have nothing to clean up, or have done so
  down,      \* a Close has been through: no plugin can be called
  task       \* caller -> its method, or the last one that has returned

vars == <<registry, known, usable, tidy, down, task>>

\* A method a caller has begun, or that has returned (done), with an error or without;
\* a Close knows the plugins that it has found.
Method(o, n, d, e, f) == [op |-> o, name |-> n, done |-> d, err |-> e, found |-> f]

Init ==
  /\ registry = [n \in Names |-> None]
  /\ known = {} /\ usable = {} /\ tidy = {}
  /\ down = FALSE
  /\ task = [c \in Callers |-> Method("none", None, TRUE, FALSE, {})]

Busy(c, ops) == ~ task[c].done /\ task[c].op \in ops

\* The method answers; inside a Close the answer of UnloadPlugin goes to Close,
\* which remembers an error and goes on.
Answer(c, e) ==
  LET t == task[c]
  IN task' = [task EXCEPT ![c] = Method(t.op, t.name, t.op # "Close", t.err \/ e, t.found)]

Begin(c, o, n) ==
  /\ task[c].done
  /\ IF o = "Close" THEN n = None
     ELSE o \in {"LoadPlugin", "UnloadPlugin", "CallPlugin"} /\ n \in Names
  /\ task' = [task EXCEPT ![c] = Method(o, n, FALSE, FALSE, {})]
  /\ UNCHANGED <<registry, known, usable, tidy, down>>

\* Any method may fail, and has then changed nothing.
Fail(c) ==
  /\ ~ task[c].done
  /\ Answer(c, TRUE)
  /\ UNCHANGED <<registry, known, usable, tidy, down>>

\* A plugin that was never loaded before is loaded under a name that is free.
Load(c, m) ==
  /\ Busy(c, {"LoadPlugin"})
  /\ registry[task[c].name] = None
  /\ m \in Modules \ known
  /\ registry' = [registry EXCEPT ![task[c].name] = m]
  /\ known' = known \cup {m}
  /\ usable' = IF down THEN usable ELSE usable \cup {m}
  /\ tidy' \in {tidy, tidy \cup {m}}
  /\ Answer(c, FALSE)
  /\ UNCHANGED down

\* A call succeeds on the plugin that is loaded under the name, and on no other.
Call(c) ==
  /\ Busy(c, {"CallPlugin"})
  /\ registry[task[c].name] \in usable
  /\ Answer(c, FALSE)
  /\ UNCHANGED <<registry, known, usable, tidy, down>>

Unloads(c, n) ==
  Busy(c, {"UnloadPlugin", "Close"}) /\ task[c].name \in {n, None} /\ registry[n] # None

\* A plugin that can be called and has something to clean up does so, once.
CleanUp(c, n) ==
  /\ Unloads(c, n)
  /\ registry[n] \in usable \ tidy
  /\ tidy' = tidy \cup {registry[n]}
  /\ UNCHANGED <<registry, known, usable, down, task>>

\* The plugin is closed, and either leaves the registry or stays there with an error.
Unload(c, n) ==
  /\ Unloads(c, n)
  /\ registry[n] \in tidy
  /\ usable' = usable \ {registry[n]}
  /\ \/ registry' = [registry EXCEPT ![n] = None] /\ Answer(c, FALSE)
     \/ registry[n] \in usable /\ Answer(c, TRUE) /\ UNCHANGED registry
  /\ UNCHANGED <<known, tidy, down>>

Collect(c) ==
  /\ Busy(c, {"Close"})
  /\ LET plugins == {registry[n] : n \in Names} \ {None}
     IN task' = [task EXCEPT ![c] = Method("Close", None, FALSE, task[c].err, plugins)]
  /\ UNCHANGED <<registry, known, usable, tidy, down>>

\* Close returns, and then no plugin can be called.  Without an error, those that it
\* has found were closed before, and cleaned up.
Shutdown(c, e) ==
  /\ Busy(c, {"Close"})
  /\ LET t == task[c]
     IN /\ ~ t.err => t.found \subseteq tidy \ usable
        /\ task' = [task EXCEPT ![c] = Method("Close", None, TRUE, t.err \/ e, t.found)]
  /\ usable' = {}
  /\ down' = TRUE
  /\ UNCHANGED <<registry, known, tidy>>

Next ==
  \E c \in Callers :
    \/ \E o \in {"LoadPlugin", "UnloadPlugin", "CallPlugin", "Close"},
          n \in Names \cup {None} : Begin(c, o, n)
    \/ Fail(c)
    \/ \E m \in Modules : Load(c, m)
    \/ Call(c)
    \/ \E n \in Names : CleanUp(c, n) \/ Unload(c, n)
    \/ Collect(c)
    \/ \E e \in BOOLEAN : Shutdown(c, e)

Spec == Init /\ [][Next]_vars
=============================================================================
