-------------------------- MODULE MCPluginManager --------------------------
(***************************************************************************)
(* PluginManager with values for TLC: two callers and two names, and       *)
(* enough modules for a plugin that is loaded, unloaded and loaded again.  *)
(***************************************************************************)
EXTENDS PluginManager
=============================================================================
