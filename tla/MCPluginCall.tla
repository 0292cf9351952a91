---------------------------- MODULE MCPluginCall ----------------------------
(***************************************************************************)
(* PluginCall with values for TLC.  The lengths keep the order of the real *)
(* ones: the output is shorter than the memory, which is less than half of *)
(* what a uint32 can count; the error codes are those of simpleudp.        *)
(***************************************************************************)
EXTENDS PluginCall

MCErrorCodes == -4 .. -1
=============================================================================
