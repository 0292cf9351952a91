---------------------------- MODULE MCShowStats ----------------------------
(***************************************************************************)
(* ShowStats with values for TLC: two CPUs that count a few frames of two  *)
(* bytes while several lookups run.                                        *)
(***************************************************************************)
EXTENDS ShowStats
=============================================================================
