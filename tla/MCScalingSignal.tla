--------------------------- MODULE MCScalingSignal ---------------------------
(***************************************************************************)
(* An instance of ScalingSignal for TLC.                                   *)
(***************************************************************************)
EXTENDS ScalingSignal

CONSTANTS task, coder, shell, entry
=============================================================================
