-------------------------- MODULE MCMissionControl --------------------------
(***************************************************************************)
(* Instances of MissionControl for TLC.                                    *)
(***************************************************************************)
EXTENDS MissionControl

CONSTANTS loop, shell, build
=============================================================================
