------------------------------- MODULE MCRestart -------------------------------
(***************************************************************************)
(* Restart with a gate and a chute.                                        *)
(***************************************************************************)
EXTENDS Restart

CONSTANTS gate, chute

MCDevices == <<gate, chute>>
=============================================================================
