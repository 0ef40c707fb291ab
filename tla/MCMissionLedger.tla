-------------------------- MODULE MCMissionLedger --------------------------
(* Instances of MissionLedger for TLC: up to three Assignments, a0 the one of *)
(* the first Lead; the .cfg files choose what may happen to which of them.    *)
EXTENDS MissionLedger

CONSTANTS a0, a1, a2
=============================================================================
