----------------------------- MODULE MCDuelRound -----------------------------
(***************************************************************************)
(* Instances of DuelRound for TLC.  The clock counts a handful of units:   *)
(* enough before "FIRE!" for two different fouls, and enough between it and*)
(* the limit for a hit (a kill at 0 units is reported as -1, a foul, and   *)
(* the unit of the limit itself is too late).                              *)
(***************************************************************************)
EXTENDS DuelRound

ASSUME BoundsLeaveRoom == FireTime >= 2 /\ Limit - FireTime >= 2
=============================================================================
