-------------------------- MODULE MCDuelRoundOverLink --------------------------
(***************************************************************************)
(* Instances of DuelRoundOverLink for TLC, on clocks as short as           *)
(* MCDuelRound allows.                                                     *)
(***************************************************************************)
EXTENDS DuelRoundOverLink

ASSUME BoundsLeaveRoom == FireTime >= 2 /\ Limit - FireTime >= 2 /\ MaxFaults > 0
=============================================================================
