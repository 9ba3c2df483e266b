----------------------------- MODULE RoundScore -----------------------------
(***************************************************************************)
(* What the result screen makes of a finished round: the tallies           *)
(* FinalViewController's initialiser keeps in GameCenterViewController     *)
(* (mutchNumber, mutchNumberWin, mutchNumberLose) from the two times it is *)
(* handed.  A time is the milliseconds from "FIRE" to the killing shot; 0  *)
(* stands for "no shot", FOLL for a foul.                                  *)
(***************************************************************************)
EXTENDS Integers

FOLL == 999999

Tally == [number : Nat, win : Nat, lose : Nat]

NoRounds == [number |-> 0, win |-> 0, lose |-> 0]

WinRound(s)  == [s EXCEPT !.win  = @ + 1, !.number = @ + 1]
LoseRound(s) == [s EXCEPT !.lose = @ + 1, !.number = @ + 1]

(***************************************************************************)
(* The initialiser runs three independent groups of tests on the user's    *)
(* time u and the opponent's time o, in this order; more than one may      *)
(* fire.                                                                   *)
(***************************************************************************)
ScoreFaster(s, u, o) ==
  IF u \notin {0, FOLL} /\ o # FOLL /\ u < o THEN WinRound(s)
  ELSE IF u = 0 /\ o \notin {0, FOLL} THEN LoseRound(s)
  ELSE s

ScoreSlower(s, u, o) ==
  IF o \notin {0, FOLL} /\ u # FOLL /\ u > o THEN LoseRound(s)
  ELSE IF u \notin {0, FOLL} /\ o = 0 THEN WinRound(s)
  ELSE s

ScoreMyFoul(s, u)       == IF u = FOLL THEN LoseRound(s) ELSE s
ScoreOpponentFoul(s, o) == IF o = FOLL THEN WinRound(s)  ELSE s

ScoreRound(s, u, o) ==
  LET faster == ScoreFaster(s, u, o)
      slower == ScoreSlower(faster, u, o)
      fouled == ScoreMyFoul(slower, u)
  IN  ScoreOpponentFoul(fouled, o)
=============================================================================
