------------------------------- MODULE Phones -------------------------------
(***************************************************************************)
(* The two phones of a duel and the results a round can have on them.      *)
(***************************************************************************)
EXTENDS Integers

Phone == {0, 1}
Other(p) == 1 - p

Result == {"none", "won", "lost", "even"}

\* The opponent's view of a result.
Opposite(r) == CASE r = "won" -> "lost" [] r = "lost" -> "won" [] OTHER -> r
=============================================================================
