---------------------------- MODULE MCDuelSession ----------------------------
(* Instances of DuelSession: two players with $100 each. *)
EXTENDS DuelMatch

\* Behaviours in which nobody wins a round and only requests for another duel cross.
TriesOnly ==
  /\ \A p \in Phone : ph[p].tally.number = 0
  /\ mishaps \subseteq {"twoTries", "calledBack", "leftDuel"}

\* One duel with its rounds, and requests for others as long as nobody has won one.
Explored == tries = 0 \/ TriesOnly
=============================================================================
