---------------------------- MODULE RoundContract ----------------------------
(***************************************************************************)
(* What a round promises the duel around it: each phone gets at most one   *)
(* result and keeps it, and as long as the exchange is clean (no phone has *)
(* reported two times) the second phone to get a result gets the opposite  *)
(* of the first's.  DuelRound implements this; DuelSession relies on it.   *)
(***************************************************************************)
EXTENDS Phones

VARIABLES
  outcome,  \* the round's result on each phone
  clean     \* no phone has reported two different times

vars == <<outcome, clean>>

Init ==
  /\ outcome = [p \in Phone |-> "none"]
  /\ clean = TRUE

\* Whether the exchange is clean only gets worse.
Soil == clean' \in BOOLEAN /\ (clean' => clean)

Settle(p) ==
  /\ outcome[p] = "none"
  /\ \E r \in Result \ {"none"} :
       /\ outcome' = [outcome EXCEPT ![p] = r]
       /\ clean' /\ outcome[Other(p)] # "none" => r = Opposite(outcome[Other(p)])
  /\ Soil

Next ==
  \/ \E p \in Phone : Settle(p)
  \/ Soil /\ UNCHANGED outcome

Spec == Init /\ [][Next]_vars
=============================================================================
