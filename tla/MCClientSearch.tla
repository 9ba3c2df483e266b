--------------------------- MODULE MCClientSearch ---------------------------
(***************************************************************************)
(* The search of the client for TLC: two servers of the list, asked one at *)
(* a time.                                                                 *)
(***************************************************************************)
EXTENDS ClientSearch

Begins ==
  /\ game = [servers |-> Server, maxUpdates |-> 1, basicFields |-> TRUE, challenge |-> FALSE,
              stayConnected |-> FALSE, deletes |-> FALSE, maxAux |-> 1]
  /\ SearchInit
MCSearchSpec ==
  /\ Begins /\ [][SearchNext]_searchVars
  /\ WF_searchVars(Updates)
  /\ WF_searchVars(Goes)
=============================================================================
