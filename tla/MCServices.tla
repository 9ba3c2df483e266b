----------------------------- MODULE MCServices -----------------------------
(***************************************************************************)
(* The two parts of the program that work outside a match, for TLC: the    *)
(* game server and the account.  They share nothing; part says which of    *)
(* the two a behaviour is about, and the other stays as it begins.         *)
(***************************************************************************)
EXTENDS ServerLifecycle, AccountLedger

VARIABLE part
services == <<part, vars, ledger>>

\* A step of the game server, and a step of the account.
OfServer(A) == part = "server" /\ A /\ UNCHANGED <<part, ledger>>
OfAccount(A) == part = "account" /\ A /\ UNCHANGED <<part, vars>>

Begins == part \in {"server", "account"} /\ Init /\ LedgerInit
Moves == OfServer(Next) \/ OfAccount(LedgerNext)

\* With the fairness of ServerLifecycle.
Services ==
  /\ Begins /\ [][Moves]_services
  /\ WF_services(OfServer(Shuts(Main))) /\ WF_services(OfServer(Appear))
  /\ \A t \in Threads : WF_services(OfServer(ServerThread(t)))
-----------------------------------------------------------------------------
(***************************************************************************)
(* The types of both, that a player who calls cannot be found, and the     *)
(* invariants behind the theorems about them.                              *)
(***************************************************************************)
ServicesHold == TypeOK /\ CallerNotListed /\ LifecycleInv /\ LedgerTypeOK /\ LedgerInv
\* A player who is in no match is found again: see ServerLifecycle.
FoundAgain == []<>(part = "server" => CanBeFound)
=============================================================================
