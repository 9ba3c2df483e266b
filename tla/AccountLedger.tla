----------------------------- MODULE AccountLedger -----------------------------
(***************************************************************************)
(* What a player has earned, in three places: in memory (AccountData-      *)
(* Source), on disk (NSUserDefaults) and at the game's server.  Duels and  *)
(* the daily money are booked as transactions; a request reports the ones  *)
(* that are pending, and its answer clears them and brings the server's    *)
(* money.  Answers are collected in a buffer that is found by the last     *)
(* part of the address, one for "transactions" and one for "duels".        *)
(* Every transaction is worth one; the server, which is not part of this   *)
(* repository, adds whatever it receives.                                  *)
(***************************************************************************)
EXTENDS Naturals, FiniteSets, Sequences

CONSTANTS
  MaxItems,      \* bound on transactions, and on duels
  MaxRequests,   \* bound on requests
  MaxRestarts,   \* bound on restarts
  DuelsToReport  \* duels are reported when there are more than this (10 in the code)

LedgerAssumption ==
  {MaxItems, MaxRequests, MaxRestarts, DuelsToReport} \subseteq Nat

Kinds == {"transactions", "duels"}
Items == 1..MaxItems
NoBuffer == [there |-> FALSE, holds |-> <<>>]

VARIABLES
  mem,       \* money, pending transactions, duels: gone with the process
  disk,      \* money, and the duels saved
  booked,    \* how many transactions and duels there have been
  won,       \* a duel whose money is paid but which is not booked yet
  requests,  \* what is under way, by the number of the request
  buffer,    \* dicForRequests
  remote,    \* the game's server: its money, and how often it counted each item
  restarts,
  mishap     \* history: "overlap": two requests to one address under way; "added": a
             \* transaction booked, "paid": a duel paid and not booked while an answer was
             \* on its way; "failed": a request failed; "restart": one with something pending

ledger == <<mem, disk, booked, won, requests, buffer, remote, restarts, mishap>>

LedgerInit ==
  /\ mem = [money |-> 0, transactions |-> {}, duels |-> {}]
  /\ disk = [money |-> 0, duels |-> {}]
  /\ booked = [k \in Kinds |-> 0]
  /\ won = FALSE
  /\ requests = <<>>
  /\ buffer = [k \in Kinds |-> NoBuffer]
  /\ remote = [money |-> 0, counted |-> [k \in Kinds |-> [i \in Items |-> 0]]]
  /\ restarts = 0
  /\ mishap = {}

\* The requests the process still waits for.
UnderWay(k) == {r \in DOMAIN requests : requests[r].kind = k /\ requests[r].place \notin {"done", "gone"}}

-----------------------------------------------------------------------------
(***************************************************************************)
(* Requests: sendTransactions and sendDuels replace the buffer of their    *)
(* address by an empty one.                                                *)
(***************************************************************************)
Request(k, items) == [kind |-> k, items |-> items, place |-> "sent", money |-> 0]
Reports(some) == requests' = requests \o some /\ Len(requests) + Len(some) <= MaxRequests

FreshBuffers(kinds) ==
  buffer' = [k \in Kinds |-> IF k \in kinds THEN [there |-> TRUE, holds |-> <<>>] ELSE buffer[k]]

Overlap(kinds) == IF \E k \in kinds : UnderWay(k) # {} THEN {"overlap"} ELSE {}
Added == IF UnderWay("transactions") # {} THEN {"added"} ELSE {}

Paid(yes) == IF yes THEN {"paid"} ELSE {}

-----------------------------------------------------------------------------
\* A duel ends: FinalViewController pays, on disk as well.
PayDuel ==
  /\ ~won /\ booked.transactions < MaxItems /\ booked.duels < MaxItems
  /\ won' = TRUE
  /\ mem' = [mem EXCEPT !.money = @ + 1]
  /\ disk' = [disk EXCEPT !.money = mem.money + 1]
  /\ mishap' = mishap \union Paid(UnderWay("transactions") # {})
  /\ UNCHANGED <<booked, requests, buffer, remote, restarts>>

(***************************************************************************)
(* lastScene books it.  The duels are archived into the array of the       *)
(* transactions, and the array saved as the duels stays empty.             *)
(***************************************************************************)
DuelsArchived == {}

BookDuel ==
  LET t == booked.transactions + 1
      d == booked.duels + 1
      duels == mem.duels \union {d}
      kinds == {"transactions"} \union IF Cardinality(duels) > DuelsToReport THEN {"duels"} ELSE {}
  IN
  /\ won /\ won' = FALSE
  /\ booked' = [transactions |-> t, duels |-> d]
  /\ mem' = [mem EXCEPT !.transactions = @ \union {t}, !.duels = duels]
  /\ disk' = [money |-> mem.money, duels |-> DuelsArchived]
  /\ Reports(<<Request("transactions", mem.transactions \union {t})>>
             \o IF "duels" \in kinds THEN <<Request("duels", duels)>> ELSE <<>>)
  /\ FreshBuffers(kinds)
  /\ mishap' = mishap \union Overlap(kinds) \union Added
  /\ UNCHANGED <<remote, restarts>>

\* checkFor10Dolars books a transaction and reports nothing; the money is not saved.
DailyMoney ==
  /\ booked.transactions + (IF won THEN 1 ELSE 0) < MaxItems
  /\ booked' = [booked EXCEPT !.transactions = @ + 1]
  /\ mem' = [mem EXCEPT !.money = @ + 1, !.transactions = @ \union {booked.transactions + 1}]
  /\ mishap' = mishap \union Added
  /\ UNCHANGED <<disk, won, requests, buffer, remote, restarts>>

\* The answer to authorization: the pending transactions are reported.
Authorized ==
  /\ Reports(<<Request("transactions", mem.transactions)>>)
  /\ FreshBuffers({"transactions"})
  /\ mishap' = mishap \union Overlap({"transactions"}) \union Paid(won)
  /\ UNCHANGED <<mem, disk, booked, won, remote, restarts>>

-----------------------------------------------------------------------------
(***************************************************************************)
(* The life of a request                                                   *)
(***************************************************************************)
At(r, place) == r \in DOMAIN requests /\ requests[r].place = place

\* A request its process no longer waits for may still reach the server.
Serve(r) ==
  LET k == requests[r].kind
      total == remote.money + IF k = "transactions" THEN Cardinality(requests[r].items) ELSE 0 IN
  /\ At(r, "sent") \/ At(r, "gone")
  /\ remote' = [money |-> total,
                counted |-> [remote.counted EXCEPT ![k] =
                  [i \in Items |-> @[i] + IF i \in requests[r].items THEN 1 ELSE 0]]]
  /\ requests' = [requests EXCEPT ![r].place = IF @ = "sent" THEN "served" ELSE "done", ![r].money = total]
  /\ UNCHANGED <<mem, disk, booked, won, buffer, restarts, mishap>>

\* didReceiveData: to whichever buffer has the address, or to none.
ReceiveData(r) ==
  LET k == requests[r].kind IN
  /\ At(r, "served")
  /\ requests' = [requests EXCEPT ![r].place = "received"]
  /\ buffer' = IF buffer[k].there THEN [buffer EXCEPT ![k].holds = Append(@, r)] ELSE buffer
  /\ UNCHANGED <<mem, disk, booked, won, remote, restarts, mishap>>

\* The buffer holds one answer; two in a row, or nothing, is not JSON.
Understood(k) == Len(buffer[k].holds) = 1

ClearTransactions(answer) ==
  /\ mem' = [mem EXCEPT !.money = answer.money, !.transactions = {}]
  /\ disk' = [disk EXCEPT !.money = answer.money]

\* connectionDidFinishLoading: the buffer at the address is read and removed.
FinishLoading(r) ==
  LET k == requests[r].kind IN
  /\ At(r, "received")
  /\ requests' = [requests EXCEPT ![r].place = "done"]
  /\ buffer' = [buffer EXCEPT ![k] = NoBuffer]
  /\ IF ~Understood(k) THEN UNCHANGED <<mem, disk>>
     ELSE IF k = "duels" THEN disk' = [disk EXCEPT !.duels = {}] /\ UNCHANGED mem
     ELSE ClearTransactions(requests[buffer[k].holds[1]])
  /\ UNCHANGED <<booked, won, remote, restarts, mishap>>

Left(place) == IF place \in {"sent", "gone"} THEN "gone" ELSE "done"

\* Seeded fault: a failed request clears what it should have reported.
FailClears(r) ==
  /\ \E place \in {"sent", "served", "received"} : At(r, place)
  /\ requests' = [requests EXCEPT ![r].place = Left(@)]
  /\ mem' = [mem EXCEPT !.transactions = @ \ requests[r].items]
  /\ mishap' = mishap \union {"failed"}
  /\ UNCHANGED <<disk, booked, won, buffer, remote, restarts>>

\* didFailWithError, before or after the server has seen the request.
Fail(r) ==
  /\ \E place \in {"sent", "served", "received"} : At(r, place)
  /\ requests' = [requests EXCEPT ![r].place = Left(@)]
  /\ mishap' = mishap \union {"failed"}
  /\ UNCHANGED <<mem, disk, booked, won, buffer, remote, restarts>>

-----------------------------------------------------------------------------
\* Seeded fault: the money starts again from nothing.
NoMoney == 0

SavedMoney == disk.money

(***************************************************************************)
(* The process ends at any moment and is launched again.  The saved trans- *)
(* actions are removed before they are read.                               *)
(***************************************************************************)
Relaunch ==
  /\ restarts < MaxRestarts /\ restarts' = restarts + 1
  /\ mem' = [money |-> SavedMoney, transactions |-> {}, duels |-> disk.duels]
  /\ won' = FALSE
  /\ requests' = [r \in DOMAIN requests |-> [requests[r] EXCEPT !.place = Left(@)]]
  /\ buffer' = [k \in Kinds |-> NoBuffer]
  /\ mishap' = mishap \union IF won \/ mem.transactions # {} THEN {"restart"} ELSE {}
  /\ UNCHANGED <<disk, booked, remote>>

-----------------------------------------------------------------------------
Answering(r) == Serve(r) \/ ReceiveData(r) \/ FinishLoading(r) \/ Fail(r)

LedgerNext ==
  \/ PayDuel \/ BookDuel \/ DailyMoney \/ Authorized \/ Relaunch
  \/ \E r \in DOMAIN requests : Answering(r)

LedgerSpec == LedgerInit /\ [][LedgerNext]_ledger
-----------------------------------------------------------------------------
Places == {"sent", "served", "received", "done", "gone"}

LedgerTypeOK ==
  /\ mem \in [money : Nat, transactions : SUBSET Items, duels : SUBSET Items]
  /\ disk \in [money : Nat, duels : SUBSET Items]
  /\ booked \in [Kinds -> 0..MaxItems]
  /\ won \in BOOLEAN
  /\ requests \in Seq([kind : Kinds, items : SUBSET Items, place : Places, money : Nat])
  /\ buffer \in [Kinds -> [there : BOOLEAN, holds : Seq(DOMAIN requests)]]
  /\ remote \in [money : Nat, counted : [Kinds -> [Items -> Nat]]]
  /\ restarts \in 0..MaxRestarts
  /\ mishap \subseteq {"overlap", "added", "failed", "restart", "paid"}

Counted(k, i) == remote.counted[k][i]

(***************************************************************************)
(* A transaction is pending or has been counted, whatever requests fail or *)
(* overlap, unless it was pending at a restart or was booked while an      *)
(* answer, which clears all that is pending, was on its way.               *)
(***************************************************************************)
NothingForgotten ==
  mishap \intersect {"restart", "added"} = {} =>
    \A t \in 1..booked.transactions : t \in mem.transactions \/ Counted("transactions", t) > 0

(***************************************************************************)
(* The server counts a transaction once, whatever restarts and bookings    *)
(* come between, unless a request failed or two were under way.            *)
(***************************************************************************)
CountedOnce ==
  mishap \intersect {"overlap", "failed"} = {} => \A t \in Items : Counted("transactions", t) <= 1

\* What is kept of the transactions, while what can go wrong with it has not.
TransactionsKept == NothingForgotten /\ CountedOnce

(***************************************************************************)
(* Without a mishap the player has all the money that was earned, and when *)
(* nothing is pending memory, disk and server agree on it.                 *)
(***************************************************************************)
MoneyAgrees ==
  mishap = {} =>
    /\ mem.money = booked.transactions + IF won THEN 1 ELSE 0
    /\ (mem.transactions = {} /\ UnderWay("transactions") = {} /\ ~won) =>
         mem.money = remote.money /\ disk.money = remote.money

(***************************************************************************)
(* Why.  What is booked has a number of its own, and what was served is    *)
(* counted.  While nothing is added during a request, it reports all that  *)
(* its answer will clear.  While requests do not overlap or fail, what is  *)
(* still to be served is counted nowhere and reported once.  Without a     *)
(* mishap the server lacks exactly what is pending.                        *)
(***************************************************************************)
Served(r) == requests[r].place \in {"served", "received"}
Unserved(r) == requests[r].place \in {"sent", "gone"}
Transactions == {r \in DOMAIN requests : requests[r].kind = "transactions"}

BookedInv ==
  /\ won => booked.transactions < MaxItems /\ booked.duels < MaxItems
  /\ mem.transactions \subseteq 1..booked.transactions
  /\ \A r \in Transactions : requests[r].items \subseteq 1..booked.transactions
  /\ \A i \in Items : Counted("transactions", i) > 0 => i <= booked.transactions

KeptInv ==
  /\ \A r \in Transactions : Served(r) => \A i \in requests[r].items : Counted("transactions", i) > 0
  /\ mishap \intersect {"restart", "added"} = {} =>
       /\ \A t \in 1..booked.transactions : t \in mem.transactions \/ Counted("transactions", t) > 0
       /\ \A r \in UnderWay("transactions") : mem.transactions \subseteq requests[r].items

OneAnswer ==
  /\ \A r, q \in UnderWay("transactions") : r = q
  /\ \A r \in UnderWay("transactions") :
       /\ requests[r].place = "received" => buffer["transactions"].holds = <<r>>
       /\ requests[r].place # "received" => buffer["transactions"] = [there |-> TRUE, holds |-> <<>>]

Fresh ==
  /\ \A i \in Items : Counted("transactions", i) <= 1
  /\ \A r \in Transactions : Unserved(r) => \A i \in requests[r].items : Counted("transactions", i) = 0
  /\ \A r, q \in Transactions :
       r # q /\ Unserved(r) /\ Unserved(q) => requests[r].items \intersect requests[q].items = {}
  /\ \A r \in Transactions : requests[r].place = "gone" => requests[r].items \intersect mem.transactions = {}
  /\ \/ \A i \in mem.transactions : Counted("transactions", i) = 0
     \/ \E r \in UnderWay("transactions") : Served(r)

OnceInv == mishap \intersect {"overlap", "failed"} = {} => OneAnswer /\ Fresh

Reported ==
  /\ mem.money = booked.transactions + IF won THEN 1 ELSE 0
  /\ mem.transactions = {} /\ ~won => disk.money = mem.money
  /\ UnderWay("transactions") # {} => ~won
  /\ \A r \in Transactions : requests[r].place = "gone" => requests[r].items = {}
  /\ \A r \in UnderWay("transactions") : requests[r].items = mem.transactions
  /\ \/ remote.money + Cardinality(mem.transactions) = booked.transactions
     \/ \E r \in UnderWay("transactions") : Served(r)
  /\ \A r \in UnderWay("transactions") :
       Served(r) => remote.money = booked.transactions /\ requests[r].money = remote.money

MoneyInv == mishap = {} => Reported

LedgerInv == BookedInv /\ KeptInv /\ OnceInv /\ MoneyInv
=============================================================================
