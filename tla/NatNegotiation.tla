---------------------------- MODULE NatNegotiation ----------------------------
(***************************************************************************)
(* NAT negotiation of two clients (natneg.c).  Each announces itself to    *)
(* the matchup server from each of its ports; the server tells each where  *)
(* the other seems to be; they ping each other until each knows that its   *)
(* pings arrive, report the result and are forgotten.                      *)
(*                                                                         *)
(* The matchup server is not part of this repository: what a client sends  *)
(* it is answered at once, the answer may be lost or late, and the server  *)
(* may connect or refuse two clients at any time after they began.         *)
(* Addresses are left out: a ping is for the other client.                 *)
(***************************************************************************)
EXTENDS Naturals, FiniteSets

CONSTANTS
  Ports,       \* port types that are announced: NN_PT_NN1 .. NN3, and NN_PT_GP with a game socket
  MaxRetries,  \* the ..._RETRY_COUNTs
  MaxMishaps   \* bound on lost packets, repeated packets and cancellations

NatAssumption ==
  /\ IsFiniteSet(Ports) /\ Ports # {}
  /\ MaxRetries \in Nat /\ MaxMishaps \in Nat

Client == {0, 1}
Partner(c) == 1 - c

VARIABLES
  useQueue, \* the program asks for preinit packets first; never changes
  neg,      \* the negotiator of each client
  net,      \* packets on their way to a client
  known,    \* clients that have acknowledged the connect packet
  verdict,  \* what the server tells both: nothing yet, noerror, deadbeat or inits
  mishaps   \* packets lost or repeated, negotiations canceled

vars == <<useQueue, neg, net, known, verdict, mishaps>>

\* The order of NegotiateState, from the first to the last.
Order == <<"preinitsent", "preinitack", "initsent", "initack", "connectping",
           "finished", "canceled", "reportsent", "reportack">>
Rank(state) == CHOOSE i \in DOMAIN Order : Order[i] = state
Negotiating == {Order[i] : i \in DOMAIN Order}

NoNegotiator == [state |-> "none", acked |-> {}, retry |-> 0, passed |-> FALSE, got |-> FALSE,
                 sendGot |-> FALSE, result |-> "noresult", completed |-> 0]

Init ==
  /\ useQueue \in BOOLEAN
  /\ neg = [c \in Client |-> NoNegotiator]
  /\ net = {} /\ known = {} /\ verdict = "none" /\ mishaps = 0

-----------------------------------------------------------------------------
(***************************************************************************)
(* Packets, with the one fact of them that is acted on                     *)
(***************************************************************************)
Packet(to, kind, data) == [to |-> to, kind |-> kind, data |-> data]

\* Sent to the server, and answered: both may have begun, or one only.
Preinit(c) ==
  {Packet(c, "preinitack", IF neg[Partner(c)].state = "none" THEN "waiting" ELSE "ready")}
Inits(c, n) == {Packet(c, "initack", p) : p \in Ports \ n.acked}
Report(c) == {Packet(c, "reportack", 0)}
Ping(c, n) == {Packet(Partner(c), "ping", n.got)}

Takes(m, sent) == net' = (net \ {m}) \union sent
Becomes(c, n) == neg' = [neg EXCEPT ![c] = n]

Timed(n) == [n EXCEPT !.passed = FALSE]     \* retryTime is set to a time to come
InState(n, state) == [Timed(n) EXCEPT !.state = state]

\* StartReport: the completed callback, and either the report or the end.
Completes(n, result) == [n EXCEPT !.result = result, !.completed = @ + 1]
StartReport(c, n, result) ==
  IF result \in {"inittimeout", "deadbeatpartner"}
  THEN [neg |-> InState(Completes(n, result), "canceled"), sent |-> {}]
  ELSE [neg |-> [InState(Completes(n, result), "reportsent") EXCEPT !.retry = 0], sent |-> Report(c)]

-----------------------------------------------------------------------------
(***************************************************************************)
(* Calls of the program                                                    *)
(***************************************************************************)
NNInternalBeginNegotiation(c) ==
  /\ neg[c].state = "none"
  /\ Becomes(c, [NoNegotiator EXCEPT !.state = IF useQueue THEN "preinitsent" ELSE "initsent"])
  /\ net' = net \union IF useQueue THEN Preinit(c) ELSE Inits(c, NoNegotiator)
  /\ UNCHANGED <<known, verdict, mishaps>>

NNCancel(c) ==
  /\ neg[c].state \in Negotiating \ {"canceled"}
  /\ mishaps < MaxMishaps /\ mishaps' = mishaps + 1
  /\ Becomes(c, InState(neg[c], "canceled"))
  /\ UNCHANGED <<net, known, verdict>>

-----------------------------------------------------------------------------
(***************************************************************************)
(* NegotiateThink, after the packets are read                              *)
(***************************************************************************)
Resending == {"preinitsent", "preinitack", "initsent", "connectping"}

WaitsForPartner(state) == state = "initack"

MayResend(n) == n.retry <= MaxRetries

\* Time passes beyond retryTime.
TimePasses(c) ==
  /\ neg[c].state \in Resending \union {"initack", "reportsent"} /\ ~neg[c].passed
  /\ Becomes(c, [neg[c] EXCEPT !.passed = TRUE])
  /\ UNCHANGED <<net, known, verdict, mishaps>>

Resend(c) ==
  LET n == Timed([neg[c] EXCEPT !.retry = @ + 1]) IN
  /\ neg[c].state \in Resending /\ neg[c].passed /\ MayResend(neg[c])
  /\ Becomes(c, n)
  /\ net' = net \union CASE n.state = "connectping" -> Ping(c, n)
                         [] n.state = "initsent" -> Inits(c, n)
                         [] OTHER -> Preinit(c)
  /\ UNCHANGED <<known, verdict, mishaps>>

Timeout(state) ==
  CASE state = "connectping" -> "pingtimeout"
    [] state = "initack" -> "deadbeatpartner"
    [] OTHER -> "inittimeout"

\* The last resend, or the partner, has timed out.  Who is canceled is removed at once.
GiveUp(c) ==
  LET r == StartReport(c, neg[c], Timeout(neg[c].state)) IN
  /\ neg[c].passed
  /\ \/ neg[c].state \in Resending /\ ~MayResend(neg[c])
     \/ WaitsForPartner(neg[c].state)
  /\ Becomes(c, IF r.neg.state = "canceled" THEN InState(r.neg, "removed") ELSE r.neg)
  /\ net' = net \union r.sent
  /\ UNCHANGED <<known, verdict, mishaps>>

ResendReport(c) ==
  /\ neg[c].state = "reportsent" /\ neg[c].passed /\ MayResend(neg[c])
  /\ Becomes(c, Timed([neg[c] EXCEPT !.retry = @ + 1]))
  /\ net' = net \union Report(c)
  /\ UNCHANGED <<known, verdict, mishaps>>

\* The report is acknowledged or has timed out, or the program has canceled: removed.
Remove(c) ==
  /\ \/ neg[c].state \in {"finished", "reportack", "canceled"}
     \/ neg[c].state = "reportsent" /\ neg[c].passed /\ ~MayResend(neg[c])
  /\ Becomes(c, InState(neg[c], "removed"))
  /\ UNCHANGED <<net, known, verdict, mishaps>>

NegotiateThink(c) == Resend(c) \/ GiveUp(c) \/ ResendReport(c) \/ Remove(c)
-----------------------------------------------------------------------------
(***************************************************************************)
(* NNProcessData: m finds the negotiator of c                              *)
(***************************************************************************)
\* NNCancel has closed the negotiator's own socket: only pings may come, on the game's.
Heard(m) == neg[m.to].state \in Negotiating /\ (neg[m.to].state = "canceled" => m.kind = "ping")
Finds(c, m, kind) == m.to = c /\ m.kind = kind /\ Heard(m)

\* Seeded fault: only a client that is pinging takes no second connect packet.
OnlyPinging(state) == state = "connectping"

AlreadyConnected(state) == Rank(state) >= Rank("connectping")

ProcessConnectPacket(c, m) ==
  LET r == StartReport(c, neg[c], IF m.data = "deadbeat" THEN "deadbeatpartner" ELSE "inittimeout")
      pinging == [InState(neg[c], "connectping") EXCEPT !.retry = 0]
  IN
  /\ Finds(c, m, "connect")
  /\ known' = IF m.data = "noerror" THEN known \union {c} ELSE known
  /\ \/ AlreadyConnected(neg[c].state) /\ Takes(m, {}) /\ UNCHANGED neg
     \/ ~AlreadyConnected(neg[c].state) /\ m.data # "noerror" /\ Takes(m, r.sent) /\ Becomes(c, r.neg)
     \/ ~AlreadyConnected(neg[c].state) /\ m.data = "noerror" /\ Takes(m, Ping(c, pinging))
        /\ Becomes(c, pinging)
  /\ UNCHANGED <<verdict, mishaps>>

\* Seeded fault: a ping is enough, whether or not the partner has got one.
AnyPing(n) == n.state = "connectping"

Connected(n) == n.state = "connectping" /\ n.sendGot

\* A ping too early is ignored; any other is answered, and sets retryTime.
ProcessPingPacket(c, m) ==
  LET n == Timed([neg[c] EXCEPT !.got = TRUE, !.sendGot = m.data])
      r == StartReport(c, n, "success")
  IN
  /\ Finds(c, m, "ping")
  /\ \/ Rank(n.state) < Rank("connectping") /\ Takes(m, {}) /\ UNCHANGED neg
     \/ /\ Rank(n.state) >= Rank("connectping")
        /\ \/ Connected(n) /\ Takes(m, Ping(c, n) \union r.sent) /\ Becomes(c, r.neg)
           \/ ~Connected(n) /\ Takes(m, Ping(c, n)) /\ Becomes(c, n)
  /\ UNCHANGED <<known, verdict, mishaps>>

\* Whatever the state was, it is preinitack now; when the server is ready the inits go out.
ProcessPreinitAckPacket(c, m) ==
  LET n == IF neg[c].state = "preinitack" THEN neg[c]
           ELSE [InState(neg[c], "preinitack") EXCEPT !.retry = 0] IN
  /\ Finds(c, m, "preinitack")
  /\ \/ m.data = "waiting" /\ Takes(m, {}) /\ Becomes(c, n)
     \/ m.data = "ready" /\ Takes(m, Inits(c, n)) /\ Becomes(c, InState(n, "initsent"))
  /\ UNCHANGED <<known, verdict, mishaps>>

ProcessInitAck(c, m) ==
  LET n == [neg[c] EXCEPT !.acked = @ \union {m.data}] IN
  /\ Finds(c, m, "initack")
  /\ Takes(m, {})
  /\ Becomes(c, IF n.state = "initsent" /\ n.acked = Ports THEN InState(n, "initack") ELSE n)
  /\ UNCHANGED <<known, verdict, mishaps>>

Acknowledged(n) == InState(n, "reportack")

ProcessReportAck(c, m) ==
  /\ Finds(c, m, "reportack")
  /\ Takes(m, {})
  /\ Becomes(c, Acknowledged(neg[c]))
  /\ UNCHANGED <<known, verdict, mishaps>>

\* A packet for a client whose cookie is not, or no longer, in the list, or whose socket is closed.
FailedToFind(m) ==
  /\ ~Heard(m)
  /\ Takes(m, {})
  /\ UNCHANGED <<neg, known, verdict, mishaps>>

NNProcessData(c, m) ==
  \/ ProcessConnectPacket(c, m) \/ ProcessPingPacket(c, m) \/ ProcessPreinitAckPacket(c, m)
  \/ ProcessInitAck(c, m) \/ ProcessReportAck(c, m)
-----------------------------------------------------------------------------
(***************************************************************************)
(* The matchup server and the net                                          *)
(***************************************************************************)
Begun == {c \in Client : neg[c].state # "none"}

ServerConnects(c) ==
  /\ Begun = Client /\ c \notin known /\ verdict \in {"none", "noerror"}
  /\ Packet(c, "connect", "noerror") \notin net
  /\ verdict' = "noerror"
  /\ net' = net \union {Packet(c, "connect", "noerror")}
  /\ UNCHANGED <<neg, known, mishaps>>

\* The partner does not announce itself, or a port of one is missing.
ServerRefuses(why) ==
  /\ verdict = "none" /\ Begun # {}
  /\ why = "deadbeat" => Begun # Client
  /\ verdict' = why
  /\ net' = net \union {Packet(c, "connect", why) : c \in Begun}
  /\ UNCHANGED <<neg, known, mishaps>>

Mishap == mishaps < MaxMishaps /\ mishaps' = mishaps + 1

Lose(m) ==
  /\ Mishap
  /\ net' = net \ {m}
  /\ UNCHANGED <<neg, known, verdict>>

\* A packet is sent again after it was answered.
Repeat(c, m) ==
  /\ Mishap
  /\ m \notin net /\ m.to = c
  /\ net' = net \union {m}
  /\ UNCHANGED <<neg, known, verdict>>

Repeatable(c) ==
  IF neg[c].state = "none" THEN {}
  ELSE IF useQueue THEN {Packet(c, "preinitack", "ready")}
  ELSE {Packet(c, "initack", p) : p \in neg[c].acked}
         \union {Packet(d, "connect", "noerror") : d \in {c} \intersect known}
-----------------------------------------------------------------------------
Receives(c) == \E m \in net : NNProcessData(c, m)

Moves ==
  \/ \E c \in Client : \/ NNInternalBeginNegotiation(c) \/ NNCancel(c)
                       \/ TimePasses(c) \/ NegotiateThink(c) \/ Receives(c) \/ ServerConnects(c)
  \/ \E why \in {"deadbeat", "inits"} : ServerRefuses(why)
  \/ \E c \in Client : \E m \in Repeatable(c) : Repeat(c, m)
  \/ \E m \in net : FailedToFind(m) \/ Lose(m)

Next == Moves /\ UNCHANGED useQueue

Spec == Init /\ [][Next]_vars

-----------------------------------------------------------------------------
Results == {"success", "deadbeatpartner", "inittimeout", "pingtimeout", "noresult"}

Negotiator == [state : Negotiating \union {"none", "removed"}, acked : SUBSET Ports,
               retry : 0..MaxRetries + 1, passed : BOOLEAN, got : BOOLEAN, sendGot : BOOLEAN,
               result : Results, completed : Nat]

TypeOK ==
  /\ neg \in [Client -> Negotiator]
  /\ \A m \in net : /\ m.to \in Client
                    /\ m.kind = "ping" => m.data \in BOOLEAN
                    /\ m.kind = "initack" => m.data \in Ports
  /\ known \subseteq Client /\ verdict \in {"none", "noerror", "deadbeat", "inits"}
  /\ mishaps \in 0..MaxMishaps

Succeeded(c) == neg[c].result = "success"

(***************************************************************************)
(* Who succeeds has heard the partner, and the partner has heard it: an    *)
(* open channel in both directions, as NegotiateCompletedFunc promises.    *)
(***************************************************************************)
SuccessMeansBothHeard ==
  \A c \in Client : Succeeded(c) => neg[c].got /\ neg[Partner(c)].got

(***************************************************************************)
(* Without the queue, when one client succeeds the other does, tries, was  *)
(* canceled or ran out of pings: it is never told that the partner or the  *)
(* server is missing.                                                      *)
(***************************************************************************)
FailedPartnerTriedPings ==
  \A c \in Client : Succeeded(c) => neg[Partner(c)].result \notin {"inittimeout", "deadbeatpartner"}

(***************************************************************************)
(* Without the queue the program is told a result once at most, whatever   *)
(* is repeated.                                                            *)
(***************************************************************************)
CompletedOnce == \A c \in Client : neg[c].completed <= 1

(***************************************************************************)
(* Why: a ping says only what was so when it was sent, and who has heard   *)
(* the partner never forgets it.                                           *)
(***************************************************************************)
HeardInv ==
  /\ \A c \in Client : neg[c].state = "none" => neg[c] = NoNegotiator
  /\ \A m \in net : m.kind = "ping" /\ m.data => neg[Partner(m.to)].got
  /\ \A c \in Client : neg[c].sendGot => neg[Partner(c)].got
  /\ SuccessMeansBothHeard

(***************************************************************************)
(* Without the queue a client does not go back to an earlier state, and it *)
(* is told a result when it leaves the states in which it waits for one.   *)
(***************************************************************************)
Waiting == {"none", "initsent", "initack", "connectping"}
ForwardInv ==
  /\ \A c \in Client : /\ neg[c].state \notin {"preinitsent", "preinitack"}
                       /\ neg[c].completed <= IF neg[c].state \in Waiting THEN 0 ELSE 1
  /\ \A m \in net : m.kind # "preinitack"

(***************************************************************************)
(* The server has one verdict; only a good one lets clients ping, and what *)
(* a client is told without it, it is told before it has heard a ping.     *)
(***************************************************************************)
Refused == verdict \in {"deadbeat", "inits"}
Missing == {"inittimeout", "deadbeatpartner"}
VerdictInv ==
  /\ \A m \in net : /\ m.kind = "connect" => verdict # "none" /\ m.data = verdict
                    /\ m.kind = "ping" => verdict = "noerror"
  /\ known # {} => verdict = "noerror"
  /\ \A c \in Client :
       /\ neg[c].state = "connectping" \/ neg[c].got => verdict = "noerror"
       /\ neg[c].state \in {"initsent", "initack"} => ~neg[c].got
       /\ neg[c].result \in Missing => Refused \/ (neg[c].state = "removed" /\ ~neg[c].got)
=============================================================================
