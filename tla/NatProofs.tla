------------------------------- MODULE NatProofs -------------------------------
(***************************************************************************)
(* Theorems about NatNegotiation, for any ports, retries and mishaps: who  *)
(* succeeds has been heard; and, without the queue, the program is told    *)
(* one result, and no client is told that its partner is missing when the  *)
(* partner succeeds.                                                       *)
(***************************************************************************)
EXTENDS MCNat, TLAPS

\* The states are the nine of NegotiateState, in order.
LEMMA States ==
  /\ DOMAIN Order = 1..9
  /\ Negotiating = {"preinitsent", "preinitack", "initsent", "initack", "connectping",
                    "finished", "canceled", "reportsent", "reportack"}
  <1>1. DOMAIN Order = 1..9
    BY DEF Order
  <1>2. \A i \in 1..9 : i = 1 \/ i = 2 \/ i = 3 \/ i = 4 \/ i = 5 \/ i = 6 \/ i = 7 \/ i = 8 \/ i = 9
    OBVIOUS
  <1> QED BY <1>1, <1>2 DEF Negotiating, Order

\* Rank is the place in that order.
LEMMA Ranks ==
  \A i \in 1..9 : Rank(Order[i]) = i
  <1> SUFFICES ASSUME NEW i \in 1..9
               PROVE  Rank(Order[i]) = i
    OBVIOUS
  <1>1. \A j \in 1..9 : Order[j] = Order[i] => j = i
    BY DEF Order
  <1> QED BY <1>1, States DEF Rank

\* A client that may be pinging, or was.
LEMMA Connects ==
  ASSUME NEW state \in Negotiating
  PROVE  /\ Rank(state) \in 1..9
         /\ Rank(state) >= Rank("connectping")
              <=> state \notin {"preinitsent", "preinitack", "initsent", "initack"}
         /\ Rank(state) < Rank("connectping")
              <=> state \in {"preinitsent", "preinitack", "initsent", "initack"}
  <1>1. /\ Rank("preinitsent") = 1 /\ Rank("preinitack") = 2 /\ Rank("initsent") = 3 /\ Rank("initack") = 4
        /\ Rank("connectping") = 5 /\ Rank("finished") = 6 /\ Rank("canceled") = 7
        /\ Rank("reportsent") = 8 /\ Rank("reportack") = 9
    BY Ranks DEF Order
  <1> QED BY <1>1, States

\* The other client.
LEMMA Partners ==
  ASSUME NEW c \in Client
  PROVE  Partner(c) \in Client /\ Partner(c) # c /\ Partner(Partner(c)) = c
  BY DEF Client, Partner

-----------------------------------------------------------------------------
\* A step of client c leaves the other one alone.
Others(c) == \A d \in Client : d # c => neg'[d] = neg[d]

\* What is known of c apart from its state.
Keeps(c) ==
  /\ neg'[c].got = neg[c].got /\ neg'[c].sendGot = neg[c].sendGot
  /\ neg'[c].result = neg[c].result /\ neg'[c].completed = neg[c].completed

\* Nothing new is on its way but packets of these kinds, and pings of c as it is now.
Kinds(new) == \A m \in net' : m \in net \/ m.kind \in new
Pings(c, new) ==
  \A m \in net' : m \in net \/ m.kind \in new \/ (m.kind = "ping" /\ m.to = Partner(c) /\ m.data = neg'[c].got)

\* A client that is given a new negotiator.
LEMMA Given ==
  ASSUME TypeOK, NEW c \in Client, NEW n \in Negotiator, Becomes(c, n)
  PROVE  neg' \in [Client -> Negotiator] /\ neg'[c] = n /\ Others(c)
  BY DEF TypeOK, Becomes, Others

\* A negotiator in another state.
LEMMA Placed ==
  ASSUME NEW n \in Negotiator, NEW state \in Negotiating \union {"none", "removed"}
  PROVE  /\ InState(n, state) \in Negotiator /\ InState(n, state).state = state
         /\ InState(n, state).acked = n.acked /\ InState(n, state).retry = n.retry
         /\ InState(n, state).got = n.got /\ InState(n, state).sendGot = n.sendGot
         /\ InState(n, state).result = n.result /\ InState(n, state).completed = n.completed
  BY DEF InState, Timed, Negotiator

\* A negotiator whose time has not passed yet.
LEMMA Waits ==
  ASSUME NEW n \in Negotiator
  PROVE  /\ Timed(n) \in Negotiator /\ Timed(n).state = n.state
         /\ Timed(n).acked = n.acked /\ Timed(n).retry = n.retry
         /\ Timed(n).got = n.got /\ Timed(n).sendGot = n.sendGot
         /\ Timed(n).result = n.result /\ Timed(n).completed = n.completed
  BY DEF Timed, Negotiator

\* A negotiator that tries from the beginning.
LEMMA Retried ==
  ASSUME NatAssumption, NEW n \in Negotiator, NEW k \in 0..MaxRetries + 1
  PROVE  /\ [n EXCEPT !.retry = k] \in Negotiator /\ [n EXCEPT !.retry = k].state = n.state
         /\ [n EXCEPT !.retry = k].got = n.got /\ [n EXCEPT !.retry = k].sendGot = n.sendGot
         /\ [n EXCEPT !.retry = k].result = n.result /\ [n EXCEPT !.retry = k].completed = n.completed
  BY DEF NatAssumption, Negotiator

\* A negotiator with its result: reported, or canceled when the server or the partner was missing.
LEMMA Reported ==
  ASSUME NatAssumption, NEW c \in Client, NEW n \in Negotiator, NEW result \in Results
  PROVE  LET r == StartReport(c, n, result) IN
         /\ r.neg \in Negotiator
         /\ r.neg.state = IF result \in Missing THEN "canceled" ELSE "reportsent"
         /\ r.neg.got = n.got /\ r.neg.sendGot = n.sendGot
         /\ r.neg.result = result /\ r.neg.completed = n.completed + 1
         /\ \A m \in r.sent : m.to = c /\ m.kind = "reportack"
  <1> DEFINE done == Completes(n, result)
             r == StartReport(c, n, result)
  <1>1. /\ done \in Negotiator /\ done.got = n.got /\ done.sendGot = n.sendGot
        /\ done.result = result /\ done.completed = n.completed + 1
    <2>1. n.completed + 1 \in Nat
      BY DEF Negotiator
    <2>2. done = [[n EXCEPT !.result = result] EXCEPT !.completed = n.completed + 1]
      BY DEF Completes, Negotiator
    <2> QED BY <2>1, <2>2 DEF Negotiator
  <1>2. "canceled" \in Negotiating /\ "reportsent" \in Negotiating /\ 0 \in 0..MaxRetries + 1
    BY States DEF NatAssumption
  <1> HIDE DEF done
  <1>3. CASE result \in Missing
    <2>1. r = [neg |-> InState(done, "canceled"), sent |-> {}]
      BY <1>3 DEF StartReport, Missing, done
    <2> QED BY <1>1, <1>2, <1>3, <2>1, Placed
  <1>4. CASE result \notin Missing
    <2> DEFINE sent == InState(done, "reportsent")
    <2>1. r = [neg |-> [sent EXCEPT !.retry = 0], sent |-> Report(c)]
      BY <1>4 DEF StartReport, Missing, done
    <2>2. /\ sent \in Negotiator /\ sent.state = "reportsent" /\ sent.got = done.got /\ sent.sendGot = done.sendGot
          /\ sent.result = done.result /\ sent.completed = done.completed
      BY <1>1, <1>2, Placed
    <2> HIDE DEF sent
    <2>3. \A m \in Report(c) : m.to = c /\ m.kind = "reportack"
      BY DEF Report, Packet
    <2>4. LET again == [sent EXCEPT !.retry = 0] IN
          /\ again \in Negotiator /\ again.state = sent.state /\ again.got = sent.got /\ again.sendGot = sent.sendGot
          /\ again.result = sent.result /\ again.completed = sent.completed
      BY <1>2, <2>2, Retried
    <2>5. r.neg = [sent EXCEPT !.retry = 0] /\ r.sent = Report(c)
      BY <2>1
    <2> HIDE DEF r
    <2> QED BY <1>1, <1>4, <2>2, <2>3, <2>4, <2>5 DEF r
  <1> QED BY <1>3, <1>4

\* The packets a client makes are typed.
LEMMA Sent ==
  ASSUME NEW c \in Client, NEW n \in Negotiator
  PROVE  /\ \A m \in Preinit(c) : m.to = c /\ m.kind = "preinitack"
         /\ \A m \in Inits(c, n) : m.to = c /\ m.kind = "initack" /\ m.data \in Ports
         /\ \A m \in Report(c) : m.to = c /\ m.kind = "reportack"
         /\ \A m \in Ping(c, n) : /\ m.to = Partner(c) /\ Partner(c) \in Client
                                  /\ m.kind = "ping" /\ m.data = n.got /\ m.data \in BOOLEAN
  BY Partners DEF Preinit, Inits, Report, Ping, Packet, Negotiator

-----------------------------------------------------------------------------
\* NNInternalBeginNegotiation.
LEMMA BeginActs ==
  ASSUME NatAssumption, TypeOK, NEW c \in Client, NNInternalBeginNegotiation(c)
  PROVE  /\ TypeOK' /\ Others(c) /\ UNCHANGED <<known, verdict>>
         /\ neg[c].state = "none" /\ neg'[c].state = IF useQueue THEN "preinitsent" ELSE "initsent"
         /\ ~neg'[c].got /\ ~neg'[c].sendGot /\ neg'[c].result = "noresult" /\ neg'[c].completed = 0
         /\ Kinds(IF useQueue THEN {"preinitack"} ELSE {"initack"})
  <1> DEFINE state == IF useQueue THEN "preinitsent" ELSE "initsent"
             n == [NoNegotiator EXCEPT !.state = state]
  <1>1. /\ Becomes(c, n) /\ net' = net \union (IF useQueue THEN Preinit(c) ELSE Inits(c, NoNegotiator))
        /\ neg[c].state = "none" /\ UNCHANGED <<known, verdict, mishaps>>
    BY DEF NNInternalBeginNegotiation
  <1>2. NoNegotiator \in Negotiator
    BY DEF NoNegotiator, Negotiator, Results, NatAssumption
  <1>3. state \in Negotiating
    BY States
  <1> HIDE DEF state
  <1>4. /\ n \in Negotiator /\ n.state = state
        /\ ~n.got /\ ~n.sendGot /\ n.result = "noresult" /\ n.completed = 0
    BY <1>2, <1>3 DEF NoNegotiator, Negotiator
  <1> HIDE DEF n
  <1>5. neg' \in [Client -> Negotiator] /\ neg'[c] = n /\ Others(c)
    BY <1>1, <1>4, Given
  <1>6. /\ \A m \in Preinit(c) : m.to = c /\ m.kind = "preinitack"
        /\ \A m \in Inits(c, NoNegotiator) : m.to = c /\ m.kind = "initack" /\ m.data \in Ports
    BY <1>2, Sent
  <1>7. TypeOK'
    BY <1>1, <1>5, <1>6 DEF TypeOK
  <1>8. Kinds(IF useQueue THEN {"preinitack"} ELSE {"initack"})
    BY <1>1, <1>6 DEF Kinds
  <1> QED BY <1>1, <1>4, <1>5, <1>7, <1>8 DEF state

\* NNCancel, the clock, and the removal of a negotiator.
Idles(c) ==
  /\ TypeOK' /\ Others(c) /\ Keeps(c) /\ UNCHANGED <<net, known, verdict>>
  /\ neg[c].state \notin {"none", "removed"}

\* None of them sends anything or forgets what has been heard.
LEMMA IdleActs ==
  ASSUME NatAssumption, TypeOK, NEW c \in Client, NNCancel(c) \/ TimePasses(c) \/ Remove(c)
  PROVE  /\ Idles(c)
         /\ neg'[c].state \in {neg[c].state, "canceled", "removed"}
  <1> DEFINE b == neg[c]
  <1>1. b \in Negotiator /\ "none" \notin Negotiating /\ "removed" \notin Negotiating /\ "canceled" \in Negotiating
    BY States DEF TypeOK
  <1>2. CASE NNCancel(c)
    <2>1. Becomes(c, InState(b, "canceled")) /\ b.state \in Negotiating /\ mishaps < MaxMishaps /\ mishaps' = mishaps + 1
          /\ UNCHANGED <<net, known, verdict>>
      BY <1>2 DEF NNCancel
    <2>2. LET n == InState(b, "canceled") IN
          /\ neg' \in [Client -> Negotiator] /\ neg'[c] = n /\ Others(c) /\ n.state = "canceled"
          /\ n.got = b.got /\ n.sendGot = b.sendGot /\ n.result = b.result /\ n.completed = b.completed
      BY <1>1, <2>1, Placed, Given, ZenonT(60)
    <2>3. mishaps' \in 0..MaxMishaps
      BY <2>1 DEF TypeOK, NatAssumption
    <2>4. TypeOK'
      BY <2>1, <2>2, <2>3 DEF TypeOK
    <2> QED BY <1>1, <2>1, <2>2, <2>4 DEF Idles, Keeps
  <1>3. CASE TimePasses(c)
    <2> DEFINE n == [b EXCEPT !.passed = TRUE]
    <2>1. Becomes(c, n) /\ b.state \in Resending \union {"initack", "reportsent"} /\ UNCHANGED <<net, known, verdict, mishaps>>
      BY <1>3 DEF TimePasses
    <2>2. /\ n \in Negotiator /\ n.state = b.state
          /\ n.got = b.got /\ n.sendGot = b.sendGot /\ n.result = b.result /\ n.completed = b.completed
      BY <1>1 DEF Negotiator
    <2> HIDE DEF n
    <2>3. neg' \in [Client -> Negotiator] /\ neg'[c] = n /\ Others(c)
      BY <2>1, <2>2, Given
    <2>4. TypeOK'
      BY <2>1, <2>3 DEF TypeOK
    <2> QED BY <2>1, <2>2, <2>3, <2>4 DEF Idles, Keeps, Resending
  <1>4. CASE Remove(c)
    <2>1. Becomes(c, InState(b, "removed")) /\ UNCHANGED <<net, known, verdict, mishaps>>
          /\ b.state \in {"finished", "reportack", "canceled", "reportsent"}
      BY <1>4 DEF Remove
    <2>2. LET n == InState(b, "removed") IN
          /\ neg' \in [Client -> Negotiator] /\ neg'[c] = n /\ Others(c) /\ n.state = "removed"
          /\ n.got = b.got /\ n.sendGot = b.sendGot /\ n.result = b.result /\ n.completed = b.completed
      BY <1>1, <2>1, Placed, Given, ZenonT(60)
    <2>3. TypeOK'
      BY <2>1, <2>2 DEF TypeOK
    <2> QED BY <2>1, <2>2, <2>3 DEF Idles, Keeps
  <1> QED BY <1>2, <1>3, <1>4

\* A resend: of the packets of the state.
LEMMA ResendActs ==
  ASSUME NatAssumption, TypeOK, NEW c \in Client, Resend(c) \/ ResendReport(c)
  PROVE  /\ TypeOK' /\ Others(c) /\ Keeps(c) /\ UNCHANGED <<known, verdict>>
         /\ neg[c].state \in Resending \union {"reportsent"} /\ neg'[c].state = neg[c].state
         /\ \/ neg[c].state = "connectping" /\ Pings(c, {})
            \/ neg[c].state \notin {"preinitsent", "preinitack"} /\ Kinds({"initack", "reportack"})
            \/ neg[c].state \in {"preinitsent", "preinitack"} /\ Kinds({"preinitack"})
  <1> DEFINE b == neg[c]
             k == b.retry + 1
             again == [b EXCEPT !.retry = k]
             n == Timed(again)
  <1>1. b \in Negotiator
    BY DEF TypeOK
  <1>2. MayResend(b) /\ Becomes(c, n) /\ UNCHANGED <<known, verdict, mishaps>>
    BY DEF Resend, ResendReport
  <1>3. k \in 0..MaxRetries + 1
    BY <1>1, <1>2 DEF MayResend, Negotiator, NatAssumption
  <1> HIDE DEF k
  <1>4. /\ again \in Negotiator /\ again.state = b.state /\ again.got = b.got /\ again.sendGot = b.sendGot
        /\ again.result = b.result /\ again.completed = b.completed
    BY <1>1, <1>3, Retried
  <1> HIDE DEF again
  <1>5. /\ n \in Negotiator /\ n.state = b.state /\ n.got = b.got /\ n.sendGot = b.sendGot
        /\ n.result = b.result /\ n.completed = b.completed
    BY <1>4, Waits
  <1>6. /\ \A m \in Preinit(c) : m.to = c /\ m.kind = "preinitack"
        /\ \A m \in Inits(c, n) : m.to = c /\ m.kind = "initack" /\ m.data \in Ports
        /\ \A m \in Report(c) : m.to = c /\ m.kind = "reportack"
        /\ \A m \in Ping(c, n) : /\ m.to = Partner(c) /\ Partner(c) \in Client
                                 /\ m.kind = "ping" /\ m.data = n.got /\ m.data \in BOOLEAN
    BY <1>5, Sent
  <1>7. \/ b.state \in Resending /\ net' = net \union CASE n.state = "connectping" -> Ping(c, n)
                                                     [] n.state = "initsent" -> Inits(c, n)
                                                     [] OTHER -> Preinit(c)
        \/ b.state = "reportsent" /\ net' = net \union Report(c)
    BY DEF Resend, ResendReport, n, again, k
  <1> HIDE DEF n
  <1>8. neg' \in [Client -> Negotiator] /\ neg'[c] = n /\ Others(c)
    BY <1>2, <1>5, Given
  <1>9. \/ b.state = "connectping" /\ net' = net \union Ping(c, n)
        \/ b.state = "initsent" /\ net' = net \union Inits(c, n)
        \/ b.state \in {"preinitsent", "preinitack"} /\ net' = net \union Preinit(c)
        \/ b.state = "reportsent" /\ net' = net \union Report(c)
    BY <1>5, <1>7 DEF Resending
  <1>10. TypeOK'
    BY <1>2, <1>6, <1>8, <1>9 DEF TypeOK
  <1>11. \/ b.state = "connectping" /\ Pings(c, {})
         \/ b.state \notin {"preinitsent", "preinitack"} /\ Kinds({"initack", "reportack"})
         \/ b.state \in {"preinitsent", "preinitack"} /\ Kinds({"preinitack"})
    BY <1>6, <1>8, <1>9 DEF Pings, Kinds
  <1> QED BY <1>2, <1>5, <1>7, <1>8, <1>10, <1>11 DEF Keeps

\* The last resend, or the partner, has timed out.
LEMMA GiveUpActs ==
  ASSUME NatAssumption, TypeOK, NEW c \in Client, GiveUp(c)
  PROVE  /\ TypeOK' /\ Others(c) /\ UNCHANGED <<known, verdict>>
         /\ neg[c].state \in Resending \union {"initack"}
         /\ neg'[c].state = IF neg[c].state = "connectping" THEN "reportsent" ELSE "removed"
         /\ neg'[c].got = neg[c].got /\ neg'[c].sendGot = neg[c].sendGot
         /\ neg'[c].result = Timeout(neg[c].state) /\ neg'[c].completed = neg[c].completed + 1
         /\ Kinds({"reportack"})
  <1> DEFINE b == neg[c]
             result == Timeout(b.state)
             r == StartReport(c, b, result)
             n == IF r.neg.state = "canceled" THEN InState(r.neg, "removed") ELSE r.neg
  <1>1. b \in Negotiator /\ b.state \in Resending \union {"initack"}
        /\ Becomes(c, n) /\ net' = net \union r.sent /\ UNCHANGED <<known, verdict, mishaps>>
    BY DEF GiveUp, TypeOK, WaitsForPartner
  <1>2. result \in Results /\ (result \in Missing <=> b.state # "connectping")
    BY <1>1 DEF Timeout, Results, Missing, Resending
  <1> HIDE DEF result
  <1>3. /\ r.neg \in Negotiator
        /\ r.neg.state = IF result \in Missing THEN "canceled" ELSE "reportsent"
        /\ r.neg.got = b.got /\ r.neg.sendGot = b.sendGot
        /\ r.neg.result = result /\ r.neg.completed = b.completed + 1
        /\ \A m \in r.sent : m.to = c /\ m.kind = "reportack"
    BY <1>1, <1>2, Reported
  <1> HIDE DEF r
  <1>4. /\ n \in Negotiator /\ n.state = IF b.state = "connectping" THEN "reportsent" ELSE "removed"
        /\ n.got = b.got /\ n.sendGot = b.sendGot /\ n.result = result /\ n.completed = b.completed + 1
    <2>1. CASE result \in Missing
      <3>1. n = InState(r.neg, "removed")
        BY <1>3, <2>1
      <3> QED BY <1>2, <1>3, <2>1, <3>1, Placed
    <2>2. CASE result \notin Missing
      BY <1>2, <1>3, <2>2
    <2> QED BY <2>1, <2>2
  <1> HIDE DEF n
  <1>5. neg' \in [Client -> Negotiator] /\ neg'[c] = n /\ Others(c)
    BY <1>1, <1>4, Given
  <1>6. TypeOK' /\ Kinds({"reportack"})
    BY <1>1, <1>3, <1>5 DEF TypeOK, Kinds
  <1> QED BY <1>1, <1>4, <1>5, <1>6 DEF result

\* Who hears a packet is negotiating.
LEMMA Hears ==
  ASSUME TypeOK, NEW c \in Client, NEW m \in net, NEW kind, Finds(c, m, kind)
  PROVE  /\ m.to = c /\ m.kind = kind /\ neg[c] \in Negotiator /\ neg[c].state \in Negotiating
         /\ neg[c].state # "none" /\ neg[c].state # "removed"
  BY States DEF TypeOK, Finds, Heard

\* A packet is taken that changes nothing of the negotiators.
Dropped == TypeOK' /\ UNCHANGED <<neg, verdict>> /\ Kinds({})

\* ProcessConnectPacket: too late, bad, or good news.
LEMMA ConnectActs ==
  ASSUME NatAssumption, TypeOK, NEW c \in Client, NEW m \in net, ProcessConnectPacket(c, m)
  PROVE  /\ TypeOK' /\ UNCHANGED verdict /\ m.kind = "connect"
         /\ known' = IF m.data = "noerror" THEN known \union {c} ELSE known
         /\ \/ Dropped
            \/ /\ Others(c) /\ m.data # "noerror" /\ Kinds({"reportack"})
               /\ neg[c].state \in {"preinitsent", "preinitack", "initsent", "initack"} /\ neg'[c].state = "canceled"
               /\ neg'[c].got = neg[c].got /\ neg'[c].sendGot = neg[c].sendGot
               /\ neg'[c].result \in Missing /\ neg'[c].completed = neg[c].completed + 1
            \/ /\ Others(c) /\ m.data = "noerror" /\ Pings(c, {}) /\ Keeps(c)
               /\ neg[c].state \in {"preinitsent", "preinitack", "initsent", "initack"} /\ neg'[c].state = "connectping"
  <1> DEFINE b == neg[c]
             result == IF m.data = "deadbeat" THEN "deadbeatpartner" ELSE "inittimeout"
             r == StartReport(c, b, result)
             placed == InState(b, "connectping")
             pinging == [placed EXCEPT !.retry = 0]
  <1>1. /\ m.kind = "connect" /\ b \in Negotiator /\ b.state \in Negotiating /\ UNCHANGED <<verdict, mishaps>>
        /\ known' = IF m.data = "noerror" THEN known \union {c} ELSE known
        /\ \/ Takes(m, {}) /\ UNCHANGED neg
           \/ ~AlreadyConnected(b.state) /\ m.data # "noerror" /\ Takes(m, r.sent) /\ Becomes(c, r.neg)
           \/ ~AlreadyConnected(b.state) /\ m.data = "noerror" /\ Takes(m, Ping(c, pinging)) /\ Becomes(c, pinging)
    BY Hears DEF ProcessConnectPacket
  <1>2. /\ result \in Results /\ result \in Missing /\ "connectping" \in Negotiating /\ 0 \in 0..MaxRetries + 1
    BY States DEF Results, Missing, NatAssumption
  <1>3. ~AlreadyConnected(b.state) => b.state \in {"preinitsent", "preinitack", "initsent", "initack"}
    BY <1>1, Connects DEF AlreadyConnected
  <1>4. known' \subseteq Client
    BY <1>1 DEF TypeOK
  <1> HIDE DEF result
  <1>5. CASE Takes(m, {}) /\ UNCHANGED neg
    <2>1. TypeOK' /\ Kinds({})
      BY <1>1, <1>4, <1>5 DEF TypeOK, Takes, Kinds
    <2> QED BY <1>1, <1>5, <2>1 DEF Dropped
  <1>6. CASE ~AlreadyConnected(b.state) /\ m.data # "noerror" /\ Takes(m, r.sent) /\ Becomes(c, r.neg)
    <2>1. /\ r.neg \in Negotiator /\ r.neg.state = "canceled"
          /\ r.neg.got = b.got /\ r.neg.sendGot = b.sendGot
          /\ r.neg.result = result /\ r.neg.completed = b.completed + 1
          /\ \A p \in r.sent : p.to = c /\ p.kind = "reportack"
      BY <1>1, <1>2, Reported
    <2> HIDE DEF r
    <2>2. neg' \in [Client -> Negotiator] /\ neg'[c] = r.neg /\ Others(c)
      BY <1>6, <2>1, Given
    <2>3. TypeOK' /\ Kinds({"reportack"})
      BY <1>1, <1>4, <1>6, <2>1, <2>2 DEF TypeOK, Takes, Kinds
    <2> QED BY <1>1, <1>2, <1>3, <1>6, <2>1, <2>2, <2>3
  <1>7. CASE ~AlreadyConnected(b.state) /\ m.data = "noerror" /\ Takes(m, Ping(c, pinging)) /\ Becomes(c, pinging)
    <2>1. /\ placed \in Negotiator /\ placed.state = "connectping" /\ placed.got = b.got /\ placed.sendGot = b.sendGot
          /\ placed.result = b.result /\ placed.completed = b.completed
      BY <1>1, <1>2, Placed
    <2> HIDE DEF placed
    <2>2. /\ pinging \in Negotiator /\ pinging.state = "connectping" /\ pinging.got = b.got /\ pinging.sendGot = b.sendGot
          /\ pinging.result = b.result /\ pinging.completed = b.completed
      BY <1>2, <2>1, Retried
    <2> HIDE DEF pinging
    <2>3. \A p \in Ping(c, pinging) : /\ p.to = Partner(c) /\ Partner(c) \in Client
                                      /\ p.kind = "ping" /\ p.data = pinging.got /\ p.data \in BOOLEAN
      BY <2>2, Sent
    <2>4. neg' \in [Client -> Negotiator] /\ neg'[c] = pinging /\ Others(c)
      BY <1>7, <2>2, Given
    <2>5. TypeOK' /\ Pings(c, {})
      BY <1>1, <1>4, <1>7, <2>3, <2>4 DEF TypeOK, Takes, Pings
    <2> QED BY <1>1, <1>3, <1>7, <2>2, <2>4, <2>5 DEF Keeps
  <1> QED BY <1>1, <1>5, <1>6, <1>7

\* ProcessPingPacket: too early, the last that was missing, or another one.
LEMMA PingActs ==
  ASSUME NatAssumption, TypeOK, NEW c \in Client, NEW m \in net, ProcessPingPacket(c, m)
  PROVE  /\ UNCHANGED <<known, verdict>> /\ m.kind = "ping" /\ m.to = c
         /\ \/ Dropped
            \/ /\ TypeOK' /\ Others(c) /\ Pings(c, {"reportack"})
               /\ neg[c].state \notin {"none", "removed", "preinitsent", "preinitack", "initsent", "initack"}
               /\ neg'[c].got /\ neg'[c].sendGot = m.data
               /\ \/ /\ neg'[c].state = neg[c].state
                     /\ neg'[c].result = neg[c].result /\ neg'[c].completed = neg[c].completed
                  \/ /\ neg[c].state = "connectping" /\ neg'[c].state = "reportsent" /\ neg'[c].sendGot
                     /\ neg'[c].result = "success" /\ neg'[c].completed = neg[c].completed + 1
  <1> DEFINE b == neg[c]
             heard == [b EXCEPT !.got = TRUE, !.sendGot = m.data]
             n == Timed(heard)
             result == "success"
             r == StartReport(c, n, result)
  <1>1. /\ m.kind = "ping" /\ m.to = c /\ m.data \in BOOLEAN
        /\ b \in Negotiator /\ b.state \in Negotiating /\ b.state \notin {"none", "removed"}
        /\ UNCHANGED <<known, verdict, mishaps>>
    BY Hears DEF ProcessPingPacket, TypeOK
  <1>2. /\ heard \in Negotiator /\ heard.state = b.state /\ heard.got /\ heard.sendGot = m.data
        /\ heard.result = b.result /\ heard.completed = b.completed
    BY <1>1 DEF Negotiator
  <1> HIDE DEF heard
  <1>3. /\ n \in Negotiator /\ n.state = b.state /\ n.got /\ n.sendGot = m.data
        /\ n.result = b.result /\ n.completed = b.completed
    BY <1>2, Waits
  <1>4. /\ result \in Results /\ result \notin Missing /\ result = "success"
        /\ Rank(n.state) >= Rank("connectping")
             => b.state \notin {"preinitsent", "preinitack", "initsent", "initack"}
    BY <1>1, <1>3, Connects DEF Results, Missing
  <1>5. \/ Takes(m, {}) /\ UNCHANGED neg
        \/ /\ Rank(n.state) >= Rank("connectping")
           /\ \/ Connected(n) /\ Takes(m, Ping(c, n) \union r.sent) /\ Becomes(c, r.neg)
              \/ Takes(m, Ping(c, n)) /\ Becomes(c, n)
    BY DEF ProcessPingPacket, heard
  <1> HIDE DEF n, result
  <1>6. /\ r.neg \in Negotiator /\ r.neg.state = "reportsent" /\ r.neg.got = n.got /\ r.neg.sendGot = n.sendGot
        /\ r.neg.result = result /\ r.neg.completed = n.completed + 1
        /\ \A p \in r.sent : p.to = c /\ p.kind = "reportack"
    <2>1. n \in Negotiator /\ result \in Results /\ result \notin Missing
      BY <1>3, <1>4
    <2> QED BY <2>1, Reported
  <1> HIDE DEF r
  <1>7. \A p \in Ping(c, n) : /\ p.to = Partner(c) /\ Partner(c) \in Client
                              /\ p.kind = "ping" /\ p.data = n.got /\ p.data \in BOOLEAN
    BY <1>3, Sent
  <1>8. CASE Takes(m, {}) /\ UNCHANGED neg
    <2>1. TypeOK' /\ Kinds({})
      BY <1>1, <1>8 DEF TypeOK, Takes, Kinds
    <2> QED BY <1>1, <1>8, <2>1 DEF Dropped
  <1>9. CASE /\ Rank(n.state) >= Rank("connectping")
             /\ Connected(n) /\ Takes(m, Ping(c, n) \union r.sent) /\ Becomes(c, r.neg)
    <2>1. neg' \in [Client -> Negotiator] /\ neg'[c] = r.neg /\ Others(c)
      BY <1>6, <1>9, Given
    <2>2. TypeOK'
      BY <1>1, <1>6, <1>7, <1>9, <2>1 DEF TypeOK, Takes
    <2>3. Pings(c, {"reportack"})
      BY <1>6, <1>7, <1>9, <2>1 DEF Pings, Takes
    <2> QED BY <1>1, <1>3, <1>4, <1>6, <1>9, <2>1, <2>2, <2>3 DEF Connected
  <1>10. CASE Rank(n.state) >= Rank("connectping") /\ Takes(m, Ping(c, n)) /\ Becomes(c, n)
    <2>1. neg' \in [Client -> Negotiator] /\ neg'[c] = n /\ Others(c)
      BY <1>3, <1>10, Given
    <2>2. TypeOK'
      BY <1>1, <1>7, <1>10, <2>1 DEF TypeOK, Takes
    <2>3. Pings(c, {"reportack"})
      BY <1>7, <1>10, <2>1 DEF Pings, Takes
    <2> QED BY <1>1, <1>3, <1>4, <1>10, <2>1, <2>2, <2>3
  <1> QED BY <1>5, <1>8, <1>9, <1>10

\* ProcessPreinitAckPacket: the state is preinitack again, or the inits go out.
LEMMA PreinitAckActs ==
  ASSUME NatAssumption, TypeOK, NEW c \in Client, NEW m \in net, ProcessPreinitAckPacket(c, m)
  PROVE  /\ TypeOK' /\ Others(c) /\ Keeps(c) /\ UNCHANGED <<known, verdict>> /\ m.kind = "preinitack"
         /\ neg'[c].state # "none" /\ neg[c].state # "none" /\ Kinds({"initack"})
  <1> DEFINE b == neg[c]
             placed == InState(b, "preinitack")
             again == [placed EXCEPT !.retry = 0]
             n == IF b.state = "preinitack" THEN b ELSE again
             next == InState(n, "initsent")
  <1>1. /\ m.kind = "preinitack" /\ b \in Negotiator /\ b.state # "none" /\ UNCHANGED <<known, verdict, mishaps>>
        /\ \/ Takes(m, {}) /\ Becomes(c, n)
           \/ Takes(m, Inits(c, n)) /\ Becomes(c, next)
    BY Hears DEF ProcessPreinitAckPacket
  <1>2. "preinitack" \in Negotiating /\ "initsent" \in Negotiating /\ 0 \in 0..MaxRetries + 1
    BY States DEF NatAssumption
  <1>3. /\ placed \in Negotiator /\ placed.state = "preinitack" /\ placed.got = b.got /\ placed.sendGot = b.sendGot
        /\ placed.result = b.result /\ placed.completed = b.completed
    BY <1>1, <1>2, Placed
  <1> HIDE DEF placed
  <1>4. /\ again \in Negotiator /\ again.state = "preinitack" /\ again.got = b.got /\ again.sendGot = b.sendGot
        /\ again.result = b.result /\ again.completed = b.completed
    BY <1>2, <1>3, Retried
  <1> HIDE DEF again
  <1>5. /\ n \in Negotiator /\ n.state = "preinitack" /\ n.got = b.got /\ n.sendGot = b.sendGot
        /\ n.result = b.result /\ n.completed = b.completed
    BY <1>1, <1>4
  <1> HIDE DEF n
  <1>6. /\ next \in Negotiator /\ next.state = "initsent" /\ next.got = b.got /\ next.sendGot = b.sendGot
        /\ next.result = b.result /\ next.completed = b.completed
    BY <1>2, <1>5, Placed
  <1>7. \A p \in Inits(c, n) : p.to = c /\ p.kind = "initack" /\ p.data \in Ports
    BY <1>5, Sent
  <1> HIDE DEF next
  <1>8. CASE Takes(m, {}) /\ Becomes(c, n)
    <2>1. neg' \in [Client -> Negotiator] /\ neg'[c] = n /\ Others(c)
      BY <1>5, <1>8, Given
    <2>2. TypeOK' /\ Kinds({"initack"})
      BY <1>1, <1>8, <2>1 DEF TypeOK, Takes, Kinds
    <2> QED BY <1>1, <1>5, <2>1, <2>2 DEF Keeps
  <1>9. CASE Takes(m, Inits(c, n)) /\ Becomes(c, next)
    <2>1. neg' \in [Client -> Negotiator] /\ neg'[c] = next /\ Others(c)
      BY <1>6, <1>9, Given
    <2>2. TypeOK' /\ Kinds({"initack"})
      BY <1>1, <1>7, <1>9, <2>1 DEF TypeOK, Takes, Kinds
    <2> QED BY <1>1, <1>6, <2>1, <2>2 DEF Keeps
  <1> QED BY <1>1, <1>8, <1>9

\* ProcessInitAck and ProcessReportAck.
LEMMA AckActs ==
  ASSUME NatAssumption, TypeOK, NEW c \in Client, NEW m \in net, ProcessInitAck(c, m) \/ ProcessReportAck(c, m)
  PROVE  /\ TypeOK' /\ Others(c) /\ Keeps(c) /\ UNCHANGED <<known, verdict>> /\ Kinds({})
         /\ neg[c].state \notin {"none", "removed"}
         /\ \/ neg'[c].state = neg[c].state
            \/ neg[c].state = "initsent" /\ neg'[c].state = "initack"
            \/ neg'[c].state = "reportack"
  <1> DEFINE b == neg[c]
  <1>1. "initack" \in Negotiating /\ "reportack" \in Negotiating
    BY States
  <1>2. CASE ProcessInitAck(c, m)
    <2> DEFINE n == [b EXCEPT !.acked = @ \union {m.data}]
               next == IF n.state = "initsent" /\ n.acked = Ports THEN InState(n, "initack") ELSE n
    <2>1. /\ b \in Negotiator /\ b.state \notin {"none", "removed"} /\ m.data \in Ports
          /\ Takes(m, {}) /\ Becomes(c, next) /\ UNCHANGED <<known, verdict, mishaps>>
      BY <1>2, Hears DEF ProcessInitAck, TypeOK
    <2>2. /\ n \in Negotiator /\ n.state = b.state /\ n.got = b.got /\ n.sendGot = b.sendGot
          /\ n.result = b.result /\ n.completed = b.completed
      BY <2>1 DEF Negotiator
    <2> HIDE DEF n
    <2>3. /\ next \in Negotiator /\ next.got = b.got /\ next.sendGot = b.sendGot
          /\ next.result = b.result /\ next.completed = b.completed
          /\ next.state = b.state \/ (b.state = "initsent" /\ next.state = "initack")
      BY <1>1, <2>2, Placed
    <2> HIDE DEF next
    <2>4. neg' \in [Client -> Negotiator] /\ neg'[c] = next /\ Others(c)
      BY <2>1, <2>3, Given
    <2>5. TypeOK' /\ Kinds({})
      BY <2>1, <2>4 DEF TypeOK, Takes, Kinds
    <2> QED BY <2>1, <2>3, <2>4, <2>5 DEF Keeps
  <1>3. CASE ProcessReportAck(c, m)
    <2> DEFINE n == InState(b, "reportack")
    <2>1. /\ b \in Negotiator /\ b.state \notin {"none", "removed"}
          /\ Takes(m, {}) /\ Becomes(c, n) /\ UNCHANGED <<known, verdict, mishaps>>
      BY <1>3, Hears DEF ProcessReportAck, Acknowledged
    <2>2. /\ n \in Negotiator /\ n.state = "reportack" /\ n.got = b.got /\ n.sendGot = b.sendGot
          /\ n.result = b.result /\ n.completed = b.completed
      BY <1>1, <2>1, Placed
    <2> HIDE DEF n
    <2>3. neg' \in [Client -> Negotiator] /\ neg'[c] = n /\ Others(c)
      BY <2>1, <2>2, Given
    <2>4. TypeOK' /\ Kinds({})
      BY <2>1, <2>3 DEF TypeOK, Takes, Kinds
    <2> QED BY <2>1, <2>2, <2>3, <2>4 DEF Keeps
  <1> QED BY <1>2, <1>3

\* The server connects two clients, or refuses.
LEMMA ServerActs ==
  ASSUME NatAssumption, TypeOK
  PROVE  /\ \A c \in Client : ServerConnects(c) =>
              /\ TypeOK' /\ UNCHANGED <<neg, known>> /\ verdict \in {"none", "noerror"} /\ verdict' = "noerror"
              /\ \A m \in net' : m \in net \/ (m.kind = "connect" /\ m.data = verdict')
         /\ \A why \in {"deadbeat", "inits"} : ServerRefuses(why) =>
              /\ TypeOK' /\ UNCHANGED <<neg, known>> /\ verdict = "none" /\ verdict' = why
              /\ \A m \in net' : m \in net \/ (m.kind = "connect" /\ m.data = verdict')
  <1>1. ASSUME NEW c \in Client, ServerConnects(c)
        PROVE  /\ TypeOK' /\ UNCHANGED <<neg, known>> /\ verdict \in {"none", "noerror"} /\ verdict' = "noerror"
               /\ \A m \in net' : m \in net \/ (m.kind = "connect" /\ m.data = verdict')
    BY <1>1 DEF ServerConnects, TypeOK, Packet
  <1>2. ASSUME NEW why \in {"deadbeat", "inits"}, ServerRefuses(why)
        PROVE  /\ TypeOK' /\ UNCHANGED <<neg, known>> /\ verdict = "none" /\ verdict' = why
               /\ \A m \in net' : m \in net \/ (m.kind = "connect" /\ m.data = verdict')
    <2>1. \A c \in Begun : c \in Client
      BY DEF Begun
    <2> QED BY <1>2, <2>1 DEF ServerRefuses, TypeOK, Packet
  <1> QED BY <1>1, <1>2

\* What happens on the net alone: a packet is lost, finds nobody, or comes again.
LEMMA NetActs ==
  ASSUME NatAssumption, TypeOK,
         \/ \E m \in net : FailedToFind(m) \/ Lose(m)
         \/ \E c \in Client : \E m \in Repeatable(c) : Repeat(c, m)
  PROVE  /\ TypeOK' /\ UNCHANGED <<neg, known, verdict>>
         /\ \A m \in net' : \/ m \in net \/ m.kind = "initack" \/ (m.kind = "preinitack" /\ useQueue)
                            \/ (m.kind = "connect" /\ m.data = "noerror" /\ known # {})
  <1>1. CASE \E m \in net : FailedToFind(m) \/ Lose(m)
    BY <1>1 DEF FailedToFind, Lose, Mishap, Takes, TypeOK, NatAssumption
  <1>2. CASE \E c \in Client : \E m \in Repeatable(c) : Repeat(c, m)
    <2>0. PICK c \in Client : \E m \in Repeatable(c) : Repeat(c, m)
      BY <1>2
    <2>1. PICK m \in Repeatable(c) : Repeat(c, m)
      BY <2>0
    <2>2. /\ mishaps < MaxMishaps /\ mishaps' = mishaps + 1 /\ m.to = c
          /\ net' = net \union {m} /\ UNCHANGED <<neg, known, verdict>>
      BY <2>1 DEF Repeat, Mishap
    <2>3. \/ m.kind = "preinitack" /\ useQueue
          \/ m.kind = "initack" /\ m.data \in neg[c].acked
          \/ m.kind = "connect" /\ m.data = "noerror" /\ known # {}
      <3>1. neg[c].state # "none"
        BY <2>1 DEF Repeatable
      <3>2. CASE useQueue
        BY <2>1, <3>1, <3>2 DEF Repeatable, Packet
      <3>3. CASE ~useQueue
        <4>1. m \in {Packet(c, "initack", p) : p \in neg[c].acked}
                      \union {Packet(d, "connect", "noerror") : d \in {c} \intersect known}
          BY <2>1, <3>1, <3>3 DEF Repeatable
        <4> QED BY <4>1 DEF Packet
      <3> QED BY <3>2, <3>3
    <2>4. neg[c].acked \subseteq Ports /\ mishaps' \in 0..MaxMishaps
      BY <2>2 DEF TypeOK, Negotiator, NatAssumption
    <2> QED BY <2>2, <2>3, <2>4 DEF TypeOK
  <1> QED BY <1>1, <1>2

-----------------------------------------------------------------------------
\* Every step is one of these.
Steps ==
  \/ \E c \in Client : \/ NNInternalBeginNegotiation(c) \/ NNCancel(c) \/ TimePasses(c) \/ NegotiateThink(c)
                       \/ ServerConnects(c)
  \/ \E c \in Client : \E m \in net : NNProcessData(c, m)
  \/ \E why \in {"deadbeat", "inits"} : ServerRefuses(why)
  \/ \E c \in Client : \E m \in Repeatable(c) : Repeat(c, m)
  \/ \E m \in net : FailedToFind(m) \/ Lose(m)

\* There is no other.
LEMMA AllSteps == Next => Steps
  BY DEF Next, Moves, Steps, Receives

\* Whether there is a queue never changes.
LEMMA QueueKept == [Next]_vars => useQueue' = useQueue
  BY DEF Next, vars

\* Nothing has happened at first.
LEMMA InitTypes ==
  ASSUME NatAssumption, Init
  PROVE  TypeOK
  <1>1. NoNegotiator \in Negotiator
    BY DEF NoNegotiator, Negotiator, Results, NatAssumption
  <1> QED BY <1>1 DEF Init, TypeOK, NatAssumption

\* Every step keeps the types.
LEMMA StepTypes ==
  ASSUME NatAssumption, TypeOK, [Next]_vars
  PROVE  TypeOK'
  <1>1. CASE UNCHANGED vars
    BY <1>1 DEF vars, TypeOK
  <1>2. CASE Next
    BY <1>2, AllSteps, BeginActs, IdleActs, ResendActs, GiveUpActs, ConnectActs, PingActs, PreinitAckActs, AckActs,
       ServerActs, NetActs
       DEF Steps, Idles, NegotiateThink, NNProcessData, Dropped
  <1> QED BY <1>1, <1>2

-----------------------------------------------------------------------------
\* HeardInv is kept by a step of c in which it hears no less, and pings as it has heard.
LEMMA HeardStep ==
  ASSUME TypeOK, HeardInv, NEW c \in Client, Others(c),
         neg'[c].state # "none",
         neg[c].got => neg'[c].got,
         neg'[c].sendGot => neg[Partner(c)].got,
         neg'[c].result = "success" => neg[c].result = "success" \/ (neg'[c].got /\ neg[Partner(c)].got),
         Pings(c, {"initack", "reportack", "preinitack", "connect"})
  PROVE  HeardInv'
  <1> DEFINE o == Partner(c)
  <1>1. /\ o \in Client /\ o # c /\ Partner(o) = c /\ \A d \in Client : d = c \/ d = o
    BY Partners DEF Client, Partner
  <1>2. neg'[o] = neg[o]
    BY <1>1 DEF Others
  <1>3. \A d \in Client : neg'[d].state = "none" => neg'[d] = NoNegotiator
    BY <1>1, <1>2 DEF HeardInv
  <1>4. ASSUME NEW m \in net', m.kind = "ping", m.data
        PROVE  neg'[Partner(m.to)].got
    <2>1. CASE m \in net
      <3>1. neg[Partner(m.to)].got /\ m.to \in Client
        BY <1>4, <2>1 DEF HeardInv, TypeOK
      <3> QED BY <1>1, <1>2, <3>1
    <2>2. CASE m \notin net
      BY <1>1, <1>4, <2>2 DEF Pings
    <2> QED BY <2>1, <2>2
  <1>5. \A d \in Client : neg'[d].sendGot => neg'[Partner(d)].got
    BY <1>1, <1>2 DEF HeardInv
  <1>6. SuccessMeansBothHeard'
    BY <1>1, <1>2 DEF HeardInv, SuccessMeansBothHeard, Succeeded
  <1> QED BY <1>3, <1>4, <1>5, <1>6 DEF HeardInv

\* And by a step that changes no negotiator and sends no ping.
LEMMA HeardStays ==
  ASSUME HeardInv, UNCHANGED neg, \A m \in net' : m \in net \/ m.kind # "ping"
  PROVE  HeardInv'
  BY DEF HeardInv, SuccessMeansBothHeard, Succeeded

\* Every step keeps HeardInv.
LEMMA HeardHolds ==
  ASSUME NatAssumption, TypeOK, HeardInv, [Next]_vars
  PROVE  HeardInv'
  <1>1. CASE UNCHANGED vars
    BY <1>1, HeardStays DEF vars
  <1>2. \A c \in Client : /\ neg[c].sendGot => neg[Partner(c)].got
                          /\ neg[c].state = "none" => ~neg[c].got
    BY DEF HeardInv, NoNegotiator
  <1>3. ASSUME NEW c \in Client, NNInternalBeginNegotiation(c)
        PROVE  HeardInv'
    <2>1. Pings(c, {"initack", "reportack", "preinitack", "connect"})
      BY <1>3, BeginActs DEF Kinds, Pings
    <2> QED BY <1>2, <1>3, <2>1, BeginActs, HeardStep
  <1>4. ASSUME NEW c \in Client, NNCancel(c) \/ TimePasses(c) \/ Remove(c)
        PROVE  HeardInv'
    <2>1. Pings(c, {"initack", "reportack", "preinitack", "connect"})
      BY <1>4, IdleActs DEF Idles, Pings
    <2> QED BY <1>2, <1>4, <2>1, IdleActs, HeardStep DEF Idles, Keeps
  <1>5. ASSUME NEW c \in Client, Resend(c) \/ ResendReport(c)
        PROVE  HeardInv'
    <2>1. Pings(c, {"initack", "reportack", "preinitack", "connect"})
      BY <1>5, ResendActs DEF Kinds, Pings
    <2>2. neg[c].state # "none"
      BY <1>5, ResendActs DEF Resending
    <2> QED BY <1>2, <1>5, <2>1, <2>2, ResendActs, HeardStep DEF Keeps
  <1>6. ASSUME NEW c \in Client, GiveUp(c)
        PROVE  HeardInv'
    <2>1. Pings(c, {"initack", "reportack", "preinitack", "connect"})
      BY <1>6, GiveUpActs DEF Kinds, Pings
    <2>2. neg'[c].result # "success"
      BY <1>6, GiveUpActs DEF Timeout
    <2> QED BY <1>2, <1>6, <2>1, <2>2, GiveUpActs, HeardStep
  <1>7. ASSUME NEW c \in Client, NEW m \in net, ProcessConnectPacket(c, m)
        PROVE  HeardInv'
    <2>1. CASE Dropped
      BY <2>1, HeardStays DEF Dropped, Kinds
    <2>2. CASE ~Dropped
      <3>1. Pings(c, {"initack", "reportack", "preinitack", "connect"})
        BY <1>7, <2>2, ConnectActs DEF Kinds, Pings
      <3> QED BY <1>2, <1>7, <2>2, <3>1, ConnectActs, HeardStep DEF Keeps, Missing
    <2> QED BY <2>1, <2>2
  <1>8. ASSUME NEW c \in Client, NEW m \in net, ProcessPingPacket(c, m)
        PROVE  HeardInv'
    <2>1. CASE Dropped
      BY <2>1, HeardStays DEF Dropped, Kinds
    <2>2. CASE ~Dropped
      <3>1. Pings(c, {"initack", "reportack", "preinitack", "connect"})
        BY <1>8, <2>2, PingActs DEF Pings
      <3>2. m.data => neg[Partner(c)].got
        BY <1>8, PingActs DEF HeardInv
      <3>3. /\ Others(c) /\ neg'[c].got /\ neg'[c].sendGot = m.data /\ neg'[c].state # "none"
            /\ neg'[c].result = "success" => neg[c].result = "success" \/ neg'[c].sendGot
        BY <1>8, <2>2, PingActs
      <3> QED BY <3>1, <3>2, <3>3, HeardStep
    <2> QED BY <2>1, <2>2
  <1>9. ASSUME NEW c \in Client, NEW m \in net, ProcessPreinitAckPacket(c, m)
        PROVE  HeardInv'
    <2>1. Pings(c, {"initack", "reportack", "preinitack", "connect"})
      BY <1>9, PreinitAckActs DEF Kinds, Pings
    <2> QED BY <1>2, <1>9, <2>1, PreinitAckActs, HeardStep DEF Keeps
  <1>10. ASSUME NEW c \in Client, NEW m \in net, ProcessInitAck(c, m) \/ ProcessReportAck(c, m)
         PROVE  HeardInv'
    <2>1. Pings(c, {"initack", "reportack", "preinitack", "connect"})
      BY <1>10, AckActs DEF Kinds, Pings
    <2> QED BY <1>2, <1>10, <2>1, AckActs, HeardStep DEF Keeps
  <1>11. CASE \/ \E c \in Client : ServerConnects(c)
              \/ \E why \in {"deadbeat", "inits"} : ServerRefuses(why)
    BY <1>11, ServerActs, HeardStays
  <1>12. CASE \/ \E c \in Client : \E m \in Repeatable(c) : Repeat(c, m)
              \/ \E m \in net : FailedToFind(m) \/ Lose(m)
    BY <1>12, NetActs, HeardStays
  <1> QED BY <1>1, <1>3, <1>4, <1>5, <1>6, <1>7, <1>8, <1>9, <1>10, <1>11, <1>12, AllSteps
          DEF Steps, NegotiateThink, NNProcessData

(***************************************************************************)
(* Whatever is lost, late or repeated, with and without the queue, a client*)
(* that succeeds has heard its partner and was heard by it.                *)
(***************************************************************************)
THEOREM SuccessMeansBothHeardHolds ==
  ASSUME NatAssumption
  PROVE  Spec => [](TypeOK /\ SuccessMeansBothHeard)
  <1>1. Init => TypeOK /\ HeardInv
    <2>1. Init => HeardInv
      BY DEF Init, HeardInv, SuccessMeansBothHeard, Succeeded, NoNegotiator
    <2> QED BY <2>1, InitTypes
  <1>2. TypeOK /\ HeardInv /\ [Next]_vars => (TypeOK /\ HeardInv)'
    BY StepTypes, HeardHolds
  <1>3. HeardInv => SuccessMeansBothHeard
    BY DEF HeardInv
  <1> QED BY <1>1, <1>2, <1>3, PTL DEF Spec

-----------------------------------------------------------------------------
\* ForwardInv is kept by a step of c that does not go back and tells no second result.
LEMMA ForwardStep ==
  ASSUME TypeOK, ForwardInv, NEW c \in Client, Others(c),
         neg'[c].state \notin {"preinitsent", "preinitack"},
         neg'[c].completed <= IF neg'[c].state \in Waiting THEN 0 ELSE 1,
         Pings(c, {"initack", "reportack", "connect"})
  PROVE  ForwardInv'
  <1>1. \A d \in Client : d = c \/ neg'[d] = neg[d]
    BY DEF Others
  <1>2. \A d \in Client : /\ neg'[d].state \notin {"preinitsent", "preinitack"}
                          /\ neg'[d].completed <= IF neg'[d].state \in Waiting THEN 0 ELSE 1
    BY <1>1 DEF ForwardInv
  <1>3. \A m \in net' : m.kind # "preinitack"
    BY DEF ForwardInv, Pings
  <1> QED BY <1>2, <1>3 DEF ForwardInv

\* And by a step that changes no negotiator.
LEMMA ForwardStays ==
  ASSUME ForwardInv, UNCHANGED neg, \A m \in net' : m \in net \/ m.kind # "preinitack"
  PROVE  ForwardInv'
  BY DEF ForwardInv

\* Every step keeps ForwardInv.
LEMMA ForwardHolds ==
  ASSUME NatAssumption, ~useQueue, TypeOK, ForwardInv, [Next]_vars
  PROVE  ForwardInv'
  <1>1. CASE UNCHANGED vars
    BY <1>1, ForwardStays DEF vars
  <1>2. \A c \in Client : /\ neg[c].state \notin {"preinitsent", "preinitack"}
                          /\ neg[c].completed \in Nat /\ neg[c].completed <= 1
                          /\ neg[c].state \in Waiting => neg[c].completed = 0
    BY DEF ForwardInv, TypeOK, Negotiator
  <1>3. ASSUME NEW c \in Client, NNInternalBeginNegotiation(c)
        PROVE  ForwardInv'
    <2>1. Pings(c, {"initack", "reportack", "connect"})
      BY <1>3, BeginActs DEF Kinds, Pings
    <2> QED BY <1>3, <2>1, BeginActs, ForwardStep
  <1>4. ASSUME NEW c \in Client, NNCancel(c) \/ TimePasses(c) \/ Remove(c)
        PROVE  ForwardInv'
    <2>1. Pings(c, {"initack", "reportack", "connect"})
      BY <1>4, IdleActs DEF Idles, Pings
    <2>2. neg'[c].completed <= IF neg'[c].state \in Waiting THEN 0 ELSE 1
      BY <1>2, <1>4, IdleActs DEF Idles, Keeps, Waiting
    <2>3. neg'[c].state \notin {"preinitsent", "preinitack"}
      BY <1>2, <1>4, IdleActs
    <2> QED BY <1>4, <2>1, <2>2, <2>3, IdleActs, ForwardStep DEF Idles
  <1>5. ASSUME NEW c \in Client, Resend(c) \/ ResendReport(c)
        PROVE  ForwardInv'
    <2>1. Pings(c, {"initack", "reportack", "connect"})
      BY <1>2, <1>5, ResendActs DEF Kinds, Pings
    <2>2. neg'[c].completed <= IF neg'[c].state \in Waiting THEN 0 ELSE 1
      BY <1>2, <1>5, ResendActs DEF Keeps
    <2> QED BY <1>2, <1>5, <2>1, <2>2, ResendActs, ForwardStep
  <1>6. ASSUME NEW c \in Client, GiveUp(c)
        PROVE  ForwardInv'
    <2>1. Pings(c, {"initack", "reportack", "connect"})
      BY <1>6, GiveUpActs DEF Kinds, Pings
    <2>2. neg[c].state \in Waiting
      BY <1>2, <1>6, GiveUpActs DEF Resending, Waiting
    <2>3. neg'[c].completed <= IF neg'[c].state \in Waiting THEN 0 ELSE 1
      BY <1>2, <1>6, <2>2, GiveUpActs DEF Waiting
    <2> QED BY <1>6, <2>1, <2>3, GiveUpActs, ForwardStep
  <1>7. ASSUME NEW c \in Client, NEW m \in net, ProcessConnectPacket(c, m)
        PROVE  ForwardInv'
    <2>1. CASE Dropped
      BY <2>1, ForwardStays DEF Dropped, Kinds
    <2>2. CASE ~Dropped
      <3>1. Pings(c, {"initack", "reportack", "connect"}) /\ Others(c)
        BY <1>7, <2>2, ConnectActs DEF Kinds, Pings
      <3>2. neg[c].state \in Waiting
        BY <1>2, <1>7, <2>2, ConnectActs DEF Waiting
      <3>3. /\ neg'[c].completed <= IF neg'[c].state \in Waiting THEN 0 ELSE 1
            /\ neg'[c].state \notin {"preinitsent", "preinitack"}
        BY <1>2, <1>7, <2>2, <3>2, ConnectActs DEF Waiting, Keeps
      <3> QED BY <3>1, <3>3, ForwardStep
    <2> QED BY <2>1, <2>2
  <1>8. ASSUME NEW c \in Client, NEW m \in net, ProcessPingPacket(c, m)
        PROVE  ForwardInv'
    <2>1. CASE Dropped
      BY <2>1, ForwardStays DEF Dropped, Kinds
    <2>2. CASE ~Dropped
      <3>1. Pings(c, {"initack", "reportack", "connect"}) /\ Others(c)
        BY <1>8, <2>2, PingActs DEF Pings
      <3>2. /\ neg'[c].completed <= IF neg'[c].state \in Waiting THEN 0 ELSE 1
            /\ neg'[c].state \notin {"preinitsent", "preinitack"}
        BY <1>2, <1>8, <2>2, PingActs DEF Waiting
      <3> QED BY <3>1, <3>2, ForwardStep
    <2> QED BY <2>1, <2>2
  <1>9. ASSUME NEW c \in Client, NEW m \in net, ProcessPreinitAckPacket(c, m)
        PROVE  ForwardInv'
    BY <1>9, PreinitAckActs DEF ForwardInv
  <1>10. ASSUME NEW c \in Client, NEW m \in net, ProcessInitAck(c, m) \/ ProcessReportAck(c, m)
         PROVE  ForwardInv'
    <2>1. Pings(c, {"initack", "reportack", "connect"})
      BY <1>10, AckActs DEF Kinds, Pings
    <2>2. /\ neg'[c].completed <= IF neg'[c].state \in Waiting THEN 0 ELSE 1
          /\ neg'[c].state \notin {"preinitsent", "preinitack"}
      BY <1>2, <1>10, AckActs DEF Keeps, Waiting
    <2> QED BY <1>10, <2>1, <2>2, AckActs, ForwardStep
  <1>11. CASE \/ \E c \in Client : ServerConnects(c)
              \/ \E why \in {"deadbeat", "inits"} : ServerRefuses(why)
    BY <1>11, ServerActs, ForwardStays
  <1>12. CASE \/ \E c \in Client : \E m \in Repeatable(c) : Repeat(c, m)
              \/ \E m \in net : FailedToFind(m) \/ Lose(m)
    BY <1>12, NetActs, ForwardStays
  <1> QED BY <1>1, <1>3, <1>4, <1>5, <1>6, <1>7, <1>8, <1>9, <1>10, <1>11, <1>12, AllSteps
          DEF Steps, NegotiateThink, NNProcessData

(***************************************************************************)
(* Without the queue the completed callback is called once at most for a   *)
(* client, whatever is lost, late or repeated.                             *)
(***************************************************************************)
THEOREM CompletedOnceHolds ==
  ASSUME NatAssumption
  PROVE  Spec /\ ~useQueue => []CompletedOnce
  <1>1. Init => TypeOK /\ ForwardInv
    <2>1. Init => ForwardInv
      BY DEF Init, ForwardInv, NoNegotiator
    <2> QED BY <2>1, InitTypes
  <1>2. ~useQueue /\ TypeOK /\ ForwardInv /\ [Next]_vars => (~useQueue /\ TypeOK /\ ForwardInv)'
    BY StepTypes, ForwardHolds, QueueKept
  <1>3. TypeOK /\ ForwardInv => CompletedOnce
    BY DEF ForwardInv, CompletedOnce, TypeOK, Negotiator
  <1> QED BY <1>1, <1>2, <1>3, PTL DEF Spec

-----------------------------------------------------------------------------
\* What VerdictInv says of client c.
Judged(c) ==
  /\ neg[c].state = "connectping" \/ neg[c].got => verdict = "noerror"
  /\ neg[c].state \in {"initsent", "initack"} => ~neg[c].got
  /\ neg[c].result \in Missing => Refused \/ (neg[c].state = "removed" /\ ~neg[c].got)

\* VerdictInv is kept by a step of c that knows the verdict.
LEMMA VerdictStep ==
  ASSUME VerdictInv, NEW c \in Client, Others(c), UNCHANGED verdict,
         known' # {} => verdict = "noerror",
         Judged(c)',
         \A m \in net' : m \in net \/ m.kind \notin {"connect", "ping"} \/ (m.kind = "ping" /\ verdict = "noerror")
  PROVE  VerdictInv'
  <1>1. \A d \in Client : Judged(d)'
    BY DEF VerdictInv, Others, Judged, Refused
  <1>2. \A m \in net' : /\ m.kind = "connect" => verdict' # "none" /\ m.data = verdict'
                        /\ m.kind = "ping" => verdict' = "noerror"
    BY DEF VerdictInv
  <1> QED BY <1>1, <1>2 DEF VerdictInv, Judged

\* And by a step that changes no negotiator.
LEMMA VerdictStays ==
  ASSUME VerdictInv, UNCHANGED <<neg, verdict>>,
         known' # {} => verdict = "noerror",
         \A m \in net' : \/ m \in net \/ m.kind \notin {"connect", "ping"}
                         \/ (m.kind = "connect" /\ m.data = verdict /\ verdict = "noerror")
  PROVE  VerdictInv'
  BY DEF VerdictInv, Refused

\* Every step keeps VerdictInv.
LEMMA VerdictHolds ==
  ASSUME NatAssumption, ~useQueue, TypeOK, HeardInv, ForwardInv, VerdictInv, [Next]_vars
  PROVE  VerdictInv'
  <1>1. CASE UNCHANGED vars
    BY <1>1, VerdictStays DEF vars, VerdictInv
  <1>2. \A c \in Client : /\ Judged(c) /\ neg[c].state \notin {"preinitsent", "preinitack"}
                          /\ neg[c].state = "none" => ~neg[c].got /\ neg[c].result = "noresult"
    BY DEF ForwardInv, HeardInv, NoNegotiator, VerdictInv, Judged
  <1>3. ASSUME NEW c \in Client, NNInternalBeginNegotiation(c)
        PROVE  VerdictInv'
    <2>1. Judged(c)'
      BY <1>3, BeginActs DEF Judged, Missing
    <2> QED BY <1>3, <2>1, BeginActs, VerdictStep DEF Kinds, VerdictInv
  <1>4. ASSUME NEW c \in Client, NNCancel(c) \/ TimePasses(c) \/ Remove(c)
        PROVE  VerdictInv'
    <2>1. Judged(c)'
      BY <1>2, <1>4, IdleActs DEF Judged, Idles, Keeps, Refused
    <2> QED BY <1>4, <2>1, IdleActs, VerdictStep DEF Idles, VerdictInv
  <1>5. ASSUME NEW c \in Client, Resend(c) \/ ResendReport(c)
        PROVE  VerdictInv'
    <2>1. Judged(c)'
      BY <1>2, <1>5, ResendActs DEF Judged, Keeps, Refused, Resending
    <2>2. \A m \in net' : m \in net \/ m.kind \notin {"connect", "ping"} \/ (m.kind = "ping" /\ verdict = "noerror")
      BY <1>2, <1>5, ResendActs DEF Kinds, Pings, Judged
    <2> QED BY <1>5, <2>1, <2>2, ResendActs, VerdictStep DEF VerdictInv
  <1>6. ASSUME NEW c \in Client, GiveUp(c)
        PROVE  VerdictInv'
    <2>1. neg[c].state \in {"initsent", "initack", "connectping"}
      BY <1>2, <1>6, GiveUpActs DEF Resending
    <2>2. neg'[c].result \in Missing => neg[c].state \in {"initsent", "initack"}
      BY <1>6, <2>1, GiveUpActs DEF Timeout, Missing
    <2>3. Judged(c)'
      BY <1>2, <1>6, <2>1, <2>2, GiveUpActs DEF Judged
    <2> QED BY <1>6, <2>3, GiveUpActs, VerdictStep DEF Kinds, VerdictInv
  <1>7. ASSUME NEW c \in Client, NEW m \in net, ProcessConnectPacket(c, m)
        PROVE  VerdictInv'
    <2>1. /\ m.data = verdict /\ verdict \in {"noerror", "deadbeat", "inits"} /\ UNCHANGED verdict
          /\ known' # {} => verdict = "noerror"
      BY <1>7, ConnectActs DEF VerdictInv, TypeOK
    <2>2. CASE Dropped
      BY <2>1, <2>2, VerdictStays DEF Dropped, Kinds
    <2>3. CASE ~Dropped
      <3>1. Judged(c)'
        BY <1>2, <1>7, <2>1, <2>3, ConnectActs DEF Judged, Keeps, Refused
      <3>2. /\ Others(c)
            /\ \A p \in net' : p \in net \/ p.kind \notin {"connect", "ping"} \/ (p.kind = "ping" /\ verdict = "noerror")
        BY <1>7, <2>1, <2>3, ConnectActs DEF Kinds, Pings
      <3> QED BY <2>1, <3>1, <3>2, VerdictStep
    <2> QED BY <2>2, <2>3
  <1>8. ASSUME NEW c \in Client, NEW m \in net, ProcessPingPacket(c, m)
        PROVE  VerdictInv'
    <2>1. verdict = "noerror" /\ UNCHANGED <<known, verdict>>
      BY <1>8, PingActs DEF VerdictInv
    <2>2. CASE Dropped
      BY <2>1, <2>2, VerdictStays DEF Dropped, Kinds
    <2>3. CASE ~Dropped
      <3>1. Judged(c)'
        BY <1>2, <1>8, <2>1, <2>3, PingActs DEF Judged, Refused, Missing
      <3>2. /\ Others(c)
            /\ \A p \in net' : p \in net \/ p.kind \notin {"connect", "ping"} \/ (p.kind = "ping" /\ verdict = "noerror")
        BY <1>8, <2>1, <2>3, PingActs DEF Pings
      <3> QED BY <2>1, <3>1, <3>2, VerdictStep
    <2> QED BY <2>2, <2>3
  <1>9. ASSUME NEW c \in Client, NEW m \in net, ProcessPreinitAckPacket(c, m)
        PROVE  VerdictInv'
    BY <1>9, PreinitAckActs DEF ForwardInv
  <1>10. ASSUME NEW c \in Client, NEW m \in net, ProcessInitAck(c, m) \/ ProcessReportAck(c, m)
         PROVE  VerdictInv'
    <2>1. Judged(c)'
      BY <1>2, <1>10, AckActs DEF Judged, Keeps, Refused
    <2> QED BY <1>10, <2>1, AckActs, VerdictStep DEF Kinds, VerdictInv
  <1>11. CASE \/ \E c \in Client : ServerConnects(c)
              \/ \E why \in {"deadbeat", "inits"} : ServerRefuses(why)
    <2>1. /\ UNCHANGED <<neg, known>> /\ verdict' \in {"noerror", "deadbeat", "inits"}
          /\ verdict = "none" \/ (verdict = "noerror" /\ verdict' = "noerror")
          /\ \A m \in net' : m \in net \/ (m.kind = "connect" /\ m.data = verdict')
      BY <1>11, ServerActs
    <2> QED BY <2>1 DEF VerdictInv, Refused
  <1>12. CASE \/ \E c \in Client : \E m \in Repeatable(c) : Repeat(c, m)
              \/ \E m \in net : FailedToFind(m) \/ Lose(m)
    <2>1. /\ UNCHANGED <<neg, known, verdict>>
          /\ \A m \in net' : \/ m \in net \/ m.kind \notin {"connect", "ping"}
                             \/ (m.kind = "connect" /\ m.data = "noerror" /\ known # {})
      BY <1>12, NetActs
    <2> QED BY <2>1, VerdictStays DEF VerdictInv
  <1> QED BY <1>1, <1>3, <1>4, <1>5, <1>6, <1>7, <1>8, <1>9, <1>10, <1>11, <1>12, AllSteps
          DEF Steps, NegotiateThink, NNProcessData

\* A negotiation begins with all of them.
LEMMA NegotiationBegins ==
  ASSUME NatAssumption, Init
  PROVE  TypeOK /\ HeardInv /\ ForwardInv /\ VerdictInv
  <1>1. HeardInv
    BY DEF Init, HeardInv, SuccessMeansBothHeard, Succeeded, NoNegotiator
  <1>2. ForwardInv
    BY DEF Init, ForwardInv, NoNegotiator
  <1>3. VerdictInv
    BY DEF Init, VerdictInv, NoNegotiator, Missing
  <1> QED BY <1>1, <1>2, <1>3, InitTypes

\* Who was heard by its partner has had a good verdict.
LEMMA HeardIsNotMissing ==
  ASSUME HeardInv, VerdictInv
  PROVE  FailedPartnerTriedPings
  <1> SUFFICES ASSUME NEW c \in Client, Succeeded(c)
               PROVE  neg[Partner(c)].result \notin Missing
    BY DEF FailedPartnerTriedPings, Missing
  <1>1. Partner(c) \in Client /\ neg[Partner(c)].got
    BY Partners DEF HeardInv, SuccessMeansBothHeard
  <1>2. verdict = "noerror"
    BY <1>1 DEF VerdictInv
  <1> QED BY <1>1, <1>2 DEF VerdictInv, Refused

(***************************************************************************)
(* Without the queue, when one client succeeds the other is never told that*)
(* the server or the partner is missing: it has heard a ping, which only a *)
(* client sends whom the server has told to.                               *)
(***************************************************************************)
THEOREM FailedPartnerTriedPingsHolds ==
  ASSUME NatAssumption
  PROVE  Spec /\ ~useQueue => []FailedPartnerTriedPings
  <1>1. Init => TypeOK /\ HeardInv /\ ForwardInv /\ VerdictInv
    BY NegotiationBegins
  <1>2. /\ ~useQueue /\ TypeOK /\ HeardInv /\ ForwardInv /\ VerdictInv /\ [Next]_vars
        => (~useQueue /\ TypeOK /\ HeardInv /\ ForwardInv /\ VerdictInv)'
    BY StepTypes, HeardHolds, ForwardHolds, VerdictHolds, QueueKept
  <1>3. HeardInv /\ VerdictInv => FailedPartnerTriedPings
    BY HeardIsNotMissing
  <1> QED BY <1>1, <1>2, <1>3, PTL DEF Spec

-----------------------------------------------------------------------------
\* What DetermineNatType makes of any answers: a device is open only when both reachability tests say so.
LEMMA OpenWhenReached ==
  ASSUME NEW map \in [Detect!Maps -> 0..9], NEW free \in SUBSET {"ip", "port"}, NEW same \in BOOLEAN,
         NEW r, r = Detect!DetermineNatType(map, free, same)
  PROVE  /\ r.success \in BOOLEAN
         /\ r.type \in {"no_nat", "full_cone"} \/ r.promiscuity = "promiscuous" => free = {"ip", "port"}
  <1>1. CASE ~Detect!Crucial(map)
    BY <1>1 DEF Detect!DetermineNatType, Detect!NoResult
  <1>2. CASE Detect!Crucial(map)
    <2> DEFINE type == Detect!NatType(map, free, same)
               scheme == Detect!MappingScheme(map)
               promiscuity == Detect!Promiscuity(type, free)
    <2>1. /\ r.success = TRUE /\ r.type = type /\ r.promiscuity = promiscuity
      BY <1>2 DEF Detect!DetermineNatType
    <2>2. type \in {"no_nat", "full_cone"} => free = {"ip", "port"}
      <3>1. free = {"ip", "port"} \/ free = {"port"} \/ "port" \notin free
        OBVIOUS
      <3> QED BY <3>1 DEF Detect!NatType
    <2>3. promiscuity = "promiscuous" => free = {"ip", "port"}
      <3> HIDE DEF type
      <3>1. free = {"ip", "port"} \/ free = {"port"} \/ free = {"ip"} \/ free = {}
        OBVIOUS
      <3> QED BY <3>1 DEF Detect!Promiscuity
    <2> QED BY <2>1, <2>2, <2>3
  <1> QED BY <1>1, <1>2

\* The ports a device gives to the four mapping packets are ports.
LEMMA SchemePorts ==
  ASSUME NEW s \in DOMAIN Detect!Schemes, NEW t \in Detect!Maps
  PROVE  Detect!Schemes[s][t] \in 1..9
  BY DEF Detect!Schemes, Detect!Maps, Detect!MappedTo

\* What a detection hears is what its device lets through; what it tells is once.
DetectInv == Detect!TypeOK /\ Detect!ToldOnce /\ Detect!NeverTooOpen /\ Detect!FirstInv

\* It holds before the first detection.
LEMMA DetectBegins ==
  ASSUME Detect!DetectionAssumption, Detect!Init
  PROVE  DetectInv
  <1>1. Detect!TypeOK
    <2>1. nat.success \in BOOLEAN
      BY DEF Detect!Init, Detect!NoResult
    <2>2. mappings \in [Detect!Maps -> 0..9]
      BY DEF Detect!Init, Detect!Nothing
    <2>3. device \in Detect!Devices /\ got = {} /\ sameIp = FALSE /\ allowed = {} /\ active = FALSE /\ due = {}
          /\ started = 0 /\ called = 0 /\ lost = 0
      BY DEF Detect!Init
    <2>4. 0 \in 0..MaxDetections /\ 0 \in 0..MaxLost
      BY DEF Detect!DetectionAssumption
    <2> QED BY <2>1, <2>2, <2>3, <2>4 DEF Detect!TypeOK
  <1>2. Detect!ToldOnce /\ Detect!NeverTooOpen
    BY DEF Detect!Init, Detect!ToldOnce, Detect!NeverTooOpen, Detect!NoResult
  <1>3. Detect!FirstInv
    BY DEF Detect!Init, Detect!FirstInv, Detect!HeardFromDevice, Detect!Nothing, Detect!Maps
  <1> QED BY <1>1, <1>2, <1>3 DEF DetectInv

\* NNStartNatDetection: whatever the detection before has left, this one has heard nothing.
LEMMA StartDetects ==
  ASSUME Detect!DetectionAssumption, DetectInv, Detect!NNStartNatDetection
  PROVE  DetectInv'
  <1>0. /\ Detect!TypeOK /\ Detect!ToldOnce /\ Detect!FirstInv
        /\ started < MaxDetections /\ ~active /\ started' = started + 1 /\ active' = TRUE /\ allowed' = {}
        /\ device' \in Detect!Devices /\ due' = Detect!Passes(device') /\ lost' = 0
        /\ UNCHANGED <<got, mappings, sameIp, nat, called>>
    BY DEF DetectInv, Detect!NNStartNatDetection, Detect!AllowedAtStart
  <1>1. Detect!TypeOK'
    BY <1>0 DEF Detect!TypeOK, Detect!Passes, Detect!DetectionAssumption
  <1>2. Detect!ToldOnce' /\ Detect!NeverTooOpen'
    BY <1>0 DEF Detect!ToldOnce, Detect!NeverTooOpen, Detect!TypeOK
  <1>3. Detect!HeardFromDevice'
    BY <1>0 DEF Detect!HeardFromDevice, Detect!Passes
  <1>4. Detect!FirstInv'
    <2>1. started' # 0
      BY <1>0 DEF Detect!TypeOK, Detect!DetectionAssumption
    <2>2. CASE started = 0
      <3>1. got = {} /\ (\A t \in Detect!Maps : mappings[t] = 0) /\ sameIp = FALSE
        BY <1>0, <2>2 DEF Detect!FirstInv, Detect!TypeOK
      <3>2. got' = {} /\ (\A t \in Detect!Maps : mappings'[t] = 0) /\ sameIp' = FALSE
        BY <1>0, <3>1
      <3>3. sameIp' = ("map1a" \in got' /\ ~Detect!Translates(device'))
        BY <3>2
      <3>4. got' \union due' = Detect!Passes(device')
        BY <1>0, <3>2
      <3> QED BY <1>0, <1>3, <2>1, <3>2, <3>3, <3>4 DEF Detect!FirstInv
    <2>3. CASE started # 0
      BY <1>0, <1>3, <2>1, <2>3 DEF Detect!FirstInv, Detect!TypeOK, Detect!DetectionAssumption
    <2> QED BY <2>2, <2>3
  <1> QED BY <1>1, <1>2, <1>3, <1>4 DEF DetectInv

\* An answer: the device has let it through.
LEMMA ThinkDetects ==
  ASSUME Detect!DetectionAssumption, DetectInv, NEW t \in Detect!Tests, Detect!Think(t)
  PROVE  DetectInv'
  <1> DEFINE more == CASE t = "ert2" -> {"ip"} [] t = "ert3" -> {"port"} [] OTHER -> {}
  <1>0. /\ Detect!TypeOK /\ Detect!ToldOnce /\ Detect!FirstInv /\ Detect!HeardFromDevice
        /\ active /\ t \in due /\ due' = due \ {t} /\ got' = got \union {t} /\ allowed' = allowed \union more
        /\ mappings' = IF t \in Detect!Maps THEN [mappings EXCEPT ![t] = Detect!Schemes[device.scheme][t]]
                       ELSE mappings
        /\ sameIp' = (IF t = "map1a" THEN ~Detect!Translates(device) ELSE sameIp)
        /\ UNCHANGED <<device, nat, active, started, called, lost>>
    BY DEF DetectInv, Detect!Think, Detect!FirstInv
  <1>1. /\ more \subseteq {"ip", "port"}
        /\ "ip" \in more <=> t = "ert2"
        /\ "port" \in more <=> t = "ert3"
        /\ more \intersect device.filters = {}
    <2>1. t \in Detect!Passes(device)
      BY <1>0 DEF Detect!HeardFromDevice
    <2> QED BY <2>1 DEF Detect!Passes
  <1> HIDE DEF more
  <1>2. Detect!TypeOK'
    <2>1. device.scheme \in DOMAIN Detect!Schemes
      BY <1>0 DEF Detect!TypeOK, Detect!Devices
    <2>2. mappings' \in [Detect!Maps -> 0..9]
      BY <1>0, <2>1, SchemePorts DEF Detect!TypeOK
    <2>3. sameIp' \in BOOLEAN
      BY <1>0 DEF Detect!TypeOK, Detect!Translates
    <2> QED BY <1>0, <1>1, <2>2, <2>3 DEF Detect!TypeOK
  <1>3. Detect!ToldOnce' /\ Detect!NeverTooOpen'
    BY <1>0 DEF Detect!ToldOnce, Detect!NeverTooOpen
  <1>4. Detect!HeardFromDevice'
    BY <1>0, <1>1 DEF Detect!HeardFromDevice
  <1>5. started # 0
    BY <1>0 DEF Detect!ToldOnce, Detect!TypeOK, Detect!DetectionAssumption
  <1>6. ASSUME started <= 1
        PROVE  /\ \A x \in Detect!Maps : mappings'[x] = IF x \in got' THEN Detect!Schemes[device.scheme][x] ELSE 0
               /\ sameIp' = ("map1a" \in got' /\ ~Detect!Translates(device))
               /\ "ip" \in allowed' <=> "ert2" \in got'
               /\ "port" \in allowed' <=> "ert3" \in got'
               /\ active /\ lost = 0 => got' \union due' = Detect!Passes(device)
    <2>0. /\ \A x \in Detect!Maps : mappings[x] = IF x \in got THEN Detect!Schemes[device.scheme][x] ELSE 0
          /\ sameIp = ("map1a" \in got /\ ~Detect!Translates(device))
          /\ "ip" \in allowed <=> "ert2" \in got
          /\ "port" \in allowed <=> "ert3" \in got
          /\ active /\ lost = 0 => got \union due = Detect!Passes(device)
          /\ mappings \in [Detect!Maps -> 0..9]
      BY <1>0, <1>6 DEF Detect!FirstInv, Detect!TypeOK
    <2>1. \A x \in Detect!Maps : mappings'[x] = IF x \in got' THEN Detect!Schemes[device.scheme][x] ELSE 0
      BY <1>0, <2>0
    <2>2. sameIp' = ("map1a" \in got' /\ ~Detect!Translates(device))
      BY <1>0, <2>0
    <2>3. ("ip" \in allowed' <=> "ert2" \in got') /\ ("port" \in allowed' <=> "ert3" \in got')
      BY <1>0, <1>1, <2>0
    <2>4. got' \union due' = got \union due
      BY <1>0
    <2> QED BY <2>0, <2>1, <2>2, <2>3, <2>4
  <1> QED BY <1>0, <1>2, <1>3, <1>4, <1>5, <1>6 DEF DetectInv, Detect!FirstInv

\* An answer is lost.
LEMMA LoseDetects ==
  ASSUME Detect!DetectionAssumption, DetectInv, NEW t \in Detect!Tests, Detect!Lose(t)
  PROVE  DetectInv'
  <1>0. /\ Detect!TypeOK /\ Detect!ToldOnce /\ Detect!NeverTooOpen /\ Detect!FirstInv
        /\ t \in due /\ lost < MaxLost /\ due' = due \ {t} /\ lost' = lost + 1
        /\ UNCHANGED <<device, got, mappings, sameIp, allowed, nat, active, started, called>>
    BY DEF DetectInv, Detect!Lose
  <1>1. lost' # 0 /\ Detect!TypeOK'
    BY <1>0 DEF Detect!TypeOK, Detect!DetectionAssumption
  <1>2. Detect!ToldOnce' /\ Detect!NeverTooOpen'
    BY <1>0 DEF Detect!ToldOnce, Detect!NeverTooOpen
  <1>3. Detect!FirstInv'
    BY <1>0, <1>1 DEF Detect!FirstInv, Detect!HeardFromDevice
  <1> QED BY <1>1, <1>2, <1>3 DEF DetectInv

\* CheckNatifyStatus: what has come is judged, and told.
LEMMA CheckDetects ==
  ASSUME Detect!DetectionAssumption, DetectInv, Detect!CheckNatifyStatus
  PROVE  DetectInv'
  <1>0. /\ Detect!TypeOK /\ Detect!ToldOnce /\ Detect!FirstInv /\ Detect!HeardFromDevice
        /\ active /\ nat' = Detect!DetermineNatType(mappings, allowed, sameIp)
        /\ called' = called + 1 /\ active' = FALSE /\ due' = {}
        /\ UNCHANGED <<device, got, mappings, sameIp, allowed, started, lost>>
    BY DEF DetectInv, Detect!CheckNatifyStatus, Detect!Inactive, Detect!FirstInv
  <1>1. /\ nat'.success \in BOOLEAN
        /\ nat'.type \in {"no_nat", "full_cone"} \/ nat'.promiscuity = "promiscuous" => allowed = {"ip", "port"}
    BY <1>0, OpenWhenReached DEF Detect!TypeOK
  <1>2. allowed = {"ip", "port"} => device.filters = {}
    BY <1>0 DEF Detect!HeardFromDevice, Detect!TypeOK, Detect!Devices, Detect!Filters
  <1>3. Detect!ToldOnce' /\ called' \in 0..MaxDetections
    BY <1>0 DEF Detect!ToldOnce, Detect!TypeOK, Detect!DetectionAssumption
  <1>4. Detect!TypeOK'
    BY <1>0, <1>1, <1>3 DEF Detect!TypeOK
  <1>5. Detect!NeverTooOpen'
    BY <1>0, <1>1, <1>2 DEF Detect!NeverTooOpen
  <1>6. Detect!FirstInv'
    BY <1>0 DEF Detect!FirstInv, Detect!HeardFromDevice
  <1> QED BY <1>3, <1>4, <1>5, <1>6 DEF DetectInv

\* Every step of a detection keeps it.
LEMMA DetectHolds ==
  ASSUME Detect!DetectionAssumption, DetectInv, [Detect!Next]_detection
  PROVE  DetectInv'
  <1>1. CASE UNCHANGED detection
    BY <1>1 DEF detection, DetectInv, Detect!TypeOK, Detect!ToldOnce, Detect!NeverTooOpen, Detect!FirstInv,
                Detect!HeardFromDevice
  <1>2. CASE Detect!Next
    BY <1>2, StartDetects, ThinkDetects, LoseDetects, CheckDetects DEF Detect!Next
  <1> QED BY <1>1, <1>2

-----------------------------------------------------------------------------
\* A device whose answers have all come is told apart from the other devices.
LEMMA AllAnswersTell ==
  ASSUME NEW s \in DOMAIN Detect!Schemes, NEW f \in Detect!Filters, NEW d, d = [scheme |-> s, filters |-> f],
         NEW map \in [Detect!Maps -> 0..9], \A t \in Detect!Maps : map[t] = Detect!Schemes[s][t],
         NEW free \in SUBSET {"ip", "port"}, "ip" \in free <=> "ip" \notin f, "port" \in free <=> "port" \notin f,
         NEW same \in BOOLEAN, same <=> s = "none",
         NEW r, r = Detect!DetermineNatType(map, free, same)
  PROVE  r.success /\ Detect!RightFor(d, r)
  <1>1. /\ s \in {"none", "private_as_public", "consistent", "mixed", "incremental", "random", "per_packet"}
        /\ map["map1a"] = Detect!Schemes[s]["map1a"] /\ map["map1b"] = Detect!Schemes[s]["map1b"]
        /\ map["map2"] = Detect!Schemes[s]["map2"] /\ map["map3"] = Detect!Schemes[s]["map3"]
    BY DEF Detect!Schemes, Detect!Maps
  <1>2. /\ s \in {"none", "private_as_public"} =>
             map["map1a"] = 1 /\ map["map1b"] = 1 /\ map["map2"] = 1 /\ map["map3"] = 1
        /\ s = "consistent" => map["map1a"] = 5 /\ map["map1b"] = 5 /\ map["map2"] = 5 /\ map["map3"] = 5
        /\ s = "mixed" => map["map1a"] = 1 /\ map["map1b"] = 1 /\ map["map2"] = 6 /\ map["map3"] = 7
        /\ s = "incremental" => map["map1a"] = 5 /\ map["map1b"] = 5 /\ map["map2"] = 6 /\ map["map3"] = 7
        /\ s = "random" => map["map1a"] = 5 /\ map["map1b"] = 5 /\ map["map2"] = 9 /\ map["map3"] = 3
        /\ s = "per_packet" => map["map1a"] = 5 /\ map["map1b"] = 6 /\ map["map2"] = 7 /\ map["map3"] = 8
    BY <1>1 DEF Detect!Schemes, Detect!MappedTo
  <1>3. Detect!Crucial(map)
    BY <1>1, <1>2 DEF Detect!Crucial
  <1>4. Detect!PortsDiffer(map) <=> s \in {"mixed", "incremental", "random", "per_packet"}
    BY <1>1, <1>2 DEF Detect!PortsDiffer, Detect!Distance
  <1>5. (map["map1b"] \in {0, map["map1a"]}) = (s # "per_packet")
    BY <1>1, <1>2
  <1>6. \/ f = {} /\ free = {"ip", "port"}
        \/ f = {"ip"} /\ free = {"port"}
        \/ f = {"ip", "port"} /\ free = {}
    BY DEF Detect!Filters
  <1>7. Detect!NatType(map, free, same) = Detect!TypeOf(d)
    <2> HIDE DEF Detect!PortsDiffer
    <2>1. CASE s = "none"
      BY <1>6, <2>1 DEF Detect!NatType, Detect!TypeOf, Detect!Translates
    <2>2. CASE s \in {"mixed", "incremental", "random", "per_packet"}
      BY <1>4, <2>2 DEF Detect!NatType, Detect!TypeOf, Detect!Translates
    <2>3. CASE s \in {"private_as_public", "consistent"}
      BY <1>4, <1>6, <2>3 DEF Detect!NatType, Detect!TypeOf, Detect!Translates
    <2> QED BY <1>1, <2>1, <2>2, <2>3
  <1> QED BY <1>3, <1>5, <1>7 DEF Detect!DetermineNatType, Detect!RightFor

\* A step of a first detection is right about the device.
LEMMA FirstStep ==
  ASSUME Detect!DetectionAssumption, DetectInv, [Detect!Next]_detection
  PROVE  Detect!FirstIsRight
  <1> SUFFICES ASSUME Detect!Completes, started = 1
               PROVE  nat'.success /\ Detect!RightFor(device, nat')
    BY DEF Detect!FirstIsRight
  <1>1. called' = called + 1 /\ called \in Nat /\ lost = 0 /\ (due = {} \/ got = Detect!Tests) /\ Detect!FirstInv
    BY DEF Detect!Completes, DetectInv, Detect!TypeOK, Detect!DetectionAssumption
  <1>2. Detect!CheckNatifyStatus
    <2>1. called' # called
      BY <1>1
    <2> QED BY <2>1 DEF detection, Detect!Next, Detect!NNStartNatDetection, Detect!Think, Detect!Lose
  <1>3. active /\ nat' = Detect!DetermineNatType(mappings, allowed, sameIp)
    BY <1>2 DEF Detect!CheckNatifyStatus
  <1>4. got \union due = Detect!Passes(device) /\ got \subseteq Detect!Tests /\ due \subseteq Detect!Tests
    BY <1>1, <1>3 DEF Detect!FirstInv, DetectInv, Detect!TypeOK
  <1>5. got = Detect!Passes(device)
    BY <1>1, <1>4
  <1>6. /\ \A t \in Detect!Maps : mappings[t] = Detect!Schemes[device.scheme][t]
        /\ sameIp <=> ~Detect!Translates(device)
        /\ "ip" \in allowed <=> "ip" \notin device.filters
        /\ "port" \in allowed <=> "port" \notin device.filters
    <2>1. /\ Detect!Maps \subseteq got /\ "map1a" \in got
          /\ "ert2" \in got <=> "ip" \notin device.filters
          /\ "ert3" \in got <=> "port" \notin device.filters
      BY <1>5 DEF Detect!Passes, Detect!Tests, Detect!ReachTests, Detect!Maps
    <2>2. /\ \A t \in Detect!Maps : mappings[t] = IF t \in got THEN Detect!Schemes[device.scheme][t] ELSE 0
          /\ sameIp = ("map1a" \in got /\ ~Detect!Translates(device))
          /\ "ip" \in allowed <=> "ert2" \in got
          /\ "port" \in allowed <=> "ert3" \in got
      BY <1>1 DEF Detect!FirstInv
    <2>3. \A t \in Detect!Maps : mappings[t] = Detect!Schemes[device.scheme][t]
      BY <2>1, <2>2
    <2>4. sameIp <=> ~Detect!Translates(device)
      BY <2>1, <2>2
    <2> QED BY <2>1, <2>2, <2>3, <2>4
  <1>7. /\ mappings \in [Detect!Maps -> 0..9] /\ allowed \in SUBSET {"ip", "port"} /\ sameIp \in BOOLEAN
        /\ device.scheme \in DOMAIN Detect!Schemes /\ device.filters \in Detect!Filters
        /\ device = [scheme |-> device.scheme, filters |-> device.filters]
    BY DEF DetectInv, Detect!TypeOK, Detect!Devices
  <1> QED BY <1>3, <1>6, <1>7, AllAnswersTell DEF Detect!Translates

-----------------------------------------------------------------------------
\* A negotiation and a detection leave each other alone.
NatInv ==
  /\ part \in {"negotiation", "detection"}
  /\ TypeOK /\ HeardInv /\ (~useQueue => ForwardInv /\ VerdictInv)
  /\ part = "detection" => DetectInv

\* It holds at the start.
LEMMA NatBegins ==
  ASSUME NatAssumption, Detect!DetectionAssumption, NatInit
  PROVE  NatInv
  <1>1. Init /\ (part = "negotiation" \/ (part = "detection" /\ Detect!Init))
    BY DEF NatInit
  <1> QED BY <1>1, NegotiationBegins, DetectBegins DEF NatInv

\* A step of a negotiation, or of a detection, or of neither.
LEMMA NatActs ==
  ASSUME [NatNext]_natVars
  PROVE  /\ UNCHANGED part /\ [Next]_vars
         /\ part = "detection" => [Detect!Next]_detection
  BY DEF NatNext, natVars

\* Every step keeps it.
LEMMA NatHolds ==
  ASSUME NatAssumption, Detect!DetectionAssumption, NatInv, [NatNext]_natVars
  PROVE  NatInv'
  <1>1. UNCHANGED part /\ UNCHANGED useQueue /\ [Next]_vars /\ (part = "detection" => [Detect!Next]_detection)
    BY NatActs, QueueKept
  <1>2. TypeOK' /\ HeardInv'
    BY <1>1, StepTypes, HeardHolds DEF NatInv
  <1>3. ~useQueue => ForwardInv' /\ VerdictInv'
    BY <1>1, ForwardHolds, VerdictHolds DEF NatInv
  <1>4. part = "detection" => DetectInv'
    BY <1>1, DetectHolds DEF NatInv
  <1> QED BY <1>1, <1>2, <1>3, <1>4 DEF NatInv

(***************************************************************************)
(* For any ports, retries, mishaps, detections and lost answers: no client *)
(* is told that its partner is missing when the partner succeeds, and a    *)
(* detection of NATify.c never takes a device for more open than it is,    *)
(* whatever is lost, late or left from the detection before.               *)
(***************************************************************************)
THEOREM NeverMisledHolds ==
  ASSUME NatAssumption, Detect!DetectionAssumption
  PROVE  NatSpec => []NeverMisled
  <1>1. NatInit => NatInv
    BY NatBegins
  <1>2. NatInv /\ [NatNext]_natVars => NatInv'
    BY NatHolds
  <1>3. NatInv => NeverMisled
    BY HeardIsNotMissing DEF NatInv, NeverMisled, DetectInv
  <1> QED BY <1>1, <1>2, <1>3, PTL DEF NatSpec

(***************************************************************************)
(* When every answer came in time, the first detection of the program      *)
(* (DetermineNatType) finds the type of the device, for any number of      *)
(* detections and whatever is lost in the ones after it.                   *)
(***************************************************************************)
THEOREM FirstFindsDeviceHolds ==
  ASSUME NatAssumption, Detect!DetectionAssumption
  PROVE  NatSpec => FirstFindsDevice
  <1>1. NatInit => NatInv
    BY NatBegins
  <1>2. NatInv /\ [NatNext]_natVars => NatInv'
    BY NatHolds
  <1>3. NatInv /\ [NatNext]_natVars => [part = "detection" => Detect!FirstIsRight]_natVars
    BY NatActs, FirstStep DEF NatInv
  <1> QED BY <1>1, <1>2, <1>3, PTL DEF NatSpec, FirstFindsDevice
=============================================================================
