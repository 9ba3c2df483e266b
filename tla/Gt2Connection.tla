---------------------------- MODULE Gt2Connection ----------------------------
(***************************************************************************)
(* The life of a gt2 connection at its two ends (gt2Message.c,             *)
(* gt2Connection.c, gt2Callback.c): challenges, accept or reject, data,    *)
(* soft and hard close, time-outs, a peer that disappears and one that     *)
(* comes back at the same address.  Gt2Reliable has the serial numbers and *)
(* resends in detail; here any message may arrive late or again, and one   *)
(* that comes too early is held.                                           *)
(*                                                                         *)
(* A closed connection leaves the table of its socket at once: what comes  *)
(* for it finds no connection ("None").                                    *)
(***************************************************************************)
EXTENDS Integers, Sequences, FiniteSets

VARIABLES
  may,       \* what may happen: see Possible
  up,        \* per end: whether its socket exists
  state,     \* per end: state of the connection in the socket's table
  id,        \* per end: how many objects it has made; the number of the present one
  partner,   \* per end: the object at the other end that it has authenticated, 0 for none
  sentBy,    \* per end: its reliable messages in order
  acked,     \* per end: how many of them are acknowledged
  got,       \* per end: how many messages it has delivered
  held,      \* per end: messages that came too early, by number
  told,      \* per end: callbacks of the present object, in order
  received,  \* per end: the data messages handed on, by the object that sent each
  closedMsg, \* ends to which a Closed message is on its way
  accepted,  \* client objects the server's program has accepted
  crashes

vars == <<may, up, state, id, partner, sentBy, acked, got, held, told, received, closedMsg, accepted, crashes>>

End == {"client", "server"}
Other(e) == IF e = "client" THEN "server" ELSE "client"

\* Bounds on the objects each end makes, the reliable messages of one and the times an end disappears;
\* the ends whose program closes the connection; whether they may do it hard.
Possible == [objects : Nat, sent : Nat, crashes : Nat, closers : SUBSET End, hard : BOOLEAN]

Negotiating == {"AwaitingServerChallenge", "AwaitingAcceptance",
                "AwaitingClientChallenge", "AwaitingClientResponse", "AwaitingAcceptReject"}
Kinds == {"ClientChallenge", "ServerChallenge", "ClientResponse", "Accept", "Reject", "Data", "Close", "KeepAlive"}

Init ==
  /\ may \in Possible
  /\ up = [e \in End |-> TRUE] /\ state = [e \in End |-> "None"]
  /\ id = [e \in End |-> 0] /\ partner = id /\ acked = id /\ got = id
  /\ sentBy = [e \in End |-> <<>>] /\ told = sentBy /\ received = sentBy
  /\ held = [e \in End |-> [n \in {} |-> 0]]
  /\ closedMsg = {} /\ accepted = {} /\ crashes = 0
-----------------------------------------------------------------------------
(* kind; object that sends it; object whose challenge it answers; messages it acknowledges. *)
Reply(e, kind, re, esn) ==
  sentBy' = [sentBy EXCEPT ![e] = Append(@, [kind |-> kind, from |-> id[e], re |-> re, esn |-> esn])]
Send(e, kind) == Reply(e, kind, 0, got[e])
SendClosed(e) == closedMsg' = closedMsg \union {Other(e)}

HasCallbacks(e) == e = "client" \/ "accepted" \in {told[e][i] : i \in DOMAIN told[e]}
Tell(e, what) == told' = [told EXCEPT ![e] = IF HasCallbacks(e) THEN Append(@, what) ELSE @]

\* gti2ConnectionError: the client is told of a failed attempt, both of the end of a connection.
ConnectionError(e) ==
  /\ state' = [state EXCEPT ![e] = "None"]
  /\ \/ state[e] \in Negotiating /\ e = "client" /\ Tell(e, "failed")
     \/ state[e] \in Negotiating /\ e = "server" /\ UNCHANGED told
     \/ state[e] \notin Negotiating /\ Tell(e, "closed")

NewObject(e) ==
  /\ id[e] < may.objects
  /\ id' = [id EXCEPT ![e] = @ + 1]
  /\ partner' = [partner EXCEPT ![e] = 0]
  /\ acked' = [acked EXCEPT ![e] = 0]
  /\ told' = [told EXCEPT ![e] = <<>>]
  /\ received' = [received EXCEPT ![e] = <<>>]
  /\ held' = [held EXCEPT ![e] = [n \in {} |-> 0]]

\* gt2Connect
Connect ==
  /\ up["client"] /\ state["client"] = "None" /\ NewObject("client")
  /\ got' = [got EXCEPT !["client"] = 0]
  /\ state' = [state EXCEPT !["client"] = "AwaitingServerChallenge"]
  /\ sentBy' = [sentBy EXCEPT !["client"] =
       <<[kind |-> "ClientChallenge", from |-> id["client"] + 1, re |-> 0, esn |-> 0]>>]
  /\ UNCHANGED <<up, closedMsg, accepted, crashes>>
-----------------------------------------------------------------------------

\* gti2CheckResponse
CheckResponse(e, m) == m.re = id[e]

\* The state a message is for, and the state after it.
Expects(kind) ==
  CASE kind = "ServerChallenge" -> {"AwaitingServerChallenge"}
    [] kind = "ClientChallenge" -> {"AwaitingClientChallenge"}
    [] kind = "ClientResponse" -> {"AwaitingClientResponse"}
    [] kind \in {"Accept", "Reject"} -> {"AwaitingAcceptance"}
    [] kind = "Data" -> {"Connected", "Closing"}
    [] OTHER -> Negotiating \union {"Connected", "Closing"}

CommunicationError(e) ==
  ConnectionError(e) /\ UNCHANGED <<partner, sentBy, received, closedMsg>>

HandleServerChallenge(e, m) ==
  IF CheckResponse(e, m)
  THEN /\ Reply(e, "ClientResponse", m.from, got[e] + 1)
       /\ state' = [state EXCEPT ![e] = "AwaitingAcceptance"]
       /\ partner' = [partner EXCEPT ![e] = m.from]
       /\ UNCHANGED <<told, received, closedMsg>>
  ELSE CommunicationError(e)

HandleClientResponse(e, m) ==
  IF CheckResponse(e, m)
  THEN /\ state' = [state EXCEPT ![e] = "AwaitingAcceptReject"]
       /\ partner' = [partner EXCEPT ![e] = m.from]
       /\ UNCHANGED <<sentBy, told, received, closedMsg>>
  ELSE CommunicationError(e)

HandleAccept(e) ==
  /\ state' = [state EXCEPT ![e] = "Connected"]
  /\ Tell(e, "connected")
  /\ UNCHANGED <<partner, sentBy, received, closedMsg>>

HandleReject(e) ==
  /\ SendClosed(e)
  /\ state' = [state EXCEPT ![e] = "None"]
  /\ Tell(e, "failed")
  /\ UNCHANGED <<partner, sentBy, received>>

HandleClose(e) ==
  SendClosed(e) /\ ConnectionError(e) /\ UNCHANGED <<partner, sentBy, received>>

HandleAppReliable(e, m) ==
  /\ received' = [received EXCEPT ![e] = Append(@, m.from)]
  /\ UNCHANGED <<state, partner, sentBy, told, closedMsg>>

HandleKeepAlive(e) == UNCHANGED <<state, partner, sentBy, received, told, closedMsg>>

\* gti2DeliverReliableMessage
DeliverReliableMessage(e, m) ==
  IF state[e] \notin Expects(m.kind) THEN CommunicationError(e)
  ELSE \/ m.kind = "ServerChallenge" /\ HandleServerChallenge(e, m)
       \/ m.kind = "ClientResponse" /\ HandleClientResponse(e, m)
       \/ m.kind = "Accept" /\ HandleAccept(e)
       \/ m.kind = "Reject" /\ HandleReject(e)
       \/ m.kind = "Data" /\ HandleAppReliable(e, m)
       \/ m.kind = "Close" /\ HandleClose(e)
       \/ m.kind = "KeepAlive" /\ HandleKeepAlive(e)

\* gti2HandleESN
AckUpTo(e, esn) ==
  acked' = [acked EXCEPT ![e] =
    IF esn > @ THEN IF esn < Len(sentBy[e]) THEN esn ELSE Len(sentBy[e]) ELSE @]

\* A message on its way or sent again; what is acknowledged may still be on its way.
Arriving(e, n) == n \in DOMAIN sentBy[Other(e)]

\* The message with the next number: from the other end, or held.
DeliverNext(e) ==
  LET n == got[e] + 1 IN
  /\ state[e] # "None" /\ up[e]
  /\ \/ /\ Arriving(e, n) /\ n \notin DOMAIN held[e]
        /\ AckUpTo(e, sentBy[Other(e)][n].esn)
        /\ DeliverReliableMessage(e, sentBy[Other(e)][n])
        /\ UNCHANGED held
     \/ /\ n \in DOMAIN held[e]
        /\ DeliverReliableMessage(e, held[e][n])
        /\ held' = [held EXCEPT ![e] = [k \in DOMAIN @ \ {n} |-> @[k]]]
        /\ UNCHANGED acked
  /\ got' = [got EXCEPT ![e] = n]
  /\ UNCHANGED <<up, id, accepted, crashes>>

\* gti2BufferIncomingMessage
Hold(e) ==
  /\ up[e] /\ state[e] # "None"
  /\ \E n \in got[e] + 2 .. Len(sentBy[Other(e)]) :
       /\ Arriving(e, n) /\ n \notin DOMAIN held[e]
       /\ AckUpTo(e, sentBy[Other(e)][n].esn)
       /\ held' = [held EXCEPT ![e] =
            [k \in DOMAIN @ \union {n} |-> IF k = n THEN sentBy[Other(e)][n] ELSE @[k]]]
  /\ UNCHANGED <<up, state, id, partner, sentBy, got, told, received, closedMsg, accepted, crashes>>

AnsweredClosed(e, m) == e = "client" \/ m.kind # "ClientChallenge"

\* A message to a socket that has no connection for it: a challenge makes one, others are answered Closed.
NoConnection(e) ==
  /\ up[e] /\ state[e] = "None"
  /\ \E n \in 1 .. Len(sentBy[Other(e)]) :
       /\ Arriving(e, n)
       /\ LET m == sentBy[Other(e)][n] IN
          \/ /\ e = "server" /\ m.kind = "ClientChallenge" /\ NewObject(e)
             /\ state' = [state EXCEPT ![e] = "AwaitingClientResponse"]
             /\ got' = [got EXCEPT ![e] = 1]
             /\ sentBy' = [sentBy EXCEPT ![e] =
                  <<[kind |-> "ServerChallenge", from |-> id[e] + 1, re |-> m.from, esn |-> 1]>>]
             /\ UNCHANGED closedMsg
          \/ /\ AnsweredClosed(e, m)
             /\ SendClosed(e)
             /\ UNCHANGED <<state, id, partner, sentBy, acked, got, held, told, received>>
  /\ UNCHANGED <<up, accepted, crashes>>

\* gti2CheckPendingAck, gti2HandleAck
Ack(e) ==
  /\ state[e] # "None" /\ state[Other(e)] # "None" /\ acked[e] < Len(sentBy[e])
  /\ AckUpTo(e, got[Other(e)]) /\ acked' # acked
  /\ UNCHANGED <<up, state, id, partner, sentBy, got, held, told, received, closedMsg, accepted, crashes>>

\* gti2HandleClosed; without a connection it is not answered.
HandleClosed(e) ==
  /\ up[e] /\ e \in closedMsg
  /\ closedMsg' = closedMsg \ {e}
  /\ \/ state[e] # "None" /\ ConnectionError(e)
     \/ state[e] = "None" /\ UNCHANGED <<state, told>>
  /\ UNCHANGED <<up, id, partner, sentBy, acked, got, held, received, accepted, crashes>>

LoseClosed == \E e \in closedMsg :
  /\ closedMsg' = closedMsg \ {e}
  /\ UNCHANGED <<up, state, id, partner, sentBy, acked, got, held, told, received, accepted, crashes>>
-----------------------------------------------------------------------------
\* gt2Accept
Accept ==
  /\ state["server"] = "AwaitingAcceptReject"
  /\ Send("server", "Accept")
  /\ state' = [state EXCEPT !["server"] = "Connected"]
  /\ told' = [told EXCEPT !["server"] = <<"accepted">>]
  /\ accepted' = accepted \union {partner["server"]}
  /\ UNCHANGED <<up, id, partner, acked, got, held, received, closedMsg, crashes>>

\* gt2Reject
Reject ==
  /\ state["server"] = "AwaitingAcceptReject"
  /\ Send("server", "Reject")
  /\ state' = [state EXCEPT !["server"] = "Closing"]
  /\ UNCHANGED <<up, id, partner, acked, got, held, told, received, closedMsg, accepted, crashes>>

\* gt2Send
SendData(e) ==
  /\ state[e] = "Connected" /\ Len(sentBy[e]) < may.sent
  /\ Send(e, "Data")
  /\ UNCHANGED <<up, state, id, partner, acked, got, held, told, received, closedMsg, accepted, crashes>>

\* Seeded fault: the close is also announced out of the order of the messages.
CloseAtOnce(e) == Send(e, "Close") /\ SendClosed(e)

SendClose(e) == Send(e, "Close") /\ UNCHANGED closedMsg

\* gt2CloseConnection, gt2CloseAllConnections
CloseSoft(e) ==
  /\ e \in may.closers /\ state[e] \notin {"None", "Closing"}
  /\ SendClose(e)
  /\ state' = [state EXCEPT ![e] = "Closing"]
  /\ UNCHANGED <<up, id, partner, acked, got, held, told, received, accepted, crashes>>

\* gt2CloseConnectionHard
CloseHard(e) ==
  /\ may.hard /\ e \in may.closers /\ state[e] # "None"
  /\ state' = [state EXCEPT ![e] = "None"]
  /\ SendClosed(e) /\ Tell(e, "closed")
  /\ UNCHANGED <<up, id, partner, sentBy, acked, got, held, received, accepted, crashes>>

TimesOut == Negotiating \ {"AwaitingAcceptReject"}

\* gti2CheckTimeout: a connection that is connected or closing never times out.
CheckTimeout(e) ==
  /\ state[e] \in TimesOut
  /\ SendClosed(e)
  /\ state' = [state EXCEPT ![e] = "None"]
  /\ Tell(e, "failed")
  /\ UNCHANGED <<up, id, partner, sentBy, acked, got, held, received, accepted, crashes>>

\* gti2CheckKeepAlive: resends count as sends, so one is sent only when nothing is left to acknowledge.
CheckKeepAlive(e) ==
  /\ state[e] # "None" /\ acked[e] = Len(sentBy[e]) /\ Len(sentBy[e]) < may.sent
  /\ Send(e, "KeepAlive")
  /\ UNCHANGED <<up, state, id, partner, acked, got, held, told, received, closedMsg, accepted, crashes>>

Crash(e) ==
  /\ up[e] /\ crashes < may.crashes
  /\ crashes' = crashes + 1
  /\ up' = [up EXCEPT ![e] = FALSE]
  /\ state' = [state EXCEPT ![e] = "None"]
  /\ told' = [told EXCEPT ![e] = <<>>]
  /\ UNCHANGED <<id, partner, sentBy, acked, got, held, received, closedMsg, accepted>>

Restart(e) ==
  /\ ~up[e] /\ up' = [up EXCEPT ![e] = TRUE]
  /\ UNCHANGED <<state, id, partner, sentBy, acked, got, held, told, received, closedMsg, accepted, crashes>>
-----------------------------------------------------------------------------
ReceiveMessages(e) == DeliverNext(e) \/ Hold(e) \/ NoConnection(e) \/ HandleClosed(e) \/ Ack(e)

Step ==
  \/ Connect \/ Accept \/ Reject \/ LoseClosed
  \/ \E e \in End : \/ ReceiveMessages(e) \/ CheckTimeout(e) \/ CheckKeepAlive(e)
                    \/ SendData(e) \/ CloseSoft(e) \/ CloseHard(e)
                    \/ Crash(e) \/ Restart(e)

Next == Step /\ UNCHANGED may

Spec == Init /\ [][Next]_vars
-----------------------------------------------------------------------------
Messages == [kind : Kinds, from : Nat, re : Nat, esn : Nat]
Notices == {"accepted", "connected", "failed", "closed"}

TypeOK ==
  /\ may \in Possible
  /\ up \in [End -> BOOLEAN] /\ state \in [End -> Negotiating \union {"None", "Connected", "Closing"}]
  /\ id \in [End -> 0 .. may.objects] /\ partner \in [End -> Nat] /\ got \in [End -> Nat]
  /\ sentBy \in [End -> Seq(Messages)]
  /\ acked \in [End -> Nat] /\ \A e \in End : acked[e] <= Len(sentBy[e])
  /\ DOMAIN held = End
  /\ \A e \in End : \A n \in DOMAIN held[e] : n \in Nat /\ held[e][n] \in Messages
  /\ told \in [End -> Seq(Notices)] /\ received \in [End -> Seq(Nat)]
  /\ closedMsg \subseteq End /\ crashes \in 0 .. may.crashes

(***************************************************************************)
(* What the challenges show: an end that has authenticated the present     *)
(* object at the other end is the object that one answers.                 *)
(***************************************************************************)
ChallengeAnswered ==
  /\ state["client"] = "AwaitingAcceptance" /\ state["server"] # "None" /\ partner["client"] = id["server"]
       => sentBy["server"][1].re = id["client"]
  /\ state["server"] = "AwaitingAcceptReject" => sentBy["server"][1].re = partner["server"]

(***************************************************************************)
(* gt2.h: the connected callback comes when an attempt finishes.  So an    *)
(* end is told that a connection is closed only after it was told it was   *)
(* there, and once, if only the server's program closes, and softly.       *)
(***************************************************************************)
ServerCloses == may.closers \subseteq {"server"} /\ ~may.hard
ToldInOrder ==
  ServerCloses => \A e \in End :
    told[e] \in {<<>>, <<"connected">>, <<"accepted">>, <<"failed">>,
                 <<"connected", "closed">>, <<"accepted", "closed">>}

(***************************************************************************)
(* gt2.h: "guaranteed to arrive".  When an end whose program closed softly *)
(* is told of the close, what it had sent has been handed on at the other, *)
(* unless that one never got to be connected.  That is so for the first    *)
(* connection of two ends that do not disappear.                           *)
(***************************************************************************)
First == crashes = 0 /\ \A e \in End : id[e] <= 1
DataSent(e) == {i \in DOMAIN sentBy[e] : sentBy[e][i].kind = "Data"}
ClosedSoftly(e) ==
  /\ told[e] # <<>> /\ told[e][Len(told[e])] = "closed" /\ told[Other(e)] # <<"failed">>
  /\ \E i \in DOMAIN sentBy[e] : sentBy[e][i].kind = "Close"
SoftCloseLosesNothing ==
  ServerCloses /\ First =>
    \A e \in End : ClosedSoftly(e) => Len(received[Other(e)]) >= Cardinality(DataSent(e))
-----------------------------------------------------------------------------
(***************************************************************************)
(* The inductive invariant: why the challenges tell the objects apart, and *)
(* why what comes in order comes before the close.                         *)
(***************************************************************************)
\* Messages that e may still get.
InHand(e) ==
  {sentBy[Other(e)][n] : n \in DOMAIN sentBy[Other(e)]} \union {held[e][n] : n \in DOMAIN held[e]}

\* The client object that the present server object answers.
Answered == sentBy["server"][1].re

\* A server challenge or a response that is about the present server object is about who it answers.
AuthInv ==
  /\ state["client"] \notin {"AwaitingClientChallenge", "AwaitingClientResponse", "AwaitingAcceptReject"}
  /\ state["server"] \notin {"AwaitingServerChallenge", "AwaitingAcceptance", "AwaitingClientChallenge"}
  /\ \A e \in End : state[e] # "None" => id[e] > 0
  /\ id["server"] > 0 => /\ sentBy["server"] # <<>> /\ sentBy["server"][1].kind = "ServerChallenge"
                         /\ sentBy["server"][1].from = id["server"]
  /\ \A m \in InHand("client") : m.kind = "ServerChallenge" =>
       m.from \in 1 .. id["server"] /\ (m.from = id["server"] => m.re = Answered)
  /\ \A m \in InHand("server") : m.kind = "ClientResponse" =>
       m.re \in 1 .. id["server"] /\ (m.re = id["server"] => m.from = Answered)
  /\ partner["client"] <= id["server"] /\ (state["client"] = "AwaitingAcceptance" => partner["client"] > 0)
  /\ state["client"] = "AwaitingAcceptance" /\ partner["client"] = id["server"] => Answered = id["client"]
  /\ state["server"] = "AwaitingAcceptReject" => Answered = partner["server"]

\* What an end has been told when only the server closes, and softly.
ToldInv ==
  ServerCloses =>
    /\ state["client"] # "Closing"
    /\ \A e \in End :
         /\ state[e] \in Negotiating => told[e] = <<>>
         /\ state[e] = "Connected" => told[e] = IF e = "client" THEN <<"connected">> ELSE <<"accepted">>
         /\ state[e] = "Closing" => told[e] \in {<<>>, <<"accepted">>}
    /\ told["client"] \in {<<>>, <<"connected">>, <<"failed">>, <<"connected", "closed">>}
    /\ told["server"] \in {<<>>, <<"accepted">>, <<"accepted", "closed">>}
    /\ \A i \in DOMAIN sentBy["client"] :
         sentBy["client"][i].kind \in {"ClientChallenge", "ClientResponse", "Data", "KeepAlive"}

\* In which order the messages of an end come: S after a message of kind k.
After(e, k, S) ==
  \A i, j \in DOMAIN sentBy[e] : i < j /\ sentBy[e][i].kind = k => sentBy[e][j].kind \in S
Sent(e, k) == \E i \in DOMAIN sentBy[e] : sentBy[e][i].kind = k
Had(e, k) == \E i \in 1 .. got[e] : sentBy[Other(e)][i].kind = k
DataHad == {i \in DataSent("server") : i <= got["client"]}

\* What an end has had or holds is what the other sent.
HandsInOrder ==
  \A e \in End : /\ got[e] <= Len(sentBy[Other(e)])
                 /\ \A n \in DOMAIN held[e] : n \in DOMAIN sentBy[Other(e)] /\ held[e][n] = sentBy[Other(e)][n]

\* Nothing happens before the client connects, and little before the server hears of it.
BeginsInOrder ==
  /\ id["client"] = 0 <=> sentBy["client"] = <<>>
  /\ id["client"] = 0 => id["server"] = 0 /\ closedMsg = {}
  /\ id["server"] = 0 => /\ sentBy["server"] = <<>> /\ told["server"] = <<>> /\ acked["client"] = 0
                         /\ Len(sentBy["client"]) <= 1
                         /\ \A i \in DOMAIN sentBy["client"] : sentBy["client"][i].kind = "ClientChallenge"

ServerSaysInOrder ==
  /\ Sent("server", "Accept") \/ Sent("server", "Data") => told["server"] # <<>>
  /\ Sent("server", "Reject") => told["server"] = <<>>
  /\ Sent("server", "Reject") \/ Sent("server", "Close") => state["server"] \in {"Closing", "None"}
  /\ After("server", "Accept", {"Data", "KeepAlive", "Close"}) /\ After("server", "Close", {"KeepAlive"})

ClientSaysInOrder ==
  /\ After("client", "ClientResponse", {"Data", "KeepAlive"})
  /\ state["client"] = "AwaitingServerChallenge" => ~Sent("client", "ClientResponse")

HearsInOrder ==
  /\ state["client"] = "Connected" => Had("client", "Accept")
  /\ state["server"] = "AwaitingAcceptReject" \/ told["server"] # <<>> => Had("server", "ClientResponse")
  /\ state["client"] # "None" => Len(received["client"]) = Cardinality(DataHad)

OrderInv == HandsInOrder /\ BeginsInOrder /\ ServerSaysInOrder /\ ClientSaysInOrder /\ HearsInOrder

\* The client is there and nobody has said Closed, or it failed, or it has had all.
Serving ==
  id["client"] > 0 /\ \/ id["server"] = 0 \/ told["server"] # <<>>
                      \/ state["server"] \in {"AwaitingClientResponse", "AwaitingAcceptReject"}
Together ==
  state["client"] # "None" /\ closedMsg = {} /\ (told["server"] # <<>> => state["server"] \in {"Connected", "Closing"})
AllHad ==
  /\ Len(received["client"]) >= Cardinality(DataSent("server"))
  /\ id["server"] > 0 /\ state["server"] \in {"Closing", "None"}
EndInv == Serving => Together \/ told["client"] = <<"failed">> \/ AllHad

ConnectionInv == TypeOK /\ AuthInv /\ ToldInv /\ (ServerCloses /\ First => OrderInv /\ EndInv)
=============================================================================
