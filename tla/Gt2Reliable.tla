----------------------------- MODULE Gt2Reliable -----------------------------
(***************************************************************************)
(* Reliable messages of a gt2 connection (gt2Message.c, gt2Connection.c):  *)
(* 16-bit serial numbers, messages kept until acknowledged and sent again  *)
(* on a timer or a Nack, messages that come too early held in a buffer,    *)
(* acknowledgements on their own or with a message.  UDP loses, repeats    *)
(* and reorders.                                                           *)
(*                                                                         *)
(* A message is its number in the order of sending; only the number modulo *)
(* Serials is written into a packet or compared.                           *)
(***************************************************************************)
EXTENDS Integers, Sequences, FiniteSets

CONSTANTS
  Serials,   \* 2^16 in the code
  Start,     \* messages each end has sent before: the serial number of the next
  MaxOut,    \* room in the outgoing buffer, in messages
  MaxIn,     \* room in the incoming buffer, in messages
  MaxSends   \* bound on the messages each end sends

End == {0, 1}
Other(e) == 1 - e

\* The buffers hold less than half of the serial numbers: 64 K bytes, at least 7 for a message.
ReliableAssumption ==
  /\ Serials \in Nat /\ Serials > 1 /\ Serials % 2 = 0
  /\ Start \in Nat /\ MaxOut \in Nat /\ MaxIn \in Nat /\ MaxOut < Serials \div 2
  /\ MaxSends \in [End -> Nat]

VARIABLES
  sent,       \* per end: number of the next message (serialNumber, unreduced)
  out,        \* per end: first message not acknowledged; outgoingBufferMessages are out .. sent - 1
  expected,   \* per end: number of the next message it expects (expectedSerialNumber, unreduced)
  hold,       \* per end: incomingBufferMessages
  delivered,  \* per end: messages handed on, in order
  pendingAck, closed,
  net

vars == <<sent, out, expected, hold, delivered, pendingAck, closed, net>>

Half == Serials \div 2
SN(n) == n % Serials

\* Seeded fault: serial numbers are compared as numbers.
PlainDiff(a, b) == SN(a) - SN(b)

\* gti2SNDiff: the difference as a signed short.
SNDiff(a, b) == LET d == (SN(a) - SN(b)) % Serials IN IF d < Half THEN d ELSE d - Serials

Outgoing(e) == out[e] .. (sent[e] - 1)

Init ==
  /\ sent = [e \in End |-> Start] /\ out = sent /\ expected = sent
  /\ hold = [e \in End |-> {}] /\ delivered = [e \in End |-> <<>>]
  /\ pendingAck = [e \in End |-> FALSE] /\ closed = [e \in End |-> FALSE]
  /\ net = {}
-----------------------------------------------------------------------------
Data(e, n, esn) == [kind |-> "data", to |-> Other(e), n |-> n, esn |-> esn]
Ack(e) == [kind |-> "ack", to |-> Other(e), n |-> 0, esn |-> expected[e]]
Nack(e, min, max) == [kind |-> "nack", to |-> Other(e), n |-> max, esn |-> min]
ClosedMessage(e) == [kind |-> "closed", to |-> Other(e), n |-> 0, esn |-> 0]

\* gti2ConnectionMemoryError
MemoryError(e) ==
  /\ closed' = [closed EXCEPT ![e] = TRUE]
  /\ net' = net \union {ClosedMessage(e)}

\* No packet is on its way longer than it takes to send half of the serial numbers.
PacketsAreYoung(e) == \A m \in net :
  /\ m.to = Other(e) /\ m.kind = "data" => sent[e] - m.n < Half
  /\ m.to = e /\ m.kind \in {"data", "ack", "nack"} => sent[e] - m.esn < Half

HasRoom(e) == sent[e] - out[e] < MaxOut

\* gti2BeginReliableMessage, gti2EndReliableMessage: an application message or a keep-alive.
SendReliable(e) ==
  /\ ~closed[e] /\ sent[e] < Start + MaxSends[e] /\ PacketsAreYoung(e)
  /\ \/ /\ HasRoom(e)
        /\ net' = net \union {Data(e, sent[e], expected[e])}
        /\ sent' = [sent EXCEPT ![e] = @ + 1]
        /\ pendingAck' = [pendingAck EXCEPT ![e] = FALSE]
        /\ UNCHANGED closed
     \/ /\ ~HasRoom(e)
        /\ MemoryError(e)
        /\ UNCHANGED <<sent, pendingAck>>
  /\ UNCHANGED <<out, expected, hold, delivered>>

SendRetries(e, n) ==
  /\ ~closed[e] /\ n \in Outgoing(e)
  /\ net' = net \union {Data(e, n, expected[e])}
  /\ UNCHANGED <<sent, out, expected, hold, delivered, pendingAck, closed>>

CheckPendingAck(e) ==
  /\ ~closed[e] /\ pendingAck[e]
  /\ net' = net \union {Ack(e)}
  /\ pendingAck' = [pendingAck EXCEPT ![e] = FALSE]
  /\ UNCHANGED <<sent, out, expected, hold, delivered, closed>>
-----------------------------------------------------------------------------
Unacked(e, n, esn) == SNDiff(n, esn) >= 0

\* gti2HandleESN: the messages before the first that esn does not cover are done with.
HandleESN(e, esn) ==
  LET kept == {n \in Outgoing(e) : Unacked(e, n, esn)}
      first == CHOOSE n \in kept \union {sent[e]} : \A k \in kept : n <= k
  IN out' = [out EXCEPT ![e] = IF kept = {} THEN sent[e] ELSE first]

\* The messages held that follow number n without a gap.
Run(held, n) ==
  {k \in n .. (n + Cardinality(held)) :
     \A j \in n .. k : \E h \in held : SN(h) = SN(j)}
Held(held, n) == CHOOSE h \in held : SN(h) = SN(n)

\* gti2DeliverReliableMessage, then gti2DeliverHoldMessages until none is expected.
Deliver(e, m) ==
  LET run == Run(hold[e], expected[e] + 1)
      last == expected[e] + Cardinality(run)
  IN
  /\ delivered' = [delivered EXCEPT ![e] =
       @ \o <<m.n>> \o [i \in 1 .. Cardinality(run) |-> Held(hold[e], expected[e] + i)]]
  /\ expected' = [expected EXCEPT ![e] = last + 1]
  /\ hold' = [hold EXCEPT ![e] = @ \ {Held(@, k) : k \in run}]

AlreadyHeld(e, n) == \E h \in hold[e] : SN(h) = SN(n)

\* The last of those held, and a gap before n if it becomes the last.
MissingBefore(e, n) ==
  IF hold[e] = {} THEN {<<expected[e], n - 1>>}
  ELSE LET prev == CHOOSE h \in hold[e] : \A k \in hold[e] : SNDiff(h, k) >= 0
       IN IF SNDiff(n, prev) > 1 THEN {<<prev + 1, n - 1>>} ELSE {}

\* gti2BufferIncomingMessage
BufferIncoming(e, m, rest) ==
  \/ /\ AlreadyHeld(e, m.n)
     /\ net' = rest /\ UNCHANGED <<hold, closed>>
  \/ /\ ~AlreadyHeld(e, m.n) /\ Cardinality(hold[e]) < MaxIn
     /\ hold' = [hold EXCEPT ![e] = @ \union {m.n}]
     /\ net' = rest \union {Nack(e, gap[1], gap[2]) : gap \in MissingBefore(e, m.n)}
     /\ UNCHANGED closed
  \/ /\ ~AlreadyHeld(e, m.n) /\ Cardinality(hold[e]) >= MaxIn
     /\ closed' = [closed EXCEPT ![e] = TRUE]
     /\ net' = rest \union {ClosedMessage(e)}
     /\ UNCHANGED hold

\* UDP may deliver a packet once more.
Rest(m) == {net, net \ {m}}

\* Seeded fault: an old message is taken for the expected one.
NotAhead(e, n) == SNDiff(n, expected[e]) <= 0

IsExpected(e, n) == SN(n) = SN(expected[e])

HandleReliableMessage(e, m) ==
  /\ ~closed[e] /\ m.to = e /\ m.kind = "data"
  /\ HandleESN(e, m.esn)
  /\ \E rest \in Rest(m) :
       \/ /\ IsExpected(e, m.n)
          /\ Deliver(e, m) /\ net' = rest
          /\ pendingAck' = [pendingAck EXCEPT ![e] = TRUE] /\ UNCHANGED closed
       \/ /\ ~IsExpected(e, m.n) /\ SNDiff(m.n, expected[e]) < 0
          /\ pendingAck' = [pendingAck EXCEPT ![e] = TRUE]
          /\ net' = rest /\ UNCHANGED <<expected, hold, delivered, closed>>
       \/ /\ SNDiff(m.n, expected[e]) > 0
          /\ BufferIncoming(e, m, rest) /\ UNCHANGED <<expected, delivered, pendingAck>>
  /\ UNCHANGED sent

HandleAck(e, m) ==
  /\ ~closed[e] /\ m.to = e /\ m.kind = "ack"
  /\ HandleESN(e, m.esn)
  /\ net' \in Rest(m)
  /\ UNCHANGED <<sent, expected, hold, delivered, pendingAck, closed>>

HandleNack(e, m) ==
  /\ ~closed[e] /\ m.to = e /\ m.kind = "nack"
  /\ \E rest \in Rest(m) :
       net' = rest \union {Data(e, n, expected[e]) :
                n \in {k \in Outgoing(e) : SNDiff(k, m.esn) >= 0 /\ SNDiff(k, m.n) <= 0}}
  /\ UNCHANGED <<sent, out, expected, hold, delivered, pendingAck, closed>>

\* A Closed message, or any message to a connection that is closed, which is answered with one.
HandleClosed(e, m) ==
  /\ m.to = e
  /\ \/ ~closed[e] /\ m.kind = "closed" /\ closed' = [closed EXCEPT ![e] = TRUE] /\ net' = net \ {m}
     \/ closed[e] /\ UNCHANGED closed
        /\ net' = (net \ {m}) \union IF m.kind = "closed" THEN {} ELSE {ClosedMessage(e)}
  /\ UNCHANGED <<sent, out, expected, hold, delivered, pendingAck>>

Lose(m) == net' = net \ {m} /\ UNCHANGED <<sent, out, expected, hold, delivered, pendingAck, closed>>
-----------------------------------------------------------------------------
HandleMessage(e, m) ==
  HandleReliableMessage(e, m) \/ HandleAck(e, m) \/ HandleNack(e, m) \/ HandleClosed(e, m)

ConnectionThink(e) == CheckPendingAck(e) \/ \E n \in Outgoing(e) : SendRetries(e, n)

Next ==
  \/ \E e \in End : SendReliable(e) \/ ConnectionThink(e)
  \/ \E m \in net : HandleMessage(m.to, m) \/ Lose(m)

Spec == Init /\ [][Next]_vars

\* What gt2Think, called again and again, and a net that passes what is sent often enough come to.
Arrives(e, n) == \E m \in net : m.n = n /\ HandleReliableMessage(e, m)
-----------------------------------------------------------------------------
TypeOK ==
  /\ sent \in [End -> Nat] /\ out \in [End -> Nat] /\ expected \in [End -> Nat]
  /\ hold \in [End -> SUBSET Nat] /\ pendingAck \in [End -> BOOLEAN] /\ closed \in [End -> BOOLEAN]
  /\ \A e \in End : out[e] <= sent[e] /\ sent[e] - out[e] <= MaxOut /\ Cardinality(hold[e]) <= MaxIn

(***************************************************************************)
(* The messages an end hands on are the other's, each once, in the order   *)
(* they were sent, whatever UDP does and past the wrap of the numbers.     *)
(***************************************************************************)
InOrderOnce ==
  \A e \in End : /\ \A i \in DOMAIN delivered[e] : delivered[e][i] = Start + i - 1
                 /\ Start + Len(delivered[e]) <= sent[Other(e)]

(***************************************************************************)
(* gt2WasMessageIDConfirmed is true of a message only when the other end   *)
(* has handed it on.                                                       *)
(***************************************************************************)
WasMessageIDConfirmed(e, n) == Outgoing(e) = {} \/ SNDiff(n, out[e]) < 0
ConfirmedIsDelivered ==
  \A e \in End : \A n \in Start .. (sent[e] - 1) :
    sent[e] - n < Half /\ WasMessageIDConfirmed(e, n) => n < Start + Len(delivered[Other(e)])

(***************************************************************************)
(* Why.  What an end expects lies between what the other has been told is  *)
(* there and what it has sent, what is held lies beyond, and whatever is   *)
(* on its way is young enough for its number to be understood.             *)
(***************************************************************************)
InStep(e) ==
  /\ out[Other(e)] <= expected[e] /\ expected[e] <= sent[Other(e)]
  /\ expected[e] = Start + Len(delivered[e])
  /\ \A i \in DOMAIN delivered[e] : delivered[e][i] = Start + i - 1
  /\ hold[e] \subseteq (expected[e] + 1) .. (sent[Other(e)] - 1)

Young(m) ==
  /\ m.to \in End
  /\ m.kind = "data" =>
       m.n \in Int /\ m.n < sent[Other(m.to)] /\ sent[Other(m.to)] - m.n <= Half
  /\ m.kind \in {"data", "ack"} =>
       m.esn \in Int /\ m.esn <= expected[Other(m.to)] /\ sent[m.to] - m.esn <= Half

ReliableInv ==
  /\ delivered \in [End -> Seq(Int)]
  /\ \A e \in End : InStep(e)
  /\ \A m \in net : Young(m)

(***************************************************************************)
(* The types, and what the two ends always know of each other.             *)
(***************************************************************************)
ReliableHolds == TypeOK /\ ReliableInv /\ ConfirmedIsDelivered
=============================================================================
