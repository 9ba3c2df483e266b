------------------------------ MODULE Gt2Proofs ------------------------------
(***************************************************************************)
(* Theorems about gt2.  Gt2Reliable, for any even number of serial numbers *)
(* and any buffers smaller than half of it: messages are handed on once,   *)
(* in order, past any wrap of their numbers; a number read modulo Serials  *)
(* is understood because what it names is less than half of Serials away.  *)
(* Gt2Sockets, for any connections, any depth of calls and any program:    *)
(* the frames on the stack say which connection and how much of the table  *)
(* must still be there, and SocketsInv that it is.  Gt2Connection, for any *)
(* number of objects, messages and crashes: ConnectionInv says what each   *)
(* end can have said, heard and been told when, and how the ends stand     *)
(* while the server serves the client.                                     *)
(***************************************************************************)
EXTENDS MCGt2, SequenceTheorems, FiniteSetTheorems, TLAPS

-----------------------------------------------------------------------------
(***************************************************************************)
(* Serial numbers                                                          *)
(***************************************************************************)

\* A multiple of N nearer to 0 than N is 0.
LEMMA NearMultiple ==
  ASSUME NEW N \in Nat, N > 0, NEW u \in Int, -N < N * u, N * u < N
  PROVE  u = 0
  <1>1. CASE u >= 1
    BY <1>1
  <1>2. CASE u <= -1
    BY <1>2
  <1> QED BY <1>1, <1>2

\* A multiple of N below 0 and above -2N is -N.
LEMMA NextMultiple ==
  ASSUME NEW N \in Nat, N > 0, NEW u \in Int, -N - N < N * u, N * u < 0
  PROVE  u = -1
  <1>1. CASE u >= 0
    BY <1>1
  <1>2. CASE u <= -2
    <2>1. N * u <= N * (-2)
      BY <1>2
    <2> QED BY <2>1
  <1> QED BY <1>1, <1>2

\* Division with rest.
LEMMA Divided ==
  ASSUME NEW N \in Nat, N > 0, NEW a \in Int
  PROVE  a % N \in 0 .. (N - 1) /\ \E q \in Int : a = N * q + (a % N)
  <1>1. a \div N \in Int /\ a = N * (a \div N) + (a % N) /\ a % N \in 0 .. (N - 1)
    OBVIOUS
  <1> QED BY <1>1

\* Two numbers less than N apart with the same rest are the same.
LEMMA SameRest ==
  ASSUME NEW N \in Nat, N > 0, NEW a \in Int, NEW b \in Int, a % N = b % N, -N < a - b, a - b < N
  PROVE  a = b
  <1>1. PICK q \in Int : a = N * q + (a % N)
    BY Divided
  <1>2. PICK p \in Int : b = N * p + (b % N)
    BY Divided
  <1>3. a - b = N * (q - p)
    BY <1>1, <1>2, Divided
  <1>4. q - p = 0
    BY <1>3, NearMultiple
  <1> QED BY <1>3, <1>4

\* Half of the serial numbers.
LEMMA Halves ==
  ASSUME ReliableAssumption
  PROVE  /\ Serials \in Nat /\ Serials > 1 /\ Half \in Nat /\ Half > 0 /\ Serials = Half + Half
         /\ MaxOut \in Nat /\ MaxOut < Half /\ Start \in Nat /\ MaxIn \in Nat
  BY DEF ReliableAssumption, Half

\* A serial number is that of one message among those less than Serials apart.
LEMMA SameNumber ==
  ASSUME ReliableAssumption, NEW a \in Int, NEW b \in Int,
         -Serials < a - b, a - b < Serials, SN(a) = SN(b)
  PROVE  a = b
  <1>1. a % Serials = b % Serials
    BY DEF SN
  <1>2. Serials \in Nat /\ Serials > 0
    BY Halves
  <1> QED BY <1>1, <1>2, SameRest

\* gti2SNDiff is the difference of messages that are at most half of Serials apart.
LEMMA Difference ==
  ASSUME ReliableAssumption, NEW a \in Int, NEW b \in Int, -Half <= a - b, a - b < Half
  PROVE  SNDiff(a, b) = a - b
  <1> DEFINE r == a % Serials
             s == b % Serials
             d == (r - s) % Serials
  <1>1. Serials \in Nat /\ Serials > 0 /\ Serials = Half + Half /\ Half \in Nat
    BY Halves
  <1>2. PICK q \in Int : a = Serials * q + r
    BY <1>1, Divided
  <1>3. PICK p \in Int : b = Serials * p + s
    BY <1>1, Divided
  <1>4. r \in Int /\ s \in Int
    BY <1>1, Divided
  <1>5. d \in 0 .. (Serials - 1)
    BY <1>1, <1>4, Divided
  <1>6. PICK t \in Int : r - s = Serials * t + d
    BY <1>1, <1>4, Divided
  <1>7. SNDiff(a, b) = IF d < Half THEN d ELSE d - Serials
    BY DEF SNDiff, SN
  <1> HIDE DEF d, r, s
  <1> DEFINE u == q - p + t
  <1>8. u \in Int /\ a - b = Serials * u + d
    <2>1. a - b = Serials * q - Serials * p + (r - s)
      BY <1>1, <1>2, <1>3, <1>4
    <2>2. a - b = Serials * q - Serials * p + Serials * t + d
      BY <1>1, <1>5, <1>6, <2>1
    <2>3. Serials * q - Serials * p + Serials * t = Serials * u
      BY <1>1
    <2> QED BY <1>1, <1>5, <2>2, <2>3
  <1> HIDE DEF u
  <1>9. CASE d < Half
    <2>1. u = 0
      <3>1. Serials * u = a - b - d
        BY <1>1, <1>5, <1>8
      <3>2. -Serials < a - b - d /\ a - b - d < Serials
        BY <1>1, <1>5, <1>9
      <3> QED BY <1>1, <1>8, <3>1, <3>2, NearMultiple
    <2> QED BY <1>1, <1>5, <1>7, <1>8, <1>9, <2>1
  <1>10. CASE ~(d < Half)
    <2>1. u = -1
      <3>1. Serials * u = a - b - d
        BY <1>1, <1>5, <1>8
      <3>2. -Serials - Serials < a - b - d /\ a - b - d < 0
        BY <1>1, <1>5, <1>10
      <3> QED BY <1>1, <1>8, <3>1, <3>2, NextMultiple
    <2>2. a - b = d - Serials
      BY <1>1, <1>5, <1>8, <2>1
    <2> QED BY <1>1, <1>5, <1>7, <1>10, <2>2
  <1> QED BY <1>9, <1>10

-----------------------------------------------------------------------------
(***************************************************************************)
(* What the two ends know of each other                                    *)
(***************************************************************************)

\* The types and what is always true, together.
Inv == TypeOK /\ ReliableInv

\* The other end of the other is the end itself, and there are no more.
LEMMA Ends ==
  ASSUME NEW e \in End
  PROVE  /\ Other(e) \in End /\ Other(Other(e)) = e /\ Other(e) # e
         /\ \A f \in End : f = e \/ f = Other(e)
  BY DEF End, Other

\* The numbers of an end and of the other, in their order.
LEMMA Known ==
  ASSUME ReliableAssumption, Inv, NEW e \in End
  PROVE  /\ sent[e] \in Nat /\ out[e] \in Nat /\ expected[e] \in Nat
         /\ sent[Other(e)] \in Nat /\ out[Other(e)] \in Nat /\ expected[Other(e)] \in Nat
         /\ out[e] <= sent[e] /\ sent[e] - out[e] <= MaxOut
         /\ sent[Other(e)] - out[Other(e)] <= MaxOut
         /\ out[Other(e)] <= expected[e] /\ expected[e] <= sent[Other(e)]
         /\ out[e] <= expected[Other(e)] /\ expected[Other(e)] <= sent[e]
  BY Ends DEF Inv, TypeOK, ReliableInv, InStep

\* What is held is a finite set of numbers above the one expected.
LEMMA HeldIsFinite ==
  ASSUME ReliableAssumption, Inv, NEW e \in End
  PROVE  /\ hold[e] \in SUBSET ((expected[e] + 1) .. (sent[Other(e)] - 1))
         /\ IsFiniteSet(hold[e]) /\ Cardinality(hold[e]) \in Nat /\ Cardinality(hold[e]) <= MaxIn
         /\ Cardinality(hold[e]) <= MaxOut
  <1> DEFINE all == (expected[e] + 1) .. (sent[Other(e)] - 1)
  <1>1. hold[e] \in SUBSET all /\ Cardinality(hold[e]) <= MaxIn
    BY DEF Inv, TypeOK, ReliableInv, InStep
  <1>2. IsFiniteSet(all) /\ Cardinality(all) <= MaxOut
    <2>1. expected[e] \in Nat /\ sent[Other(e)] \in Nat /\ MaxOut \in Nat
      BY Known, Halves
    <2>2. sent[Other(e)] - expected[e] <= MaxOut
      <3>1. out[Other(e)] <= expected[e] /\ out[Other(e)] \in Nat
            /\ sent[Other(e)] - out[Other(e)] <= MaxOut
        BY Known
      <3> QED BY <2>1, <3>1
    <2>3. /\ IsFiniteSet(all)
          /\ Cardinality(all) = IF expected[e] + 1 > sent[Other(e)] - 1 THEN 0
                                ELSE sent[Other(e)] - 1 - (expected[e] + 1) + 1
      <3>1. expected[e] + 1 \in Int /\ sent[Other(e)] - 1 \in Int
        BY <2>1
      <3> QED BY <3>1, FS_Interval
    <2> HIDE DEF all
    <2> QED BY <2>1, <2>2, <2>3
  <1> HIDE DEF all
  <1>3. IsFiniteSet(hold[e]) /\ Cardinality(hold[e]) <= Cardinality(all)
    BY <1>1, <1>2, FS_Subset
  <1>4. Cardinality(hold[e]) \in Nat /\ Cardinality(all) \in Nat
    BY <1>2, <1>3, FS_CardinalityType
  <1> QED BY <1>1, <1>2, <1>3, <1>4, Halves DEF all

-----------------------------------------------------------------------------
(***************************************************************************)
(* Packets                                                                 *)
(***************************************************************************)

\* A message that is sent, for the first time or again, is young.
LEMMA YoungData ==
  ASSUME ReliableAssumption, Inv, NEW e \in End, NEW n \in Outgoing(e)
  PROVE  Young(Data(e, n, expected[e]))
  <1> DEFINE m == Data(e, n, expected[e])
  <1>1. m.kind = "data" /\ m.to = Other(e) /\ m.n = n /\ m.esn = expected[e]
    BY DEF Data
  <1>2. n \in Int /\ n < sent[e] /\ sent[e] - n <= Half
    BY Known, Halves DEF Outgoing
  <1>3. sent[Other(e)] - expected[e] <= Half
    BY Known, Halves
  <1> HIDE DEF m
  <1>4. Young(m)
    BY <1>1, <1>2, <1>3, Ends, Known DEF Young
  <1> QED BY <1>4 DEF m

\* An acknowledgement is young when it is sent.
LEMMA YoungAck ==
  ASSUME ReliableAssumption, Inv, NEW e \in End
  PROVE  Young(Ack(e))
  <1> DEFINE m == Ack(e)
  <1>1. m.kind = "ack" /\ m.to = Other(e) /\ m.esn = expected[e]
    BY DEF Ack
  <1>3. sent[Other(e)] - expected[e] <= Half
    BY Known, Halves
  <1> HIDE DEF m
  <1>4. Young(m)
    BY <1>1, <1>3, Ends, Known DEF Young
  <1> QED BY <1>4 DEF m

\* So is any other message.
LEMMA YoungOther ==
  ASSUME NEW m, m.to \in End, m.kind \in {"nack", "closed"}
  PROVE  Young(m)
  BY DEF Young

\* And it stays so while nothing is sent for the first time.
LEMMA YoungStays ==
  ASSUME ReliableAssumption, Inv, sent' = sent, expected' \in [End -> Nat],
         \A e \in End : expected[e] <= expected'[e], NEW m, Young(m)
  PROVE  Young(m)'
  <1>1. CASE m.to \in End
    <2>1. expected[Other(m.to)] \in Nat /\ expected[Other(m.to)] <= expected'[Other(m.to)]
          /\ expected'[Other(m.to)] \in Nat
      BY <1>1, Ends, Known
    <2> QED BY <2>1 DEF Young
  <1> QED BY <1>1 DEF Young

\* A step that changes neither the numbers nor what is held keeps the invariant, when what it
\* puts on the net is young.
LEMMA OnlyTheNet ==
  ASSUME ReliableAssumption, Inv, UNCHANGED <<sent, out, expected, hold, delivered>>,
         pendingAck' \in [End -> BOOLEAN], closed' \in [End -> BOOLEAN], \A m \in net' : Young(m)
  PROVE  Inv'
  <1>1. TypeOK'
    BY DEF Inv, TypeOK
  <1>2. \A e \in End : InStep(e)'
    BY DEF Inv, ReliableInv, InStep
  <1>3. delivered' \in [End -> Seq(Int)]
    BY DEF Inv, ReliableInv
  <1>4. expected' \in [End -> Nat] /\ \A e \in End : expected[e] <= expected'[e]
    BY DEF Inv, TypeOK
  <1>5. \A m \in net' : Young(m)'
    BY <1>4, YoungStays
  <1> QED BY <1>1, <1>2, <1>3, <1>5 DEF Inv, ReliableInv

-----------------------------------------------------------------------------
(***************************************************************************)
(* What does not hand anything on                                          *)
(***************************************************************************)

\* The first end has sent what the other expects, and nothing is on its way.
LEMMA StartsInStep == ASSUME ReliableAssumption, Init PROVE Inv
  <1>1. Start \in Nat /\ MaxOut \in Nat /\ MaxIn \in Nat
    BY Halves
  <1>2. \A e \in End : sent[e] = Start /\ out[e] = Start /\ expected[e] = Start
                       /\ hold[e] = {} /\ delivered[e] = <<>>
    BY DEF Init
  <1>3. TypeOK
    <2>1. Cardinality({}) = 0
      BY FS_EmptySet
    <2> QED BY <1>1, <1>2, <2>1 DEF Init, TypeOK
  <1>4. \A e \in End : InStep(e)
    BY <1>1, <1>2, Ends DEF InStep
  <1> QED BY <1>3, <1>4 DEF Init, Inv, ReliableInv

\* A message to be sent has room, and the packets of before are still young; or there is no room
\* and the connection is closed.
LEMMA SendReliableKeeps ==
  ASSUME ReliableAssumption, Inv, NEW e \in End, SendReliable(e)
  PROVE  Inv'
  <1>1. CASE /\ HasRoom(e) /\ net' = net \union {Data(e, sent[e], expected[e])}
             /\ sent' = [sent EXCEPT ![e] = @ + 1]
             /\ pendingAck' = [pendingAck EXCEPT ![e] = FALSE] /\ UNCHANGED closed
    <2>1. UNCHANGED <<out, expected, hold, delivered>> /\ PacketsAreYoung(e)
      BY DEF SendReliable
    <2>2. /\ sent' \in [End -> Nat] /\ sent'[e] = sent[e] + 1 /\ sent'[Other(e)] = sent[Other(e)]
          /\ \A f \in End : sent[f] <= sent'[f] /\ sent[f] \in Nat
      BY <1>1, Ends DEF Inv, TypeOK
    <2>3. TypeOK'
      <3>1. \A f \in End : out[f] <= sent'[f] /\ sent'[f] - out[f] <= MaxOut
        <4>1. out[e] <= sent'[e] /\ sent'[e] - out[e] <= MaxOut
          BY <1>1, <2>2, Known, Halves DEF HasRoom
        <4>2. out[Other(e)] <= sent'[Other(e)] /\ sent'[Other(e)] - out[Other(e)] <= MaxOut
          BY <2>2, Known, Ends
        <4> QED BY <4>1, <4>2, Ends
      <3> QED BY <1>1, <2>1, <2>2, <3>1 DEF Inv, TypeOK
    <2>4. \A f \in End : InStep(f)'
      <3> SUFFICES ASSUME NEW f \in End PROVE InStep(f)'
        OBVIOUS
      <3>1. InStep(f)
        BY DEF Inv, ReliableInv
      <3>2. sent[Other(f)] \in Nat /\ sent'[Other(f)] \in Nat /\ sent[Other(f)] <= sent'[Other(f)]
        BY <2>2, Ends
      <3>3. expected[f] \in Nat /\ Other(f) \in End
        BY Known, Ends
      <3> QED BY <2>1, <3>1, <3>2, <3>3 DEF InStep
    <2>5. \A m \in net' : Young(m)'
      <3> SUFFICES ASSUME NEW m \in net' PROVE Young(m)'
        OBVIOUS
      <3>1. CASE m \in net
        <4>1. Young(m)
          BY <3>1 DEF Inv, ReliableInv
        <4>2. CASE m.to = e
          <5>1. m.kind \in {"data", "ack"} => sent[e] - m.esn < Half
            BY <2>1, <3>1, <4>2 DEF PacketsAreYoung
          <5> QED BY <2>1, <2>2, <4>1, <4>2, <5>1, Halves, Known DEF Young
        <4>3. CASE m.to = Other(e)
          <5>1. m.kind = "data" => sent[e] - m.n < Half
            BY <2>1, <3>1, <4>3 DEF PacketsAreYoung
          <5> QED BY <2>1, <2>2, <4>1, <4>3, <5>1, Halves, Known, Ends DEF Young
        <4> QED BY <4>1, <4>2, <4>3, Ends DEF Young
      <3>2. CASE m = Data(e, sent[e], expected[e])
        <4>1. m.kind = "data" /\ m.to = Other(e) /\ m.n = sent[e] /\ m.esn = expected[e]
          BY <3>2 DEF Data
        <4>2. sent[Other(e)] - expected[e] <= Half
          BY Known, Halves
        <4> QED BY <2>1, <2>2, <4>1, <4>2, Halves, Known, Ends DEF Young
      <3> QED BY <1>1, <3>1, <3>2
    <2>6. delivered' \in [End -> Seq(Int)]
      BY <2>1 DEF Inv, ReliableInv
    <2> QED BY <2>3, <2>4, <2>5, <2>6 DEF Inv, ReliableInv
  <1>2. CASE ~HasRoom(e) /\ MemoryError(e) /\ UNCHANGED <<sent, pendingAck>>
    <2>1. UNCHANGED <<sent, out, expected, hold, delivered, pendingAck>>
      BY <1>2 DEF SendReliable
    <2>2. pendingAck' \in [End -> BOOLEAN] /\ closed' \in [End -> BOOLEAN]
      BY <1>2, <2>1 DEF MemoryError, Inv, TypeOK
    <2>3. ClosedMessage(e).to \in End /\ ClosedMessage(e).kind = "closed"
      BY Ends DEF ClosedMessage
    <2>4. \A m \in net' : Young(m)
      BY <1>2, <2>3, YoungOther DEF MemoryError, Inv, ReliableInv
    <2> QED BY <2>1, <2>2, <2>4, OnlyTheNet
  <1> QED BY <1>1, <1>2 DEF SendReliable

\* A message sent again is one of those kept.
LEMMA SendRetriesKeeps ==
  ASSUME ReliableAssumption, Inv, NEW e \in End, NEW n \in Outgoing(e), SendRetries(e, n)
  PROVE  Inv'
  <1>1. Young(Data(e, n, expected[e]))
    BY YoungData
  <1>2. \A m \in net' : Young(m)
    BY <1>1 DEF SendRetries, Inv, ReliableInv
  <1>3. /\ UNCHANGED <<sent, out, expected, hold, delivered>>
        /\ pendingAck' \in [End -> BOOLEAN] /\ closed' \in [End -> BOOLEAN]
    BY DEF SendRetries, Inv, TypeOK
  <1> QED BY <1>2, <1>3, OnlyTheNet

\* An acknowledgement on its own.
LEMMA CheckPendingAckKeeps ==
  ASSUME ReliableAssumption, Inv, NEW e \in End, CheckPendingAck(e)
  PROVE  Inv'
  <1>1. Young(Ack(e))
    BY YoungAck
  <1>2. \A m \in net' : Young(m)
    BY <1>1 DEF CheckPendingAck, Inv, ReliableInv
  <1>3. /\ UNCHANGED <<sent, out, expected, hold, delivered>>
        /\ pendingAck' \in [End -> BOOLEAN] /\ closed' \in [End -> BOOLEAN]
    BY DEF CheckPendingAck, Inv, TypeOK
  <1> QED BY <1>2, <1>3, OnlyTheNet

\* What a Nack names is sent again only if it is kept.
LEMMA HandleNackKeeps ==
  ASSUME ReliableAssumption, Inv, NEW e \in End, NEW m \in net, HandleNack(e, m)
  PROVE  Inv'
  <1>1. \A n \in Outgoing(e) : Young(Data(e, n, expected[e]))
    BY YoungData
  <1>2. PICK rest \in Rest(m) :
          net' = rest \union {Data(e, n, expected[e]) :
                   n \in {k \in Outgoing(e) : SNDiff(k, m.esn) >= 0 /\ SNDiff(k, m.n) <= 0}}
    BY DEF HandleNack
  <1>3. \A q \in rest : Young(q)
    BY DEF Rest, Inv, ReliableInv
  <1>4. \A q \in net' : Young(q)
    BY <1>1, <1>2, <1>3
  <1>5. /\ UNCHANGED <<sent, out, expected, hold, delivered>>
        /\ pendingAck' \in [End -> BOOLEAN] /\ closed' \in [End -> BOOLEAN]
    BY DEF HandleNack, Inv, TypeOK
  <1> QED BY <1>4, <1>5, OnlyTheNet

\* A closed connection answers that it is.
LEMMA HandleClosedKeeps ==
  ASSUME ReliableAssumption, Inv, NEW e \in End, NEW m \in net, HandleClosed(e, m)
  PROVE  Inv'
  <1>1. Young(ClosedMessage(e))
    <2>1. ClosedMessage(e).to \in End /\ ClosedMessage(e).kind = "closed"
      BY Ends DEF ClosedMessage
    <2> QED BY <2>1, YoungOther
  <1>2. \A q \in net' : Young(q)
    BY <1>1 DEF HandleClosed, Inv, ReliableInv
  <1>3. /\ UNCHANGED <<sent, out, expected, hold, delivered>>
        /\ pendingAck' \in [End -> BOOLEAN] /\ closed' \in [End -> BOOLEAN]
    BY DEF HandleClosed, Inv, TypeOK
  <1> QED BY <1>2, <1>3, OnlyTheNet

\* A packet is lost.
LEMMA LoseKeeps ==
  ASSUME ReliableAssumption, Inv, NEW m \in net, Lose(m)
  PROVE  Inv'
  <1>1. \A q \in net' : Young(q)
    BY DEF Lose, Inv, ReliableInv
  <1>2. /\ UNCHANGED <<sent, out, expected, hold, delivered>>
        /\ pendingAck' \in [End -> BOOLEAN] /\ closed' \in [End -> BOOLEAN]
    BY DEF Lose, Inv, TypeOK
  <1> QED BY <1>1, <1>2, OnlyTheNet

-----------------------------------------------------------------------------
(***************************************************************************)
(* Acknowledgements                                                        *)
(***************************************************************************)

\* What an acknowledgement takes off is what the other end has handed on, and no more.
LEMMA Acknowledged ==
  ASSUME ReliableAssumption, Inv, NEW e \in End, NEW esn \in Int,
         esn <= expected[Other(e)], sent[e] - esn <= Half, HandleESN(e, esn)
  PROVE  /\ out' \in [End -> Nat] /\ out'[Other(e)] = out[Other(e)]
         /\ out[e] <= out'[e] /\ out'[e] <= sent[e] /\ out'[e] <= expected[Other(e)]
  <1> DEFINE kept == {n \in Outgoing(e) : Unacked(e, n, esn)}
             first == CHOOSE n \in kept \union {sent[e]} : \A k \in kept : n <= k
             next == IF kept = {} THEN sent[e] ELSE first
  <1>1. out' = [out EXCEPT ![e] = next]
    BY DEF HandleESN
  <1>2. out \in [End -> Nat]
    BY DEF Inv, TypeOK
  <1>3. /\ sent[e] \in Nat /\ out[e] \in Nat /\ expected[Other(e)] \in Nat
        /\ out[e] <= sent[e] /\ sent[e] - out[e] <= MaxOut
        /\ out[e] <= expected[Other(e)] /\ expected[Other(e)] <= sent[e]
    BY Known
  <1>4. Half \in Nat /\ MaxOut \in Nat /\ MaxOut < Half
    BY Halves
  <1>5. \A n \in Outgoing(e) : Unacked(e, n, esn) <=> n >= esn
    <2> SUFFICES ASSUME NEW n \in Outgoing(e) PROVE Unacked(e, n, esn) <=> n >= esn
      OBVIOUS
    <2>1. n \in Int /\ out[e] <= n /\ n <= sent[e] - 1
      BY <1>3 DEF Outgoing
    <2>2. -Half <= n - esn /\ n - esn < Half
      BY <1>3, <1>4, <2>1
    <2>3. SNDiff(n, esn) = n - esn
      BY <2>1, <2>2, Difference
    <2> QED BY <2>1, <2>3 DEF Unacked
  <1>6. kept = {n \in out[e] .. (sent[e] - 1) : n >= esn}
    BY <1>5 DEF Outgoing
  <1> HIDE DEF kept
  <1>7. next \in Nat /\ out[e] <= next /\ next <= sent[e] /\ next <= expected[Other(e)]
    <2>1. CASE kept = {}
      <3>1. next = sent[e]
        BY <2>1
      <3>2. CASE out[e] = sent[e]
        BY <1>3, <3>1, <3>2
      <3>3. CASE out[e] # sent[e]
        <4>1. sent[e] - 1 \in out[e] .. (sent[e] - 1)
          BY <1>3, <3>3
        <4>2. ~(sent[e] - 1 >= esn)
          BY <1>6, <2>1, <4>1
        <4> QED BY <1>3, <3>1, <4>2
      <3> QED BY <3>2, <3>3
    <2>2. CASE kept # {}
      <3>1. next = first
        BY <2>2
      <3>2. PICK k \in kept : TRUE
        BY <2>2
      <3>3. k \in Int /\ k >= esn /\ out[e] <= k /\ k <= sent[e] - 1
        BY <1>3, <1>6
      <3> DEFINE w == IF out[e] >= esn THEN out[e] ELSE esn
      <3>4. w \in kept /\ w \in Nat /\ w <= expected[Other(e)] /\ out[e] <= w /\ w < sent[e]
        BY <1>3, <1>6, <3>3
      <3>5. \A n \in kept : w <= n
        BY <1>3, <1>6
      <3> HIDE DEF w
      <3>6. first \in kept \union {sent[e]} /\ \A n \in kept : first <= n
        BY <3>4, <3>5
      <3> HIDE DEF first
      <3>7. first <= w
        BY <3>4, <3>6
      <3>8. first \in kept
        BY <1>3, <3>4, <3>6, <3>7
      <3>9. first \in Int
        BY <1>3, <1>6, <3>8
      <3>10. w <= first
        BY <3>5, <3>8
      <3>11. first = w
        BY <3>4, <3>7, <3>9, <3>10
      <3> QED BY <1>3, <3>1, <3>4, <3>11
    <2> QED BY <2>1, <2>2
  <1> HIDE DEF next
  <1>8. out'[e] = next /\ out'[Other(e)] = out[Other(e)] /\ out' \in [End -> Nat]
    BY <1>1, <1>2, <1>7, Ends
  <1> QED BY <1>7, <1>8

\* Both ends remain in step when one takes an acknowledgement.
LEMMA HandleAckKeeps ==
  ASSUME ReliableAssumption, Inv, NEW e \in End, NEW m \in net, HandleAck(e, m)
  PROVE  Inv'
  <1>1. /\ m.kind = "ack" /\ m.to = e /\ HandleESN(e, m.esn) /\ net' \in Rest(m)
        /\ UNCHANGED <<sent, expected, hold, delivered, pendingAck, closed>>
    BY DEF HandleAck
  <1>2. m.esn \in Int /\ m.esn <= expected[Other(e)] /\ sent[e] - m.esn <= Half
    BY <1>1 DEF Inv, ReliableInv, Young
  <1>3. /\ out' \in [End -> Nat] /\ out'[Other(e)] = out[Other(e)]
        /\ out[e] <= out'[e] /\ out'[e] <= sent[e] /\ out'[e] <= expected[Other(e)]
    BY <1>1, <1>2, Acknowledged
  <1>4. \A f \in End : /\ out'[f] \in Nat /\ out[f] <= out'[f] /\ out'[f] <= sent[f]
                       /\ out'[f] <= expected[Other(f)] /\ out[f] \in Nat
    BY <1>3, Ends, Known
  <1>5. TypeOK'
    <2>1. \A f \in End : sent[f] \in Nat /\ sent[f] - out[f] <= MaxOut
      BY Known
    <2>2. \A f \in End : sent[f] - out'[f] <= MaxOut
      BY <1>4, <2>1, Halves
    <2> QED BY <1>1, <1>3, <1>4, <2>2 DEF Inv, TypeOK
  <1>6. \A f \in End : InStep(f)'
    <2> SUFFICES ASSUME NEW f \in End PROVE InStep(f)'
      OBVIOUS
    <2>1. InStep(f)
      BY DEF Inv, ReliableInv
    <2>2. out'[Other(f)] <= expected[f]
      BY <1>4, Ends
    <2> QED BY <1>1, <2>1, <2>2 DEF InStep
  <1>7. expected' \in [End -> Nat] /\ \A f \in End : expected[f] <= expected'[f]
    BY <1>1 DEF Inv, TypeOK
  <1>8. \A q \in net' : Young(q)'
    BY <1>1, <1>7, YoungStays DEF Rest, Inv, ReliableInv
  <1> QED BY <1>1, <1>5, <1>6, <1>8 DEF Inv, ReliableInv

-----------------------------------------------------------------------------
(***************************************************************************)
(* Messages that come too early                                            *)
(***************************************************************************)

\* The numbers of a message on its way and of the next expected are compared as they are.
LEMMA Compared ==
  ASSUME ReliableAssumption, Inv, NEW e \in End, NEW m \in net, m.to = e, m.kind = "data"
  PROVE  /\ m.n \in Int /\ m.n < sent[Other(e)] /\ SNDiff(m.n, expected[e]) = m.n - expected[e]
         /\ IsExpected(e, m.n) => m.n = expected[e]
  <1>1. m.n \in Int /\ m.n < sent[Other(e)] /\ sent[Other(e)] - m.n <= Half
    BY DEF Inv, ReliableInv, Young
  <1>2. /\ expected[e] \in Nat /\ sent[Other(e)] \in Nat /\ expected[e] <= sent[Other(e)]
        /\ sent[Other(e)] - expected[e] <= MaxOut
    <2>1. /\ expected[e] \in Nat /\ sent[Other(e)] \in Nat /\ out[Other(e)] \in Nat
          /\ expected[e] <= sent[Other(e)] /\ out[Other(e)] <= expected[e]
          /\ sent[Other(e)] - out[Other(e)] <= MaxOut
      BY Known
    <2> QED BY <2>1, Halves
  <1>3. Half \in Nat /\ MaxOut \in Nat /\ MaxOut < Half /\ Serials = Half + Half
    BY Halves
  <1>4. -Half <= m.n - expected[e] /\ m.n - expected[e] < Half
    BY <1>1, <1>2, <1>3
  <1>5. SNDiff(m.n, expected[e]) = m.n - expected[e]
    BY <1>1, <1>2, <1>4, Difference
  <1>6. -Serials < m.n - expected[e] /\ m.n - expected[e] < Serials
    BY <1>1, <1>2, <1>3, <1>4
  <1>7. IsExpected(e, m.n) => m.n = expected[e]
    BY <1>1, <1>2, <1>6, SameNumber DEF IsExpected
  <1> QED BY <1>1, <1>5, <1>7

\* A message is held when it is beyond the one expected and there is room for it.
LEMMA BufferIncomingKeeps ==
  ASSUME ReliableAssumption, Inv, NEW e \in End, NEW m, NEW rest,
         m.n \in Int, expected[e] < m.n, m.n < sent[Other(e)],
         BufferIncoming(e, m, rest)
  PROVE  /\ hold' \in [End -> SUBSET Nat] /\ closed' \in [End -> BOOLEAN]
         /\ \A f \in End : /\ hold'[f] \subseteq (expected[f] + 1) .. (sent[Other(f)] - 1)
                           /\ Cardinality(hold'[f]) <= MaxIn
         /\ \A q \in net' : q \in rest \/ Young(q)
  <1>1. \A f \in End : /\ hold[f] \subseteq (expected[f] + 1) .. (sent[Other(f)] - 1)
                       /\ Cardinality(hold[f]) <= MaxIn
    BY HeldIsFinite
  <1>2. hold \in [End -> SUBSET Nat] /\ closed \in [End -> BOOLEAN]
    BY DEF Inv, TypeOK
  <1>3. \A min, max : Young(Nack(e, min, max))
    <2>1. \A min, max : Nack(e, min, max).to \in End /\ Nack(e, min, max).kind = "nack"
      BY Ends DEF Nack
    <2> QED BY <2>1, YoungOther
  <1>4. Young(ClosedMessage(e))
    <2>1. ClosedMessage(e).to \in End /\ ClosedMessage(e).kind = "closed"
      BY Ends DEF ClosedMessage
    <2> QED BY <2>1, YoungOther
  <1>5. CASE net' = rest /\ UNCHANGED <<hold, closed>>
    BY <1>1, <1>2, <1>5
  <1>6. CASE /\ Cardinality(hold[e]) < MaxIn
             /\ hold' = [hold EXCEPT ![e] = @ \union {m.n}]
             /\ net' = rest \union {Nack(e, gap[1], gap[2]) : gap \in MissingBefore(e, m.n)}
             /\ UNCHANGED closed
    <2>1. expected[e] \in Nat /\ sent[Other(e)] \in Nat
      BY Known
    <2>2. m.n \in (expected[e] + 1) .. (sent[Other(e)] - 1) /\ m.n \in Nat
      BY <2>1
    <2>3. hold'[e] = hold[e] \union {m.n} /\ \A f \in End : f # e => hold'[f] = hold[f]
      BY <1>2, <1>6
    <2>4. Cardinality(hold[e] \union {m.n}) <= MaxIn
      <3>1. Cardinality(hold[e]) \in Nat /\ IsFiniteSet(hold[e]) /\ MaxIn \in Nat
        BY HeldIsFinite, Halves
      <3>2. Cardinality(hold[e] \union {m.n}) \in {Cardinality(hold[e]), Cardinality(hold[e]) + 1}
        BY <3>1, FS_AddElement
      <3>3. Cardinality(hold[e] \union {m.n}) \in Nat
        BY <3>1, FS_AddElement, FS_CardinalityType
      <3> QED BY <1>6, <3>1, <3>2, <3>3
    <2>5. hold' \in [End -> SUBSET Nat]
      BY <1>2, <1>6, <2>2
    <2>6. \A f \in End : /\ hold'[f] \subseteq (expected[f] + 1) .. (sent[Other(f)] - 1)
                         /\ Cardinality(hold'[f]) <= MaxIn
      BY <1>1, <2>2, <2>3, <2>4
    <2>7. \A q \in net' : q \in rest \/ Young(q)
      BY <1>3, <1>6
    <2> QED BY <1>2, <1>6, <2>5, <2>6, <2>7
  <1>7. CASE /\ closed' = [closed EXCEPT ![e] = TRUE]
             /\ net' = rest \union {ClosedMessage(e)}
             /\ UNCHANGED hold
    BY <1>1, <1>2, <1>4, <1>7
  <1> QED BY <1>5, <1>6, <1>7 DEF BufferIncoming

-----------------------------------------------------------------------------
(***************************************************************************)
(* The message expected, and those held that follow it                     *)
(***************************************************************************)

\* A finite set of numbers above x, with each also all between x and it, is an interval.
LEMMA Gapless ==
  ASSUME NEW x \in Nat, NEW R, IsFiniteSet(R), R \subseteq {k \in Nat : k > x},
         \A k \in R : (x + 1) .. k \subseteq R
  PROVE  Cardinality(R) \in Nat /\ R = (x + 1) .. (x + Cardinality(R))
  <1> DEFINE c == Cardinality(R)
             ahead == (x + 1) .. (x + c)
  <1>1. c \in Nat
    BY FS_CardinalityType
  <1>2. R \subseteq ahead
    <2> SUFFICES ASSUME NEW k \in R PROVE k \in ahead
      OBVIOUS
    <2>1. k \in Nat /\ k > x /\ (x + 1) .. k \in SUBSET R
      OBVIOUS
    <2>2. Cardinality((x + 1) .. k) = IF x + 1 > k THEN 0 ELSE k - (x + 1) + 1
      BY <2>1, FS_Interval
    <2>3. Cardinality((x + 1) .. k) <= c
      BY <2>1, FS_Subset
    <2> HIDE DEF c
    <2> QED BY <1>1, <2>1, <2>2, <2>3
  <1>3. IsFiniteSet(ahead) /\ Cardinality(ahead) = c
    <2>1. x + 1 \in Int /\ x + c \in Int
      BY <1>1
    <2> HIDE DEF c
    <2>2. IsFiniteSet(ahead) /\ Cardinality(ahead) = IF x + 1 > x + c THEN 0 ELSE (x + c) - (x + 1) + 1
      BY <2>1, FS_Interval
    <2> HIDE DEF ahead
    <2> QED BY <1>1, <2>2
  <1>4. R = ahead
    <2> HIDE DEF ahead
    <2> QED BY <1>2, <1>3, FS_Subset
  <1> QED BY <1>1, <1>4

\* The run is made of what is held right above the message expected, as far as there is no gap.
LEMMA TheRun ==
  ASSUME ReliableAssumption, Inv, NEW e \in End
  PROVE  \E c \in Nat :
           /\ Run(hold[e], expected[e] + 1) = (expected[e] + 1) .. (expected[e] + c)
           /\ Cardinality(Run(hold[e], expected[e] + 1)) = c
           /\ (expected[e] + 1) .. (expected[e] + c) \subseteq hold[e]
           /\ expected[e] + c + 1 \notin hold[e]
           /\ \A i \in 1 .. c : Held(hold[e], expected[e] + i) = expected[e] + i
  <1> DEFINE x == expected[e]
             kept == hold[e]
             top == sent[Other(e)]
             size == Cardinality(kept)
             run == Run(kept, x + 1)
             c == Cardinality(run)
  <1>1. /\ x \in Nat /\ top \in Nat /\ x <= top /\ top - x <= MaxOut
    <2>1. /\ x \in Nat /\ top \in Nat /\ out[Other(e)] \in Nat
          /\ x <= top /\ out[Other(e)] <= x /\ top - out[Other(e)] <= MaxOut
      BY Known
    <2> HIDE DEF x, top
    <2> QED BY <2>1, Halves
  <1>2. /\ kept \in SUBSET ((x + 1) .. (top - 1)) /\ IsFiniteSet(kept)
        /\ size \in Nat /\ size <= MaxOut
    BY HeldIsFinite
  <1>3. Half \in Nat /\ MaxOut \in Nat /\ MaxOut < Half /\ Serials = Half + Half
    BY Halves
  <1> HIDE DEF x, kept, top, size
  <1>4. \A j \in x + 1 .. x + 1 + size : \A h \in kept : SN(h) = SN(j) => h = j
    <2> SUFFICES ASSUME NEW j \in x + 1 .. x + 1 + size, NEW h \in kept, SN(h) = SN(j)
                 PROVE  h = j
      OBVIOUS
    <2>1. h \in Int /\ x + 1 <= h /\ h <= top - 1
      BY <1>1, <1>2
    <2>2. j \in Int /\ x + 1 <= j /\ j <= x + 1 + size
      BY <1>1, <1>2
    <2>3. -Serials < h - j /\ h - j < Serials
      BY <1>1, <1>2, <1>3, <2>1, <2>2
    <2> QED BY <2>1, <2>2, <2>3, SameNumber
  <1>5. run = {k \in x + 1 .. x + 1 + size : \A j \in x + 1 .. k : j \in kept}
    <2>1. run = {k \in x + 1 .. x + 1 + size : \A j \in x + 1 .. k : \E h \in kept : SN(h) = SN(j)}
      BY DEF Run, size
    <2>2. \A k \in x + 1 .. x + 1 + size : \A j \in x + 1 .. k : j \in x + 1 .. x + 1 + size
      BY <1>1, <1>2
    <2>3. \A j \in x + 1 .. x + 1 + size : (\E h \in kept : SN(h) = SN(j)) <=> j \in kept
      BY <1>4
    <2> HIDE DEF run
    <2> QED BY <2>1, <2>2, <2>3
  <1> HIDE DEF run
  <1>6. run \in SUBSET kept /\ run \subseteq {k \in Nat : k > x}
    BY <1>1, <1>2, <1>5
  <1>7. IsFiniteSet(run)
    BY <1>2, <1>6, FS_Subset
  <1>8. \A k \in run : (x + 1) .. k \subseteq run
    BY <1>1, <1>2, <1>5
  <1>9. c \in Nat /\ run = (x + 1) .. (x + c)
    BY <1>1, <1>6, <1>7, <1>8, Gapless
  <1>10. c <= size
    BY <1>2, <1>6, FS_Subset DEF size
  <1> HIDE DEF c
  <1>11. (x + 1) .. (x + c) \subseteq kept
    BY <1>6, <1>9
  <1>12. x + c + 1 \notin kept
    <2> SUFFICES ASSUME x + c + 1 \in kept PROVE FALSE
      OBVIOUS
    <2>1. x + c + 1 \in x + 1 .. x + 1 + size
      BY <1>1, <1>2, <1>9, <1>10
    <2>2. \A j \in x + 1 .. x + c + 1 : j \in kept
      BY <1>1, <1>9, <1>11
    <2>3. x + c + 1 \in run
      BY <1>5, <2>1, <2>2
    <2> QED BY <1>1, <1>9, <2>3
  <1>13. \A i \in 1 .. c : Held(kept, x + i) = x + i
    <2> SUFFICES ASSUME NEW i \in 1 .. c PROVE Held(kept, x + i) = x + i
      OBVIOUS
    <2> DEFINE j == x + i
    <2>1. j \in kept /\ j \in x + 1 .. x + 1 + size
      BY <1>1, <1>2, <1>9, <1>10, <1>11
    <2> HIDE DEF j
    <2>2. Held(kept, j) = j
      BY <1>4, <2>1 DEF Held
    <2> QED BY <2>2 DEF j
  <1> QED BY <1>9, <1>11, <1>12, <1>13 DEF x, kept, run, c

\* What is handed on is the message expected and, in order, those that follow it.
LEMMA Delivers ==
  ASSUME ReliableAssumption, Inv, NEW e \in End, NEW m, m.n = expected[e],
         expected[e] < sent[Other(e)], Deliver(e, m)
  PROVE  /\ delivered' \in [End -> Seq(Int)] /\ expected' \in [End -> Nat]
         /\ hold' \in [End -> SUBSET Nat]
         /\ \A f \in End :
              /\ expected[f] <= expected'[f] /\ expected'[f] <= sent[Other(f)]
              /\ expected'[f] = Start + Len(delivered'[f])
              /\ \A i \in DOMAIN delivered'[f] : delivered'[f][i] = Start + i - 1
              /\ hold'[f] \subseteq (expected'[f] + 1) .. (sent[Other(f)] - 1)
              /\ Cardinality(hold'[f]) <= MaxIn
  <1> DEFINE x == expected[e]
             run == Run(hold[e], x + 1)
             old == delivered[e]
             top == sent[Other(e)]
  <1>1. PICK c \in Nat :
          /\ run = (x + 1) .. (x + c) /\ Cardinality(run) = c
          /\ (x + 1) .. (x + c) \subseteq hold[e] /\ x + c + 1 \notin hold[e]
          /\ \A i \in 1 .. c : Held(hold[e], x + i) = x + i
    BY TheRun
  <1> DEFINE one == <<m.n>>
             more == [i \in 1 .. c |-> Held(hold[e], x + i)]
             new == (old \o one) \o more
             left == hold[e] \ {Held(hold[e], k) : k \in run}
  <1>2. /\ delivered' = [delivered EXCEPT ![e] = new]
        /\ expected' = [expected EXCEPT ![e] = x + c + 1]
        /\ hold' = [hold EXCEPT ![e] = left]
    BY <1>1 DEF Deliver
  <1>3. /\ x \in Nat /\ top \in Nat /\ x < top /\ m.n = x
    BY Known
  <1>4. /\ hold[e] \in SUBSET ((x + 1) .. (top - 1)) /\ IsFiniteSet(hold[e])
        /\ Cardinality(hold[e]) <= MaxIn /\ Cardinality(hold[e]) \in Nat
    BY HeldIsFinite
  <1>5. /\ old \in Seq(Int) /\ x = Start + Len(old)
        /\ \A i \in DOMAIN old : old[i] = Start + i - 1
    BY DEF Inv, ReliableInv, InStep
  <1>6. Start \in Nat
    BY Halves
  <1>7. left = hold[e] \ ((x + 1) .. (x + c))
    <2>1. \A k \in run : \E i \in 1 .. c : k = x + i
      <3> SUFFICES ASSUME NEW k \in run PROVE \E i \in 1 .. c : k = x + i
        OBVIOUS
      <3>1. k - x \in 1 .. c /\ k = x + (k - x)
        <4>1. k \in (x + 1) .. (x + c)
          BY <1>1
        <4> HIDE DEF run, x
        <4> QED BY <1>3, <4>1
      <3> QED BY <3>1
    <2>2. \A k \in run : Held(hold[e], k) = k
      BY <1>1, <2>1
    <2>3. run = (x + 1) .. (x + c)
      BY <1>1
    <2> HIDE DEF run
    <2> QED BY <2>2, <2>3
  <1>8. more = [i \in 1 .. c |-> x + i]
    BY <1>1
  <1> HIDE DEF left, more, run, x, old, top
  <1>9. left \subseteq (x + c + 2) .. (top - 1) /\ left \in SUBSET hold[e]
    <2> SUFFICES ASSUME NEW h \in left PROVE h \in (x + c + 2) .. (top - 1) /\ h \in hold[e]
      OBVIOUS
    <2>1. h \in hold[e] /\ h \notin (x + 1) .. (x + c)
      BY <1>7
    <2>2. h \in (x + 1) .. (top - 1) /\ h # x + c + 1
      BY <1>1, <1>4, <2>1
    <2> QED BY <1>3, <2>1, <2>2
  <1>10. x + c + 1 <= top
    <2>1. CASE c = 0
      BY <1>3, <2>1
    <2>2. CASE c # 0
      <3>1. x + c \in (x + 1) .. (x + c)
        BY <1>3, <2>2
      <3>2. x + c \in (x + 1) .. (top - 1)
        BY <1>1, <1>4, <3>1
      <3> QED BY <1>3, <3>2
    <2> QED BY <2>1, <2>2
  <1>11. Cardinality(left) <= MaxIn
    <2>1. Cardinality(left) \in Nat /\ Cardinality(left) <= Cardinality(hold[e])
      BY <1>4, <1>9, FS_Subset, FS_CardinalityType
    <2> QED BY <1>4, <2>1, Halves
  <1>12. /\ one \in Seq(Int) /\ Len(one) = 1 /\ one[1] = x
         /\ more \in Seq(Int) /\ Len(more) = c /\ \A i \in 1 .. c : more[i] = x + i
    BY <1>3, <1>8
  <1> HIDE DEF one
  <1>13. /\ new \in Seq(Int) /\ Len(new) = Len(old) + c + 1
         /\ \A i \in DOMAIN new : new[i] = Start + i - 1
    <2> DEFINE both == old \o one
    <2>1. /\ both \in Seq(Int) /\ Len(both) = Len(old) + 1
          /\ \A i \in 1 .. (Len(old) + 1) :
               both[i] = IF i <= Len(old) THEN old[i] ELSE one[i - Len(old)]
      <3>1. old \in Seq(Int) /\ one \in Seq(Int) /\ Len(one) = 1
        BY <1>5, <1>12
      <3> HIDE DEF new, more
      <3>2. /\ both \in Seq(Int) /\ Len(both) = Len(old) + Len(one)
            /\ \A i \in 1 .. (Len(old) + Len(one)) :
                 both[i] = IF i <= Len(old) THEN old[i] ELSE one[i - Len(old)]
        BY <3>1, ConcatProperties
      <3> QED BY <3>1, <3>2
    <2>2. Len(old) \in Nat
      BY <1>5
    <2>3. \A i \in 1 .. (Len(old) + 1) : both[i] = Start + i - 1
      <3> SUFFICES ASSUME NEW i \in 1 .. (Len(old) + 1) PROVE both[i] = Start + i - 1
        OBVIOUS
      <3>1. CASE i <= Len(old)
        <4>1. i \in DOMAIN old
          BY <1>5, <2>2, <3>1
        <4> QED BY <1>5, <2>1, <3>1, <4>1
      <3>2. CASE ~(i <= Len(old))
        <4>1. i = Len(old) + 1 /\ i - Len(old) = 1
          BY <2>2, <3>2
        <4> QED BY <1>5, <1>6, <1>12, <2>1, <2>2, <3>2, <4>1
      <3> QED BY <3>1, <3>2
    <2> HIDE DEF both
    <2>4. /\ both \o more \in Seq(Int) /\ Len(both \o more) = Len(both) + c
          /\ \A i \in 1 .. (Len(both) + c) :
               (both \o more)[i] = IF i <= Len(both) THEN both[i] ELSE more[i - Len(both)]
      <3>1. both \in Seq(Int) /\ more \in Seq(Int) /\ Len(more) = c
        BY <1>12, <2>1
      <3> HIDE DEF new, more
      <3>2. /\ both \o more \in Seq(Int) /\ Len(both \o more) = Len(both) + Len(more)
            /\ \A i \in 1 .. (Len(both) + Len(more)) :
                 (both \o more)[i] = IF i <= Len(both) THEN both[i] ELSE more[i - Len(both)]
        BY <3>1, ConcatProperties
      <3> QED BY <3>1, <3>2
    <2> DEFINE all == both \o more
    <2>5. new = all
      BY DEF both
    <2> HIDE DEF all, new
    <2>6. \A i \in 1 .. (Len(old) + 1 + c) : all[i] = Start + i - 1
      <3> SUFFICES ASSUME NEW i \in 1 .. (Len(old) + 1 + c) PROVE all[i] = Start + i - 1
        OBVIOUS
      <3>1. all[i] = IF i <= Len(both) THEN both[i] ELSE more[i - Len(both)]
        BY <2>1, <2>2, <2>4 DEF all
      <3>2. CASE i <= Len(both)
        <4>1. i \in 1 .. (Len(old) + 1)
          BY <2>1, <2>2, <3>2
        <4> QED BY <2>3, <3>1, <3>2, <4>1
      <3>3. CASE ~(i <= Len(both))
        <4>1. i - Len(both) \in 1 .. c
          BY <2>1, <2>2, <3>3
        <4>2. all[i] = x + (i - Len(both))
          BY <1>12, <3>1, <3>3, <4>1
        <4> QED BY <1>5, <1>6, <2>1, <2>2, <4>2
      <3> QED BY <3>2, <3>3
    <2>7. Len(all) = Len(old) + 1 + c /\ all \in Seq(Int)
      BY <2>1, <2>2, <2>4 DEF all
    <2>8. DOMAIN all = 1 .. (Len(old) + 1 + c)
      BY <2>7
    <2> QED BY <2>2, <2>5, <2>6, <2>7, <2>8
  <1> HIDE DEF new
  <1>14. delivered \in [End -> Seq(Int)] /\ expected \in [End -> Nat] /\ hold \in [End -> SUBSET Nat]
    BY DEF Inv, TypeOK, ReliableInv
  <1>15. /\ delivered' \in [End -> Seq(Int)] /\ expected' \in [End -> Nat]
         /\ hold' \in [End -> SUBSET Nat]
    BY <1>2, <1>3, <1>9, <1>13, <1>14
  <1>16. delivered'[e] = new /\ expected'[e] = x + c + 1 /\ hold'[e] = left
    BY <1>2, <1>14
  <1>17. \A f \in End : f # e => /\ delivered'[f] = delivered[f] /\ expected'[f] = expected[f]
                                 /\ hold'[f] = hold[f]
    BY <1>2, <1>14
  <1>18. ASSUME NEW f \in End
         PROVE  /\ expected[f] <= expected'[f] /\ expected'[f] <= sent[Other(f)]
                /\ expected'[f] = Start + Len(delivered'[f])
                /\ \A i \in DOMAIN delivered'[f] : delivered'[f][i] = Start + i - 1
                /\ hold'[f] \subseteq (expected'[f] + 1) .. (sent[Other(f)] - 1)
                /\ Cardinality(hold'[f]) <= MaxIn
    <2>1. CASE f = e
      <3>1. expected'[e] = Start + Len(new) /\ x <= x + c + 1
        BY <1>3, <1>5, <1>6, <1>13, <1>16
      <3>2. (x + c + 1) + 1 = x + c + 2
        BY <1>3
      <3>3. expected[e] <= expected'[e] /\ expected'[e] <= sent[Other(e)]
        BY <1>10, <1>16, <3>1 DEF x, top
      <3>4. hold'[e] \subseteq (expected'[e] + 1) .. (sent[Other(e)] - 1)
        BY <1>9, <1>16, <3>2 DEF top
      <3> QED BY <1>11, <1>13, <1>16, <2>1, <3>1, <3>3, <3>4
    <2>2. CASE f # e
      <3>1. expected[f] \in Nat /\ expected[f] <= sent[Other(f)]
        BY Known
      <3>2. InStep(f) /\ Cardinality(hold[f]) <= MaxIn
        BY DEF Inv, TypeOK, ReliableInv
      <3>3. delivered'[f] = delivered[f] /\ expected'[f] = expected[f] /\ hold'[f] = hold[f]
        BY <1>17, <2>2
      <3>4. expected[f] <= expected'[f] /\ expected'[f] <= sent[Other(f)]
        BY <3>1, <3>3
      <3>5. expected'[f] = Start + Len(delivered'[f])
        BY <3>2, <3>3 DEF InStep
      <3>6. \A i \in DOMAIN delivered'[f] : delivered'[f][i] = Start + i - 1
        BY <3>2, <3>3 DEF InStep
      <3>7. hold'[f] \subseteq (expected'[f] + 1) .. (sent[Other(f)] - 1)
            /\ Cardinality(hold'[f]) <= MaxIn
        BY <3>2, <3>3 DEF InStep
      <3> QED BY <3>4, <3>5, <3>6, <3>7
    <2> QED BY <2>1, <2>2
  <1> QED BY <1>15, <1>18

-----------------------------------------------------------------------------
(***************************************************************************)
(* A message with a serial number                                          *)
(***************************************************************************)

\* What is left on the net was on it.
LEMMA RestIsOld ==
  ASSUME ReliableAssumption, Inv, NEW m \in net, NEW rest \in Rest(m), NEW q \in rest
  PROVE  Young(q)
  BY DEF Rest, Inv, ReliableInv

\* The message is handed on, or known already, or held; and the acknowledgement it brings is taken.
LEMMA HandleReliableKeeps ==
  ASSUME ReliableAssumption, Inv, NEW e \in End, NEW m \in net, HandleReliableMessage(e, m)
  PROVE  Inv'
  <1>1. m.to = e /\ m.kind = "data" /\ HandleESN(e, m.esn) /\ UNCHANGED sent
    BY DEF HandleReliableMessage
  <1>2. m.esn \in Int /\ m.esn <= expected[Other(e)] /\ sent[e] - m.esn <= Half
    BY <1>1 DEF Inv, ReliableInv, Young
  <1>3. /\ out' \in [End -> Nat] /\ out'[Other(e)] = out[Other(e)]
        /\ out[e] <= out'[e] /\ out'[e] <= sent[e] /\ out'[e] <= expected[Other(e)]
    BY <1>1, <1>2, Acknowledged
  <1>4. \A f \in End : /\ out'[f] \in Nat /\ out'[f] <= sent[f] /\ out'[f] <= expected[Other(f)]
                       /\ sent[f] - out'[f] <= MaxOut
    <2>1. \A f \in End : /\ out'[f] \in Nat /\ out[f] <= out'[f] /\ out'[f] <= sent[f]
                         /\ out'[f] <= expected[Other(f)]
                         /\ out[f] \in Nat /\ sent[f] \in Nat /\ sent[f] - out[f] <= MaxOut
      BY <1>3, Ends, Known
    <2> QED BY <2>1, Halves
  <1>5. /\ m.n \in Int /\ m.n < sent[Other(e)] /\ SNDiff(m.n, expected[e]) = m.n - expected[e]
        /\ IsExpected(e, m.n) => m.n = expected[e]
    BY <1>1, Compared
  \* It is enough that what is expected, handed on and held fit together afterwards.
  <1>6. ASSUME /\ pendingAck' \in [End -> BOOLEAN] /\ closed' \in [End -> BOOLEAN]
               /\ delivered' \in [End -> Seq(Int)] /\ expected' \in [End -> Nat]
               /\ hold' \in [End -> SUBSET Nat],
               \A f \in End :
                 /\ expected[f] <= expected'[f] /\ expected'[f] <= sent[Other(f)]
                 /\ expected'[f] = Start + Len(delivered'[f])
                 /\ \A i \in DOMAIN delivered'[f] : delivered'[f][i] = Start + i - 1
                 /\ hold'[f] \subseteq (expected'[f] + 1) .. (sent[Other(f)] - 1)
                 /\ Cardinality(hold'[f]) <= MaxIn,
               \A q \in net' : Young(q)
        PROVE  Inv'
    <2>1. TypeOK'
      BY <1>1, <1>3, <1>4, <1>6 DEF Inv, TypeOK
    <2>2. \A f \in End : InStep(f)'
      <3> SUFFICES ASSUME NEW f \in End PROVE InStep(f)'
        OBVIOUS
      <3>1. out'[Other(f)] \in Nat /\ out'[Other(f)] <= expected[f] /\ expected[f] \in Nat
        BY <1>4, Ends, Known
      <3>2. expected'[f] \in Nat /\ expected[f] <= expected'[f]
        BY <1>6
      <3>3. out'[Other(f)] <= expected'[f]
        BY <3>1, <3>2
      <3>4. /\ expected'[f] <= sent[Other(f)]
            /\ expected'[f] = Start + Len(delivered'[f])
            /\ \A i \in DOMAIN delivered'[f] : delivered'[f][i] = Start + i - 1
            /\ hold'[f] \subseteq (expected'[f] + 1) .. (sent[Other(f)] - 1)
        BY <1>6
      <3> QED BY <1>1, <3>3, <3>4 DEF InStep
    <2>3. \A q \in net' : Young(q)'
      BY <1>1, <1>6, YoungStays
    <2> QED BY <1>6, <2>1, <2>2, <2>3 DEF Inv, ReliableInv
  <1>7. /\ pendingAck \in [End -> BOOLEAN] /\ closed \in [End -> BOOLEAN]
        /\ delivered \in [End -> Seq(Int)] /\ expected \in [End -> Nat]
        /\ hold \in [End -> SUBSET Nat]
    BY DEF Inv, TypeOK, ReliableInv
  <1>8. \A f \in End :
          /\ expected[f] <= expected[f] /\ expected[f] <= sent[Other(f)]
          /\ expected[f] = Start + Len(delivered[f])
          /\ \A i \in DOMAIN delivered[f] : delivered[f][i] = Start + i - 1
          /\ hold[f] \subseteq (expected[f] + 1) .. (sent[Other(f)] - 1)
          /\ Cardinality(hold[f]) <= MaxIn
    <2>1. \A f \in End : InStep(f) /\ Cardinality(hold[f]) <= MaxIn /\ expected[f] \in Nat
      BY DEF Inv, TypeOK, ReliableInv
    <2>2. \A f \in End : expected[f] <= expected[f]
      BY <2>1
    <2> QED BY <2>1, <2>2 DEF InStep
  <1>9. PICK rest \in Rest(m) :
          \/ /\ IsExpected(e, m.n)
             /\ Deliver(e, m) /\ net' = rest
             /\ pendingAck' = [pendingAck EXCEPT ![e] = TRUE] /\ UNCHANGED closed
          \/ /\ ~IsExpected(e, m.n) /\ SNDiff(m.n, expected[e]) < 0
             /\ pendingAck' = [pendingAck EXCEPT ![e] = TRUE]
             /\ net' = rest /\ UNCHANGED <<expected, hold, delivered, closed>>
          \/ /\ SNDiff(m.n, expected[e]) > 0
             /\ BufferIncoming(e, m, rest) /\ UNCHANGED <<expected, delivered, pendingAck>>
    BY DEF HandleReliableMessage
  <1>10. \A q \in rest : Young(q)
    BY RestIsOld
  <1>11. CASE /\ IsExpected(e, m.n) /\ Deliver(e, m) /\ net' = rest
              /\ pendingAck' = [pendingAck EXCEPT ![e] = TRUE] /\ UNCHANGED closed
    <2>1. m.n = expected[e] /\ expected[e] < sent[Other(e)]
      BY <1>5, <1>11
    <2>2. /\ delivered' \in [End -> Seq(Int)] /\ expected' \in [End -> Nat]
          /\ hold' \in [End -> SUBSET Nat]
          /\ \A f \in End :
               /\ expected[f] <= expected'[f] /\ expected'[f] <= sent[Other(f)]
               /\ expected'[f] = Start + Len(delivered'[f])
               /\ \A i \in DOMAIN delivered'[f] : delivered'[f][i] = Start + i - 1
               /\ hold'[f] \subseteq (expected'[f] + 1) .. (sent[Other(f)] - 1)
               /\ Cardinality(hold'[f]) <= MaxIn
      BY <1>11, <2>1, Delivers
    <2>3. pendingAck' \in [End -> BOOLEAN] /\ closed' \in [End -> BOOLEAN]
      BY <1>7, <1>11
    <2>4. \A q \in net' : Young(q)
      BY <1>10, <1>11
    <2> QED BY <1>6, <2>2, <2>3, <2>4
  <1>12. CASE /\ pendingAck' = [pendingAck EXCEPT ![e] = TRUE]
              /\ net' = rest /\ UNCHANGED <<expected, hold, delivered, closed>>
    <2>1. pendingAck' \in [End -> BOOLEAN]
      BY <1>7, <1>12
    <2>2. expected' = expected /\ hold' = hold /\ delivered' = delivered /\ closed' = closed
      BY <1>12
    <2>3. \A q \in net' : Young(q)
      BY <1>10, <1>12
    <2> QED BY <1>6, <1>7, <1>8, <2>1, <2>2, <2>3
  <1>13. CASE /\ SNDiff(m.n, expected[e]) > 0
              /\ BufferIncoming(e, m, rest) /\ UNCHANGED <<expected, delivered, pendingAck>>
    <2>1. expected[e] < m.n
      <3>1. expected[e] \in Nat
        BY Known
      <3> QED BY <1>5, <1>13, <3>1
    <2>2. /\ hold' \in [End -> SUBSET Nat] /\ closed' \in [End -> BOOLEAN]
          /\ \A f \in End : /\ hold'[f] \subseteq (expected[f] + 1) .. (sent[Other(f)] - 1)
                            /\ Cardinality(hold'[f]) <= MaxIn
          /\ \A q \in net' : q \in rest \/ Young(q)
      BY <1>5, <1>13, <2>1, BufferIncomingKeeps
    <2>3. expected' = expected /\ delivered' = delivered /\ pendingAck' = pendingAck
      BY <1>13
    <2>4. \A q \in net' : Young(q)
      BY <1>10, <2>2
    <2> QED BY <1>6, <1>7, <1>8, <2>2, <2>3, <2>4
  <1> QED BY <1>9, <1>11, <1>12, <1>13

-----------------------------------------------------------------------------
(***************************************************************************)
(* The invariant, and what follows from it                                 *)
(***************************************************************************)

\* Every step keeps the invariant.
LEMMA NextKeeps == ASSUME ReliableAssumption, Inv, [Next]_vars PROVE Inv'
  <1>1. ASSUME NEW e \in End, SendReliable(e) PROVE Inv'
    BY <1>1, SendReliableKeeps
  <1>2. ASSUME NEW e \in End, ConnectionThink(e) PROVE Inv'
    BY <1>2, CheckPendingAckKeeps, SendRetriesKeeps DEF ConnectionThink
  <1>3. ASSUME NEW m \in net, HandleMessage(m.to, m) PROVE Inv'
    <2>1. m.to \in End
      BY DEF Inv, ReliableInv, Young
    <2> QED BY <1>3, <2>1, HandleReliableKeeps, HandleAckKeeps, HandleNackKeeps, HandleClosedKeeps
            DEF HandleMessage
  <1>4. ASSUME NEW m \in net, Lose(m) PROVE Inv'
    BY <1>4, LoseKeeps
  <1>5. CASE UNCHANGED vars
    <2>1. /\ UNCHANGED <<sent, out, expected, hold, delivered>> /\ net' = net
          /\ pendingAck' \in [End -> BOOLEAN] /\ closed' \in [End -> BOOLEAN]
      BY <1>5 DEF vars, Inv, TypeOK
    <2>2. \A m \in net' : Young(m)
      BY <2>1 DEF Inv, ReliableInv
    <2> QED BY <2>1, <2>2, OnlyTheNet
  <1> QED BY <1>1, <1>2, <1>3, <1>4, <1>5 DEF Next

\* A message gt2WasMessageIDConfirmed says is confirmed lies before the first that is kept, and
\* what lies there the other end has handed on.
LEMMA Confirmed == ASSUME ReliableAssumption, Inv PROVE ConfirmedIsDelivered
  <1> SUFFICES ASSUME NEW e \in End, NEW n \in Start .. (sent[e] - 1),
                      sent[e] - n < Half, WasMessageIDConfirmed(e, n)
               PROVE  n < Start + Len(delivered[Other(e)])
    BY DEF ConfirmedIsDelivered
  <1>1. /\ sent[e] \in Nat /\ out[e] \in Nat /\ expected[Other(e)] \in Nat
        /\ out[e] <= sent[e] /\ sent[e] - out[e] <= MaxOut /\ out[e] <= expected[Other(e)]
        /\ expected[Other(e)] <= sent[e]
    BY Known
  <1>2. /\ Half \in Nat /\ MaxOut \in Nat /\ MaxOut < Half /\ Start \in Nat
    BY Halves
  <1>3. expected[Other(e)] = Start + Len(delivered[Other(e)])
    BY Ends DEF Inv, ReliableInv, InStep
  <1>4. n \in Int /\ n < sent[e]
    BY <1>1, <1>2
  <1>5. n < expected[Other(e)]
    <2>1. CASE Outgoing(e) = {}
      <3>1. out[e] = sent[e]
        <4> SUFFICES ASSUME out[e] # sent[e] PROVE FALSE
          OBVIOUS
        <4>1. out[e] \in Outgoing(e)
          BY <1>1 DEF Outgoing
        <4> QED BY <2>1, <4>1
      <3> QED BY <1>1, <1>4, <3>1
    <2>2. CASE SNDiff(n, out[e]) < 0
      <3>1. -Half <= n - out[e] /\ n - out[e] < Half
        BY <1>1, <1>2, <1>4
      <3>2. SNDiff(n, out[e]) = n - out[e]
        BY <1>1, <1>4, <3>1, Difference
      <3> QED BY <1>1, <1>4, <2>2, <3>2
    <2> QED BY <2>1, <2>2 DEF WasMessageIDConfirmed
  <1> QED BY <1>3, <1>5

\* The types, what the two ends always know of each other, and that gt2WasMessageIDConfirmed is
\* right, whatever UDP does (gt2Message.c, gt2Connection.c).
THEOREM ReliableHoldsAlways == ASSUME ReliableAssumption PROVE Spec => []ReliableHolds
  <1>1. Init => Inv
    BY StartsInStep
  <1>2. Inv /\ [Next]_vars => Inv'
    BY NextKeeps
  <1>3. Inv => ReliableHolds
    BY Confirmed DEF ReliableHolds, Inv
  <1> QED BY <1>1, <1>2, <1>3, PTL DEF Spec

\* Messages are handed on once each and in the order they were sent, past the wrap of their serial
\* numbers (gti2HandleReliableMessage, gti2DeliverHoldMessages).
THEOREM InOrderOnceHolds == ASSUME ReliableAssumption PROVE Spec => []InOrderOnce
  <1>1. Init => Inv
    BY StartsInStep
  <1>2. Inv /\ [Next]_vars => Inv'
    BY NextKeeps
  <1>3. Inv => InOrderOnce
    <2> SUFFICES ASSUME Inv PROVE InOrderOnce
      OBVIOUS
    <2>1. \A e \in End : /\ expected[e] <= sent[Other(e)]
                         /\ expected[e] = Start + Len(delivered[e])
                         /\ \A i \in DOMAIN delivered[e] : delivered[e][i] = Start + i - 1
      BY DEF Inv, ReliableInv, InStep
    <2> QED BY <2>1 DEF InOrderOnce
  <1> QED BY <1>1, <1>2, <1>3, PTL DEF Spec
-----------------------------------------------------------------------------
(***************************************************************************)
(* Stacks: what is on them after a call and after a return                 *)
(***************************************************************************)

\* How many frames of a kind are on a stack, and whether a frame is of it.
Count(s, T) == Cardinality(Sockets!Places(s, T))
Bit(f, T) == IF f \in T THEN 1 ELSE 0

\* The stack without the running frame.
LEMMA Returned ==
  ASSUME NEW S, NEW s \in Seq(S), s # <<>>
  PROVE  /\ Len(s) \in Nat /\ Len(s) > 0 /\ s[Len(s)] \in S
         /\ Sockets!Front(s) \in Seq(S) /\ Len(Sockets!Front(s)) = Len(s) - 1
         /\ DOMAIN Sockets!Front(s) = 1 .. (Len(s) - 1)
         /\ \A k \in 1 .. (Len(s) - 1) : Sockets!Front(s)[k] = s[k]
         /\ s = Append(Sockets!Front(s), s[Len(s)])
  <1>1. Len(s) \in Nat /\ Len(s) > 0 /\ s[Len(s)] \in S
    OBVIOUS
  <1>2. /\ Sockets!Front(s) \in Seq(S) /\ Len(Sockets!Front(s)) = Len(s) - 1
        /\ \A k \in 1 .. (Len(s) - 1) : Sockets!Front(s)[k] = s[k]
    <2> DEFINE n == Len(s) - 1
    <2>1. n \in Nat /\ n <= Len(s)
      BY <1>1
    <2>2. Sockets!Front(s) = SubSeq(s, 1, n)
      BY DEF Sockets!Front
    <2> HIDE DEF n
    <2>3. SubSeq(s, 1, n) \in Seq(S) /\ Len(SubSeq(s, 1, n)) = n /\ \A k \in 1 .. n : SubSeq(s, 1, n)[k] = s[k]
      BY <1>1, <2>1
    <2> QED BY <2>2, <2>3 DEF n
  <1>3. DOMAIN Sockets!Front(s) = 1 .. (Len(s) - 1)
    BY <1>2
  <1>4. s = Append(Sockets!Front(s), s[Len(s)])
    <2>1. Append(Sockets!Front(s), s[Len(s)]) \in Seq(S)
      BY <1>1, <1>2
    <2>2. Len(Append(Sockets!Front(s), s[Len(s)])) = Len(s)
      BY <1>1, <1>2
    <2>3. \A k \in 1 .. Len(s) : Append(Sockets!Front(s), s[Len(s)])[k] = s[k]
      BY <1>1, <1>2
    <2> QED BY <2>1, <2>2, <2>3, SeqEqual
  <1> QED BY <1>1, <1>2, <1>3, <1>4

\* A frame more.
LEMMA Pushed ==
  ASSUME NEW S, NEW s \in Seq(S), NEW f \in S
  PROVE  /\ Append(s, f) \in Seq(S) /\ Len(Append(s, f)) = Len(s) + 1 /\ Len(s) \in Nat
         /\ DOMAIN s = 1 .. Len(s) /\ DOMAIN Append(s, f) = 1 .. (Len(s) + 1)
         /\ \A k \in 1 .. Len(s) : Append(s, f)[k] = s[k]
         /\ Append(s, f)[Len(s) + 1] = f
  OBVIOUS

\* The places of a kind are finitely many.
LEMMA Counted ==
  ASSUME NEW S, NEW s \in Seq(S), NEW T
  PROVE  /\ IsFiniteSet(Sockets!Places(s, T)) /\ Count(s, T) \in Nat
         /\ Sockets!Places(s, T) \subseteq 1 .. Len(s)
         /\ (Count(s, T) = 0 <=> \A k \in 1 .. Len(s) : s[k] \notin T)
  <1>1. Len(s) \in Nat /\ DOMAIN s = 1 .. Len(s)
    OBVIOUS
  <1>2. Sockets!Places(s, T) \in SUBSET (1 .. Len(s))
    BY <1>1 DEF Sockets!Places
  <1>3. IsFiniteSet(1 .. Len(s))
    BY <1>1, FS_Interval
  <1>4. IsFiniteSet(Sockets!Places(s, T))
    BY <1>2, <1>3, FS_Subset
  <1>5. Count(s, T) \in Nat
    BY <1>4, FS_CardinalityType DEF Count
  <1>6. Count(s, T) = 0 <=> Sockets!Places(s, T) = {}
    BY <1>4, FS_EmptySet DEF Count
  <1>7. Sockets!Places(s, T) = {} <=> \A k \in 1 .. Len(s) : s[k] \notin T
    BY <1>1 DEF Sockets!Places
  <1> QED BY <1>2, <1>4, <1>5, <1>6, <1>7

\* A frame more counts if it is of the kind.
LEMMA CountPushed ==
  ASSUME NEW S, NEW s \in Seq(S), NEW f \in S, NEW T
  PROVE  Count(Append(s, f), T) = Count(s, T) + Bit(f, T)
  <1> DEFINE n == Len(s) + 1
             P == Sockets!Places(s, T)
             Q == Sockets!Places(Append(s, f), T)
  <1>1. IsFiniteSet(P) /\ n \notin P
    <2>1. P \subseteq 1 .. Len(s) /\ Len(s) \in Nat /\ IsFiniteSet(P)
      BY Counted
    <2> HIDE DEF P
    <2> QED BY <2>1
  <1>2. CASE f \in T
    <2>1. Q = P \union {n}
      BY Pushed, <1>2 DEF Sockets!Places
    <2> HIDE DEF P, Q, n
    <2>2. Cardinality(Q) = Cardinality(P) + 1
      BY <1>1, <2>1, FS_AddElement
    <2> QED BY <1>2, <2>2 DEF P, Q, Count, Bit
  <1>3. CASE f \notin T
    <2>1. Q = P
      BY Pushed, <1>3 DEF Sockets!Places
    <2>2. Count(Append(s, f), T) = Count(s, T)
      BY <2>1 DEF Count
    <2>3. Count(s, T) \in Nat
      BY Counted
    <2> HIDE DEF P, Q, n
    <2> QED BY <1>3, <2>2, <2>3 DEF Bit
  <1> QED BY <1>2, <1>3

\* What a return, a step of the running frame and a call do to the count.
LEMMA CountMoved ==
  ASSUME NEW S, NEW s \in Seq(S), s # <<>>, NEW T, NEW g \in S, NEW f \in S
  PROVE  LET r == Sockets!Front(s) IN
         /\ Count(s, T) = Count(r, T) + Bit(s[Len(s)], T)
         /\ Count(Append(r, g), T) = Count(r, T) + Bit(g, T)
         /\ Count(Append(Append(r, g), f), T) = Count(r, T) + Bit(g, T) + Bit(f, T)
         /\ Count(r, T) \in Nat
  <1> DEFINE r == Sockets!Front(s)
  <1>1. r \in Seq(S) /\ s = Append(r, s[Len(s)]) /\ s[Len(s)] \in S
    BY Returned
  <1>2. Append(r, g) \in Seq(S)
    BY <1>1
  <1> HIDE DEF r
  <1>3. Count(s, T) = Count(r, T) + Bit(s[Len(s)], T)
    BY <1>1, CountPushed
  <1>4. Count(Append(r, g), T) = Count(r, T) + Bit(g, T)
    BY <1>1, CountPushed
  <1>5. Count(Append(Append(r, g), f), T) = Count(Append(r, g), T) + Bit(f, T)
    BY <1>2, CountPushed
  <1>6. Count(r, T) \in Nat
    BY <1>1, Counted
  <1> QED BY <1>3, <1>4, <1>5, <1>6 DEF r

\* Nothing is on an empty stack.
LEMMA CountEmpty == ASSUME NEW T PROVE Count(<<>>, T) = 0 /\ Sockets!Places(<<>>, T) = {}
  <1>1. Sockets!Places(<<>>, T) = {}
    BY DEF Sockets!Places
  <1> QED BY <1>1, FS_EmptySet DEF Count

\* The table without the connection at one place of it.
LEMMA TakenFrom ==
  ASSUME NEW S, NEW q \in Seq(S), NEW i \in DOMAIN q
  PROVE  LET r == Sockets!RemoveAt(q, i) IN
         /\ r \in Seq(S) /\ Len(r) = Len(q) - 1 /\ DOMAIN r = 1 .. (Len(q) - 1)
         /\ \A k \in 1 .. (Len(q) - 1) : r[k] = IF k < i THEN q[k] ELSE q[k + 1]
  <1> DEFINE n == i - 1
             m == Len(q) - i
             a == SubSeq(q, 1, n)
             b == SubSeq(q, i + 1, Len(q))
  <1>1. Len(q) \in Nat /\ i \in 1 .. Len(q) /\ DOMAIN q = 1 .. Len(q)
    OBVIOUS
  <1>2. n \in Nat /\ n <= Len(q) /\ m \in Nat /\ n + m = Len(q) - 1 /\ i = n + 1
    BY <1>1
  <1>3. Sockets!RemoveAt(q, i) = a \o b
    BY DEF Sockets!RemoveAt
  <1>4. a \in Seq(S) /\ Len(a) = n /\ \A k \in 1 .. n : a[k] = q[k]
    <2> HIDE DEF n
    <2> QED BY <1>1, <1>2
  <1>5. b \in Seq(S) /\ Len(b) = m /\ \A k \in 1 .. m : b[k] = q[i + k]
    <2>1. i + 1 \in Int /\ Len(q) \in Int /\ \A k \in (i + 1) .. Len(q) : q[k] \in S
      BY <1>1
    <2>2. /\ b \in Seq(S) /\ Len(b) = IF i + 1 <= Len(q) THEN Len(q) - (i + 1) + 1 ELSE 0
          /\ \A k \in 1 .. Len(q) - (i + 1) + 1 : b[k] = q[i + 1 + k - 1]
      BY <2>1, SubSeqProperties
    <2> HIDE DEF b
    <2>3. Len(q) - (i + 1) + 1 = m /\ \A k \in 1 .. m : i + 1 + k - 1 = i + k
      BY <1>1
    <2>4. Len(b) = m
      BY <1>1, <2>2
    <2> HIDE DEF m
    <2> QED BY <2>2, <2>3, <2>4
  <1> HIDE DEF a, b
  <1>6. /\ a \o b \in Seq(S) /\ Len(a \o b) = n + m /\ DOMAIN (a \o b) = 1 .. (n + m)
        /\ \A k \in 1 .. (n + m) : (a \o b)[k] = IF k <= n THEN a[k] ELSE b[k - n]
    <2>1. /\ Len(a) \in Nat /\ Len(b) \in Nat /\ a \o b \in Seq(S) /\ Len(a \o b) = Len(a) + Len(b)
          /\ DOMAIN (a \o b) = 1 .. (Len(a) + Len(b))
          /\ \A k \in 1 .. (Len(a) + Len(b)) : (a \o b)[k] = IF k <= Len(a) THEN a[k] ELSE b[k - Len(a)]
      <3>1. a \in Seq(S) /\ b \in Seq(S)
        BY <1>4, <1>5
      <3> QED BY <3>1, ConcatProperties
    <2>2. Len(a) = n /\ Len(b) = m
      BY <1>4, <1>5
    <2> HIDE DEF n, m
    <2> QED BY <2>1, <2>2
  <1>7. \A k \in 1 .. (Len(q) - 1) : (a \o b)[k] = IF k < i THEN q[k] ELSE q[k + 1]
    <2> SUFFICES ASSUME NEW k \in 1 .. (Len(q) - 1)
                 PROVE  (a \o b)[k] = IF k < i THEN q[k] ELSE q[k + 1]
      OBVIOUS
    <2>1. k \in 1 .. (n + m) /\ k \in Nat
      BY <1>1, <1>2
    <2>2. CASE k < i
      <3>1. k \in 1 .. n /\ k <= n
        BY <1>1, <2>1, <2>2
      <3> HIDE DEF n, m
      <3> QED BY <1>4, <1>6, <2>1, <2>2, <3>1
    <2>3. CASE ~(k < i)
      <3>1. k - n \in 1 .. m /\ i + (k - n) = k + 1 /\ ~(k <= n)
        BY <1>1, <2>1, <2>3
      <3> HIDE DEF n, m
      <3>2. (a \o b)[k] = b[k - n]
        BY <1>6, <2>1, <3>1
      <3>3. b[k - n] = q[i + (k - n)]
        BY <1>5, <3>1
      <3> QED BY <2>3, <3>1, <3>2, <3>3
    <2> QED BY <2>2, <2>3
  <1>8. n + m = Len(q) - 1
    BY <1>2
  <1> HIDE DEF n, m
  <1> QED BY <1>3, <1>6, <1>7, <1>8

-----------------------------------------------------------------------------
(***************************************************************************)
(* What a step does to the stack                                           *)
(***************************************************************************)

\* The running frame, before and after its next step.
LEMMA TopIs ==
  ASSUME Sockets!StackInv, stack # <<>>
  PROVE  /\ Sockets!Top \in Sockets!Frames /\ Sockets!Top = stack[Len(stack)]
         /\ Len(stack) \in Nat /\ Len(stack) > 0 /\ Len(stack) \in DOMAIN stack
         /\ DOMAIN stack = 1 .. Len(stack) /\ MaxDepth > 0
         /\ \A pc \in Sockets!Points, i \in Int :
              /\ Sockets!Goto(pc, i) \in Sockets!Frames
              /\ Sockets!Goto(pc, i).fn = Sockets!Top.fn /\ Sockets!Goto(pc, i).c = Sockets!Top.c
              /\ Sockets!Goto(pc, i).pc = pc /\ Sockets!Goto(pc, i).i = i
         /\ Sockets!Top.i \in Int /\ Sockets!Top.c \in Conn \union {Sockets!None}
         /\ Sockets!Top.fn = "CloseHard" => Sockets!Top.c \in Conn
  <1>1. /\ stack \in Seq(Sockets!Frames) /\ MaxDepth > 0
        /\ \A k \in DOMAIN stack : stack[k].fn = "CloseHard" => stack[k].c \in Conn
    BY DEF Sockets!StackInv
  <1>2. /\ Len(stack) \in Nat /\ Len(stack) > 0 /\ Len(stack) \in DOMAIN stack
        /\ DOMAIN stack = 1 .. Len(stack) /\ stack[Len(stack)] \in Sockets!Frames
    BY <1>1
  <1>3. Sockets!Top \in Sockets!Frames /\ Sockets!Top = stack[Len(stack)]
    BY <1>2 DEF Sockets!Top
  <1>4. \A pc \in Sockets!Points, i \in Int :
          /\ Sockets!Goto(pc, i) \in Sockets!Frames
          /\ Sockets!Goto(pc, i).fn = Sockets!Top.fn /\ Sockets!Goto(pc, i).c = Sockets!Top.c
          /\ Sockets!Goto(pc, i).pc = pc /\ Sockets!Goto(pc, i).i = i
    BY <1>3 DEF Sockets!Frames, Sockets!Goto
  <1>5. Sockets!Top.i \in Int /\ Sockets!Top.c \in Conn \union {Sockets!None}
    BY <1>3 DEF Sockets!Frames
  <1> QED BY <1>1, <1>2, <1>3, <1>4, <1>5

\* A frame of a function that is called.
LEMMA FrameIs ==
  ASSUME NEW fn \in Sockets!Functions, NEW c \in Conn \union {Sockets!None}
  PROVE  /\ Sockets!Frame(fn, c) \in Sockets!Frames
         /\ Sockets!Frame(fn, c).fn = fn /\ Sockets!Frame(fn, c).c = c
         /\ Sockets!Frame(fn, c).pc = "start" /\ Sockets!Frame(fn, c).i = 0
  BY DEF Sockets!Frame, Sockets!Frames, Sockets!Points

\* A frame may be on the stack.
Sound(f) == f \in Sockets!Frames /\ (f.fn = "CloseHard" => f.c \in Conn)

\* The program calls a function, in a callback or out of it.
Calling == \E f : /\ Sound(f) /\ f.fn # "Callback" /\ stack' = Append(stack, f)
                  /\ Len(stack) < MaxDepth /\ fault = Sockets!None

\* The running function returns; goes on; calls another and waits for it.
Returning == stack' = Sockets!Front(stack)
GoingOn == \E g : Sound(g) /\ g.fn # "Callback" /\ stack' = Append(Sockets!Front(stack), g)
CallingFrom(fn, c) ==
  \E g : /\ Sound(g) /\ g.fn # "Callback"
         /\ stack' = Append(Append(Sockets!Front(stack), g), Sockets!Frame(fn, c))

\* No callback starts or ends; one starts; one ends.
Quiet == UNCHANGED <<level, clevel>>
InFunction == stack # <<>> /\ Sockets!Top.fn # "Callback"
CallingOther ==
  \E fn \in Sockets!Functions \ {"Callback"}, c \in Conn \union {Sockets!None} :
    Sound(Sockets!Frame(fn, c)) /\ CallingFrom(fn, c)
Entering ==
  /\ InFunction /\ socket = "open" /\ UNCHANGED <<socket, freed>>
  /\ \E c \in (Conn \union {Sockets!None}) \ freed : Sockets!Enter(c) /\ CallingFrom("Callback", c)
Leaving ==
  /\ stack # <<>> /\ Sockets!Top.fn = "Callback" /\ Returning /\ level' = level - 1
  /\ clevel' = [c \in Conn |-> IF c = Sockets!Top.c THEN clevel[c] - 1 ELSE clevel[c]]
Moving ==
  \/ Quiet /\ Calling
  \/ Quiet /\ InFunction /\ (Returning \/ GoingOn \/ CallingOther)
  \/ Entering \/ Leaving

\* What goes on is the running frame, what is called a new one.
LEMMA StepsOn ==
  ASSUME Sockets!SocketsAssumption, Sockets!SocketsInv, InFunction,
         NEW pc \in Sockets!Points, NEW i \in Int
  PROVE  /\ Sound(Sockets!Goto(pc, i)) /\ Sockets!Goto(pc, i).fn # "Callback"
         /\ Sockets!Continue(pc, i) => GoingOn
         /\ \A fn \in Sockets!Functions, c \in Conn \union {Sockets!None} :
              Sockets!Call(pc, fn, c) => CallingFrom(fn, c)
  <1>1. Sockets!StackInv
    BY DEF Sockets!SocketsInv
  <1>2. \A j \in Int : Sound(Sockets!Goto(pc, j)) /\ Sockets!Goto(pc, j).fn # "Callback"
    BY <1>1, TopIs DEF Sound, InFunction
  <1>3. Sockets!Continue(pc, i) => GoingOn
    BY <1>2 DEF Sockets!Continue, GoingOn
  <1>4. ASSUME NEW fn \in Sockets!Functions, NEW c \in Conn \union {Sockets!None}, Sockets!Call(pc, fn, c)
        PROVE  CallingFrom(fn, c)
    <2>1. Sockets!Top.i \in Int
      BY <1>1, TopIs DEF InFunction
    <2> QED BY <1>2, <1>4, <2>1 DEF Sockets!Call, CallingFrom
  <1> QED BY <1>2, <1>3, <1>4

\* Every step does one of these.
LEMMA StackMoves ==
  ASSUME Sockets!SocketsAssumption, Sockets!SocketsInv, Sockets!Step
  PROVE  \/ fault' = fault /\ Moving
         \/ /\ fault' \in {"socket", "connection", "element"} /\ fault' # Sockets!None /\ stack' = <<>>
            /\ UNCHANGED <<Sockets!objects, ret>>
  <1> DEFINE goal == fault' = fault /\ Moving
  <1>1. Sockets!StackInv /\ bucket \in Seq(Conn)
    BY DEF Sockets!SocketsInv, Sockets!TableInv
  <1>2. stack # <<>> => Sockets!Top.i \in Int /\ Sockets!Top.c \in Conn \union {Sockets!None}
    BY <1>1, TopIs
  <1>3. \A c \in Sockets!ToSet(bucket) : c \in Conn \ freed
    <2>1. \A i \in DOMAIN bucket : bucket[i] \in Conn /\ bucket[i] \notin freed
      BY <1>1 DEF Sockets!SocketsInv, Sockets!TableInv
    <2> QED BY <2>1 DEF Sockets!ToSet
  <1> DEFINE stays == socket = "open" /\ UNCHANGED <<socket, freed>>
  <1>4. ASSUME NEW fn \in Sockets!Calls, Sockets!Program(fn) PROVE goal
    <2>1. \E f : Sound(f) /\ f.fn # "Callback" /\ stack' = Append(stack, f)
      <3>1. CASE \E c \in Conn : stack' = Append(stack, Sockets!Frame("CloseHard", c))
        <4>1. PICK c \in Conn : stack' = Append(stack, Sockets!Frame("CloseHard", c))
          BY <3>1
        <4>2. Sound(Sockets!Frame("CloseHard", c)) /\ Sockets!Frame("CloseHard", c).fn # "Callback"
          BY FrameIs DEF Sound, Sockets!Functions, Sockets!Calls
        <4> QED BY <4>1, <4>2
      <3>2. CASE fn \in {"Think", "CloseSocket"} /\ stack' = Append(stack, Sockets!Frame(fn, Sockets!None))
        <4>1. Sound(Sockets!Frame(fn, Sockets!None)) /\ Sockets!Frame(fn, Sockets!None).fn # "Callback"
          BY <3>2, FrameIs DEF Sound, Sockets!Functions, Sockets!Calls
        <4> QED BY <3>2, <4>1
      <3> QED BY <1>4, <3>1, <3>2 DEF Sockets!Program
    <2>2. fault' = fault /\ Len(stack) < MaxDepth /\ fault = Sockets!None /\ Quiet
      BY <1>4 DEF Sockets!Program, Sockets!objects, Quiet
    <2> QED BY <2>1, <2>2 DEF Calling, Moving
  <1>5. CASE Sockets!ReturnFromCallback
    BY <1>5 DEF Sockets!ReturnFromCallback, Sockets!Running, Sockets!Return, Moving, Leaving, Returning
  <1>6. CASE Sockets!CloseHardStart
    <2>1. InFunction /\ fault' = fault /\ Quiet
      BY <1>6 DEF Sockets!CloseHardStart, Sockets!Running, Sockets!objects, InFunction, Quiet
    <2>2. Returning \/ Sockets!Continue("sent", 0) \/ Sockets!Call("sent", "SocketError", Sockets!None)
      BY <1>6 DEF Sockets!CloseHardStart, Sockets!Return, Returning
    <2>3. /\ "sent" \in Sockets!Points /\ 0 \in Int /\ "SocketError" \in Sockets!Functions \ {"Callback"}
          /\ Sockets!None \in Conn \union {Sockets!None}
      BY DEF Sockets!Points, Sockets!Functions, Sockets!Calls
    <2>4. Returning \/ GoingOn \/ CallingFrom("SocketError", Sockets!None)
      BY <2>1, <2>2, <2>3, StepsOn
    <2>5. Sound(Sockets!Frame("SocketError", Sockets!None))
      BY <2>3, FrameIs DEF Sound
    <2> QED BY <2>1, <2>3, <2>4, <2>5 DEF Moving, CallingOther
  <1>7. CASE Sockets!CloseHardSent
    <2>1. InFunction /\ fault' = fault /\ stays
      BY <1>7 DEF Sockets!CloseHardSent, Sockets!Running, InFunction
    <2>2. Sockets!Call("told", "Callback", Sockets!Top.c) /\ Sockets!Enter(Sockets!Top.c)
      BY <1>7 DEF Sockets!CloseHardSent, Sockets!CallBack
    <2>3. "told" \in Sockets!Points /\ 0 \in Int /\ "Callback" \in Sockets!Functions
      BY DEF Sockets!Points, Sockets!Functions
    <2>4. Sockets!Top.c \in (Conn \union {Sockets!None}) \ freed
      BY <1>2, <1>7, <2>1 DEF InFunction, Sockets!CloseHardSent
    <2>5. CallingFrom("Callback", Sockets!Top.c)
      BY <2>1, <2>2, <2>3, <2>4, StepsOn
    <2> QED BY <2>1, <2>2, <2>4, <2>5 DEF Moving, Entering
  <1>8. CASE Sockets!CloseHardTold \/ Sockets!CloseSocketClosed \/ Sockets!SocketErrorTold \/ Sockets!ThinkFree
    <2>1. InFunction /\ fault' = fault /\ Quiet /\ Returning
      BY <1>8 DEF Sockets!CloseHardTold, Sockets!CloseSocketClosed, Sockets!SocketErrorTold, Sockets!ThinkFree,
                  Sockets!Running, Sockets!Return, InFunction, Quiet, Returning
    <2> QED BY <2>1 DEF Moving
  <1>9. CASE Sockets!MapStart
    <2>1. InFunction /\ fault' = fault /\ Quiet /\ Sockets!Continue("map", Len(bucket))
      BY <1>9 DEF Sockets!MapStart, Sockets!Running, Sockets!objects, InFunction, Quiet
    <2>2. "map" \in Sockets!Points /\ Len(bucket) \in Int
      BY <1>1 DEF Sockets!Points
    <2>3. GoingOn
      BY <2>1, <2>2, StepsOn
    <2> QED BY <2>1, <2>3 DEF Moving
  <1>10. CASE Sockets!MapOne
    <2>1. InFunction /\ fault' = fault /\ Quiet
      BY <1>10 DEF Sockets!MapOne, Sockets!Running, Sockets!objects, InFunction, Quiet
    <2>2. CASE Sockets!Return(TRUE)
      BY <2>1, <2>2 DEF Sockets!Return, Moving, Returning
    <2>3. CASE /\ Sockets!Top.i \in 1 .. Len(bucket)
               /\ stack' = Append(Append(Sockets!Front(stack), Sockets!Goto("map", Sockets!Top.i - 1)),
                                  Sockets!Frame("CloseHard", bucket[Sockets!Top.i]))
      <3>1. bucket[Sockets!Top.i] \in Conn /\ Sockets!Top.i - 1 \in Int
        BY <1>1, <1>2, <2>1, <2>3 DEF InFunction
      <3>2. "map" \in Sockets!Points /\ "CloseHard" \in Sockets!Functions \ {"Callback"}
        BY DEF Sockets!Points, Sockets!Functions, Sockets!Calls
      <3>3. Sound(Sockets!Goto("map", Sockets!Top.i - 1)) /\ Sockets!Goto("map", Sockets!Top.i - 1).fn # "Callback"
        BY <2>1, <3>1, <3>2, StepsOn
      <3>4. Sound(Sockets!Frame("CloseHard", bucket[Sockets!Top.i]))
        BY <3>1, <3>2, FrameIs DEF Sound
      <3>5. CallingFrom("CloseHard", bucket[Sockets!Top.i])
        BY <2>3, <3>3 DEF CallingFrom
      <3> QED BY <2>1, <3>1, <3>2, <3>4, <3>5 DEF Moving, CallingOther
    <2> QED BY <1>10, <2>2, <2>3 DEF Sockets!MapOne
  <1>11. CASE Sockets!CloseSocketStart \/ Sockets!SocketErrorStart
    <2>1. /\ InFunction /\ fault' = fault /\ Quiet
          /\ Sockets!Call("closed", "CloseAll", Sockets!None)
      BY <1>11 DEF Sockets!CloseSocketStart, Sockets!SocketErrorStart, Sockets!Running, Sockets!objects,
                   InFunction, Quiet
    <2>2. /\ "closed" \in Sockets!Points /\ 0 \in Int /\ "CloseAll" \in Sockets!Functions \ {"Callback"}
          /\ Sockets!None \in Conn \union {Sockets!None}
      BY DEF Sockets!Points, Sockets!Functions, Sockets!Calls
    <2>3. CallingFrom("CloseAll", Sockets!None)
      BY <2>1, <2>2, StepsOn
    <2>4. Sound(Sockets!Frame("CloseAll", Sockets!None))
      BY <2>2, FrameIs DEF Sound
    <2> QED BY <2>1, <2>2, <2>3, <2>4 DEF Moving, CallingOther
  <1>12. CASE Sockets!SocketErrorClosed
    <2>1. InFunction /\ fault' = fault /\ stays
      BY <1>12 DEF Sockets!SocketErrorClosed, Sockets!Running, InFunction
    <2>2. Sockets!Call("told", "Callback", Sockets!None) /\ Sockets!Enter(Sockets!None)
      BY <1>12 DEF Sockets!SocketErrorClosed, Sockets!CallBack
    <2>3. /\ "told" \in Sockets!Points /\ 0 \in Int /\ "Callback" \in Sockets!Functions
          /\ Sockets!None \in (Conn \union {Sockets!None}) \ freed
      BY DEF Sockets!Points, Sockets!Functions, Sockets!SocketsInv, Sockets!TypeOK, Sockets!SocketsAssumption
    <2>4. CallingFrom("Callback", Sockets!None)
      BY <2>1, <2>2, <2>3, StepsOn
    <2> QED BY <2>1, <2>2, <2>3, <2>4 DEF Moving, Entering
  <1>13. CASE Sockets!ThinkReceive
    <2>1. InFunction /\ fault' = fault
      BY <1>13 DEF Sockets!ThinkReceive, Sockets!Running, InFunction
    <2>2. \/ Sockets!Continue("connections", Len(bucket)) /\ Quiet
          \/ stays /\ \E c \in Sockets!ToSet(bucket) : Sockets!Call("received", "Callback", c) /\ Sockets!Enter(c)
      BY <1>13 DEF Sockets!ThinkReceive, Sockets!CallBack, Sockets!objects, Quiet
    <2>3. /\ "connections" \in Sockets!Points /\ Len(bucket) \in Int /\ "received" \in Sockets!Points
          /\ "Callback" \in Sockets!Functions /\ 0 \in Int
      BY <1>1 DEF Sockets!Points, Sockets!Functions
    <2>4. CASE Sockets!Continue("connections", Len(bucket)) /\ Quiet
      <3>1. GoingOn
        BY <2>1, <2>3, <2>4, StepsOn
      <3> QED BY <2>1, <2>4, <3>1 DEF Moving
    <2>5. ASSUME stays, NEW c \in Sockets!ToSet(bucket), Sockets!Call("received", "Callback", c), Sockets!Enter(c)
          PROVE  goal
      <3>1. c \in (Conn \union {Sockets!None}) \ freed
        BY <1>3
      <3>2. CallingFrom("Callback", c)
        BY <2>1, <2>3, <2>5, <3>1, StepsOn
      <3> QED BY <2>1, <2>5, <3>1, <3>2 DEF Moving, Entering
    <2> QED BY <2>2, <2>4, <2>5
  <1>14. CASE Sockets!ThinkReceived
    <2>1. /\ InFunction /\ fault' = fault /\ Quiet
          /\ Returning \/ Sockets!Continue("start", 0)
      BY <1>14 DEF Sockets!ThinkReceived, Sockets!Running, Sockets!Return, Sockets!objects,
                   InFunction, Quiet, Returning
    <2>2. "start" \in Sockets!Points /\ 0 \in Int
      BY DEF Sockets!Points
    <2>3. Returning \/ GoingOn
      BY <2>1, <2>2, StepsOn
    <2> QED BY <2>1, <2>3 DEF Moving
  <1>15. CASE Sockets!ThinkConnection
    <2> DEFINE c == bucket[Sockets!Top.i]
               g == [Sockets!Goto("timedOut", Sockets!Top.i) EXCEPT !.c = c]
               timesOut == /\ Sockets!Top.i \in 1 .. Len(bucket) /\ Sockets!Enter(c) /\ stays
                           /\ stack' = Append(Append(Sockets!Front(stack), g), Sockets!Frame("Callback", c))
    <2>1. InFunction /\ Sockets!Top.fn = "Think" /\ fault' = fault
      BY <1>15 DEF Sockets!ThinkConnection, Sockets!Running, InFunction
    <2>2. \/ Sockets!Continue("free", 0) /\ Quiet
          \/ Sockets!Continue("connections", Sockets!Top.i - 1) /\ Quiet
          \/ timesOut
      BY <1>15 DEF Sockets!ThinkConnection, Sockets!objects, Quiet
    <2>3. /\ "connections" \in Sockets!Points /\ "free" \in Sockets!Points /\ "timedOut" \in Sockets!Points
          /\ 0 \in Int /\ Sockets!Top.i - 1 \in Int /\ Sockets!Top.i \in Int
      BY <1>2, <2>1 DEF Sockets!Points, InFunction
    <2>4. CASE Quiet /\ (Sockets!Continue("free", 0) \/ Sockets!Continue("connections", Sockets!Top.i - 1))
      <3>1. GoingOn
        BY <2>1, <2>3, <2>4, StepsOn
      <3> QED BY <2>1, <2>4, <3>1 DEF Moving
    <2>5. CASE timesOut
      <3>1. c \in Conn \ freed
        BY <1>1, <1>3, <2>5 DEF Sockets!ToSet
      <3>2. Sound(g) /\ g.fn # "Callback"
        <4>1. Sockets!Goto("timedOut", Sockets!Top.i) \in Sockets!Frames
              /\ Sockets!Goto("timedOut", Sockets!Top.i).fn = "Think"
          BY <1>1, <2>1, <2>3, TopIs DEF InFunction
        <4> HIDE DEF c
        <4> QED BY <3>1, <4>1 DEF Sound, Sockets!Frames
      <3> HIDE DEF g, c
      <3>3. CallingFrom("Callback", c) /\ Sockets!Enter(c) /\ stays
        BY <2>5, <3>2 DEF CallingFrom
      <3>4. c \in (Conn \union {Sockets!None}) \ freed
        BY <3>1
      <3> QED BY <2>1, <3>3, <3>4 DEF Moving, Entering
    <2> HIDE DEF timesOut
    <2> QED BY <2>2, <2>4, <2>5
  <1>16. CASE Sockets!ThinkTimedOut
    <2> DEFINE g == [Sockets!Goto("connections", Sockets!Top.i - 1) EXCEPT !.c = Sockets!None]
    <2>1. InFunction /\ Sockets!Top.fn = "Think" /\ fault' = fault /\ Quiet
      BY <1>16 DEF Sockets!ThinkTimedOut, Sockets!Running, InFunction, Quiet
    <2>2. Returning \/ stack' = Append(Sockets!Front(stack), g)
      BY <1>16 DEF Sockets!ThinkTimedOut, Sockets!Return, Returning
    <2>3. Sound(g) /\ g.fn # "Callback"
      <3>1. "connections" \in Sockets!Points /\ Sockets!Top.i - 1 \in Int
        BY <1>2, <2>1 DEF Sockets!Points, InFunction
      <3>2. /\ Sockets!Goto("connections", Sockets!Top.i - 1) \in Sockets!Frames
            /\ Sockets!Goto("connections", Sockets!Top.i - 1).fn = "Think"
        BY <1>1, <2>1, <3>1, TopIs DEF InFunction
      <3> QED BY <3>2 DEF Sound, Sockets!Frames
    <2> HIDE DEF g
    <2>4. Returning \/ GoingOn
      BY <2>2, <2>3 DEF GoingOn
    <2> QED BY <2>1, <2>4 DEF Moving
  <1>17. CASE Sockets!UseAfterFree
    BY <1>17 DEF Sockets!UseAfterFree, Sockets!Fault, Sockets!None
  <1> QED
    BY <1>4, <1>5, <1>6, <1>7, <1>8, <1>9, <1>10, <1>11, <1>12, <1>13, <1>14, <1>15, <1>16, <1>17 DEF Sockets!Step

\* The stack stays sound: only sound frames are put on it, and nothing but the program calls from a
\* callback.
LEMMA StackKept ==
  ASSUME Sockets!SocketsAssumption, Sockets!SocketsInv, Sockets!Step, told' \in [Conn -> Nat]
  PROVE  Sockets!StackInv'
  <1> DEFINE room(s) == \A k \in DOMAIN s : s[k].fn = "Callback" /\ k < Len(s) => k < MaxDepth
             sound(s) == \A k \in DOMAIN s : s[k].fn = "CloseHard" => s[k].c \in Conn
  <1>1. /\ stack \in Seq(Sockets!Frames) /\ (fault # Sockets!None => stack = <<>>)
        /\ (stack # <<>> => MaxDepth > 0) /\ room(stack) /\ sound(stack) /\ MaxDepth \in Nat
    BY DEF Sockets!SocketsInv, Sockets!StackInv, Sockets!SocketsAssumption
  <1>2. SUFFICES /\ stack' \in Seq(Sockets!Frames) /\ (fault' # Sockets!None => stack' = <<>>)
                 /\ (stack' # <<>> => MaxDepth > 0) /\ room(stack') /\ sound(stack')
    BY DEF Sockets!StackInv
  <1>3. CASE fault' # Sockets!None /\ stack' = <<>>
    BY <1>3
  <1>4. CASE fault' = fault /\ Calling
    <2>1. PICK f : /\ Sound(f) /\ f.fn # "Callback" /\ stack' = Append(stack, f)
                   /\ Len(stack) < MaxDepth /\ fault = Sockets!None
      BY <1>4 DEF Calling
    <2>2. f \in Sockets!Frames /\ (f.fn = "CloseHard" => f.c \in Conn)
      BY <2>1 DEF Sound
    <2>3. /\ stack' \in Seq(Sockets!Frames) /\ Len(stack') = Len(stack) + 1 /\ Len(stack) \in Nat
          /\ DOMAIN stack = 1 .. Len(stack) /\ DOMAIN stack' = 1 .. (Len(stack) + 1)
          /\ \A k \in 1 .. Len(stack) : stack'[k] = stack[k]
          /\ stack'[Len(stack) + 1] = f
      BY <1>1, <2>1, <2>2, Pushed
    <2>4. room(stack')
      <3> SUFFICES ASSUME NEW k \in 1 .. (Len(stack) + 1), k < Len(stack) + 1 PROVE k < MaxDepth
        BY <2>3
      <3> QED BY <1>1, <2>1, <2>3
    <2>5. sound(stack')
      <3> SUFFICES ASSUME NEW k \in 1 .. (Len(stack) + 1), stack'[k].fn = "CloseHard" PROVE stack'[k].c \in Conn
        BY <2>3
      <3>1. CASE k = Len(stack) + 1
        BY <2>2, <2>3, <3>1
      <3>2. CASE k \in 1 .. Len(stack)
        BY <1>1, <2>3, <3>2
      <3> QED BY <2>3, <3>1, <3>2
    <2> QED BY <1>1, <1>4, <2>1, <2>3, <2>4, <2>5
  <1> DEFINE calls == \E fn \in Sockets!Functions, c \in Conn \union {Sockets!None} :
                        Sound(Sockets!Frame(fn, c)) /\ CallingFrom(fn, c)
  <1>5. CASE fault' = fault /\ stack # <<>> /\ (Returning \/ GoingOn \/ calls)
    <2> DEFINE r == Sockets!Front(stack)
    <2>1. /\ Len(stack) \in Nat /\ Len(stack) > 0 /\ DOMAIN stack = 1 .. Len(stack)
          /\ r \in Seq(Sockets!Frames) /\ Len(r) = Len(stack) - 1 /\ DOMAIN r = 1 .. (Len(stack) - 1)
          /\ \A k \in 1 .. (Len(stack) - 1) : r[k] = stack[k]
      BY <1>1, <1>5, Returned
    <2>2. fault' = Sockets!None /\ MaxDepth > 0
      BY <1>1, <1>5
    <2> HIDE DEF r
    <2>3. sound(r) /\ \A k \in DOMAIN r : r[k].fn = "Callback" => k < MaxDepth
      BY <1>1, <2>1
    <2>4. CASE Returning
      <3>1. stack' = r
        BY <2>4 DEF Returning, r
      <3> QED BY <2>1, <2>2, <2>3, <3>1
    <2>5. ASSUME NEW g, Sound(g), g.fn # "Callback"
          PROVE  /\ Append(r, g) \in Seq(Sockets!Frames) /\ sound(Append(r, g))
                 /\ \A k \in DOMAIN Append(r, g) : Append(r, g)[k].fn = "Callback" => k < MaxDepth
      <3>1. g \in Sockets!Frames /\ (g.fn = "CloseHard" => g.c \in Conn)
        BY <2>5 DEF Sound
      <3>2. /\ Append(r, g) \in Seq(Sockets!Frames) /\ DOMAIN Append(r, g) = 1 .. (Len(r) + 1) /\ Len(r) \in Nat
            /\ DOMAIN r = 1 .. Len(r)
            /\ \A k \in 1 .. Len(r) : Append(r, g)[k] = r[k]
            /\ Append(r, g)[Len(r) + 1] = g
        <4>1. r \in Seq(Sockets!Frames) /\ g \in Sockets!Frames
          BY <2>1, <3>1
        <4> QED BY <4>1, Pushed
      <3>3. \A k \in 1 .. (Len(r) + 1) : k \in 1 .. Len(r) \/ k = Len(r) + 1
        BY <3>2
      <3> QED BY <2>3, <2>5, <3>1, <3>2, <3>3
    <2>6. CASE GoingOn
      <3>1. PICK g : Sound(g) /\ g.fn # "Callback" /\ stack' = Append(r, g)
        BY <2>6 DEF GoingOn, r
      <3> QED BY <2>2, <2>5, <3>1
    <2>7. CASE calls
      <3>1. PICK g, f : /\ Sound(g) /\ g.fn # "Callback" /\ Sound(f)
                        /\ stack' = Append(Append(r, g), f)
        BY <2>7 DEF CallingFrom, r
      <3> DEFINE s == Append(r, g)
      <3>2. s \in Seq(Sockets!Frames) /\ sound(s) /\ \A k \in DOMAIN s : s[k].fn = "Callback" => k < MaxDepth
        BY <2>5, <3>1
      <3>3. f \in Sockets!Frames /\ (f.fn = "CloseHard" => f.c \in Conn) /\ stack' = Append(s, f)
        BY <3>1 DEF Sound
      <3> HIDE DEF s
      <3>4. /\ stack' \in Seq(Sockets!Frames) /\ DOMAIN stack' = 1 .. (Len(s) + 1) /\ Len(s) \in Nat
            /\ DOMAIN s = 1 .. Len(s) /\ Len(stack') = Len(s) + 1
            /\ \A k \in 1 .. Len(s) : stack'[k] = s[k]
            /\ stack'[Len(s) + 1] = f
        BY <3>2, <3>3, Pushed
      <3>5. \A k \in 1 .. (Len(s) + 1) : k \in 1 .. Len(s) \/ k = Len(s) + 1
        BY <3>4
      <3>6. sound(stack')
        BY <3>2, <3>3, <3>4, <3>5
      <3>7. room(stack')
        BY <3>2, <3>4, <3>5
      <3> QED BY <2>2, <3>4, <3>6, <3>7
    <2> QED BY <1>5, <2>4, <2>6, <2>7
  <1>6. CASE fault' = fault /\ Moving /\ ~Calling
    <2>1. "Callback" \in Sockets!Functions
      BY DEF Sockets!Functions
    <2>2. \A c \in Conn \union {Sockets!None} : Sound(Sockets!Frame("Callback", c))
      BY <2>1, FrameIs DEF Sound
    <2>3. stack # <<>> /\ (Returning \/ GoingOn \/ calls)
      BY <1>6, <2>1, <2>2 DEF Moving, InFunction, CallingOther, Entering, Leaving
    <2> QED BY <1>5, <1>6, <2>3
  <1> QED BY <1>3, <1>4, <1>6, StackMoves

-----------------------------------------------------------------------------
(***************************************************************************)
(* What a step does to the table, the closed connections and what is freed *)
(***************************************************************************)

\* A connection is closed: it was in the table.
Closing(c) == c \in Conn /\ state[c] # "Closed" /\ Sockets!ConnectionClosed(c) /\ UNCHANGED freed

\* Connections that are closed already may be given back.
GivingBack == UNCHANGED <<state, bucket>> /\ shut' \union freed' \subseteq shut \union freed

\* Every step does one of these.
LEMMA TableMoves ==
  ASSUME Sockets!SocketsAssumption, Sockets!SocketsInv, Sockets!Step
  PROVE  GivingBack \/ \E c \in Conn : Closing(c)
  <1>1. /\ Sockets!StackInv /\ bucket \in Seq(Conn)
        /\ \A i \in DOMAIN bucket : state[bucket[i]] # "Closed"
    BY DEF Sockets!SocketsInv, Sockets!TableInv
  <1>2. \A c \in Sockets!ToSet(bucket) : c \in Conn /\ state[c] # "Closed"
    BY <1>1 DEF Sockets!ToSet
  <1> USE DEF Sockets!objects
  <1>3. ASSUME NEW fn \in Sockets!Calls, Sockets!Program(fn) PROVE GivingBack
    BY <1>3 DEF Sockets!Program, GivingBack
  <1>4. CASE Sockets!ReturnFromCallback
    BY <1>4 DEF Sockets!ReturnFromCallback, Sockets!Free, GivingBack
  <1>5. CASE Sockets!CloseHardStart
    <2>1. Sockets!Top.c \in Conn
      BY <1>1, <1>5, TopIs DEF Sockets!CloseHardStart, Sockets!Running
    <2>2. GivingBack \/ Closing(Sockets!Top.c)
      BY <1>5, <2>1 DEF Sockets!CloseHardStart, Sockets!AlreadyClosed, Closing, GivingBack
    <2> QED BY <2>1, <2>2
  <1>6. CASE Sockets!CloseHardSent \/ Sockets!MapStart \/ Sockets!MapOne \/ Sockets!CloseSocketStart
             \/ Sockets!SocketErrorStart \/ Sockets!SocketErrorClosed \/ Sockets!ThinkReceived
    BY <1>6 DEF Sockets!CloseHardSent, Sockets!MapStart, Sockets!MapOne, Sockets!CloseSocketStart,
                Sockets!SocketErrorStart, Sockets!SocketErrorClosed, Sockets!ThinkReceived, GivingBack
  <1>7. CASE Sockets!CloseHardTold
    BY <1>7 DEF Sockets!CloseHardTold, Sockets!FreeSocketConnection, GivingBack
  <1>8. CASE Sockets!CloseSocketClosed \/ Sockets!SocketErrorTold
    BY <1>8 DEF Sockets!CloseSocketClosed, Sockets!SocketErrorTold, Sockets!DoCloseSocket, Sockets!Free, GivingBack
  <1>9. CASE Sockets!ThinkReceive
    BY <1>2, <1>9 DEF Sockets!ThinkReceive, GivingBack, Closing
  <1>10. CASE Sockets!ThinkConnection
    <2> DEFINE c == bucket[Sockets!Top.i]
    <2>1. CASE UNCHANGED Sockets!objects
      BY <2>1 DEF GivingBack
    <2>2. CASE Sockets!Top.i \in 1 .. Len(bucket) /\ Sockets!ConnectionClosed(c) /\ UNCHANGED freed
      <3>1. c \in Conn /\ state[c] # "Closed"
        BY <1>1, <2>2
      <3> QED BY <2>2, <3>1 DEF Closing
    <2> QED BY <1>10, <2>1, <2>2 DEF Sockets!ThinkConnection
  <1>11. CASE Sockets!ThinkTimedOut
    BY <1>11 DEF Sockets!ThinkTimedOut, Sockets!FreeSocketConnection, GivingBack
  <1>12. CASE Sockets!ThinkFree
    BY <1>12 DEF Sockets!ThinkFree, GivingBack
  <1>13. CASE Sockets!UseAfterFree
    BY <1>13 DEF Sockets!UseAfterFree, Sockets!Fault, GivingBack
  <1> QED BY <1>3, <1>4, <1>5, <1>6, <1>7, <1>8, <1>9, <1>10, <1>11, <1>12, <1>13 DEF Sockets!Step

\* The connection is out of the table, the others stay, and the table is one shorter.
LEMMA Closes ==
  ASSUME Sockets!TypeOK, Sockets!TableInv, NEW c \in Conn, Closing(c)
  PROVE  /\ bucket' \in Seq(Conn) /\ Len(bucket) \in Nat /\ Len(bucket') = Len(bucket) - 1
         /\ \A i, j \in DOMAIN bucket' : bucket'[i] = bucket'[j] => i = j
         /\ \A i \in DOMAIN bucket' : bucket'[i] # c /\ state[bucket'[i]] # "Closed"
         /\ state' = [state EXCEPT ![c] = "Closed"] /\ state \in [Conn -> {"Connecting", "Connected", "Closed"}]
         /\ shut' = shut \union {c} /\ freed' = freed
  <1>1. /\ bucket \in Seq(Conn)
        /\ \A i, j \in DOMAIN bucket : bucket[i] = bucket[j] => i = j
        /\ \A i \in DOMAIN bucket : state[bucket[i]] # "Closed"
    BY DEF Sockets!TableInv
  <1>2. PICK i \in DOMAIN bucket : bucket[i] = c /\ bucket' = Sockets!RemoveAt(bucket, i)
    BY DEF Closing, Sockets!ConnectionClosed
  <1>3. /\ bucket' \in Seq(Conn) /\ Len(bucket') = Len(bucket) - 1 /\ DOMAIN bucket' = 1 .. (Len(bucket) - 1)
        /\ \A k \in 1 .. (Len(bucket) - 1) : bucket'[k] = IF k < i THEN bucket[k] ELSE bucket[k + 1]
    BY <1>1, <1>2, TakenFrom
  <1>4. Len(bucket) \in Nat /\ DOMAIN bucket = 1 .. Len(bucket) /\ i \in 1 .. Len(bucket)
    BY <1>1
  <1> DEFINE old(k) == IF k < i THEN k ELSE k + 1
  <1>5. \A k \in DOMAIN bucket' : old(k) \in DOMAIN bucket /\ old(k) # i /\ bucket'[k] = bucket[old(k)]
    BY <1>3, <1>4
  <1>6. \A j, k \in DOMAIN bucket' : old(j) = old(k) => j = k
    BY <1>3, <1>4
  <1> HIDE DEF old
  <1>7. \A j, k \in DOMAIN bucket' : bucket'[j] = bucket'[k] => j = k
    BY <1>1, <1>5, <1>6
  <1>8. \A k \in DOMAIN bucket' : bucket'[k] # c /\ state[bucket'[k]] # "Closed"
    BY <1>1, <1>2, <1>5
  <1>9. /\ state' = [state EXCEPT ![c] = "Closed"] /\ shut' = shut \union {c} /\ freed' = freed
        /\ state \in [Conn -> {"Connecting", "Connected", "Closed"}]
    BY DEF Closing, Sockets!ConnectionClosed, Sockets!TypeOK
  <1> QED BY <1>3, <1>4, <1>7, <1>8, <1>9

\* The table stays as it must be, and so do the types of what closing and giving back change.
LEMMA TableKept ==
  ASSUME Sockets!SocketsAssumption, Sockets!SocketsInv, Sockets!Step
  PROVE  /\ Sockets!TableInv' /\ state' \in [Conn -> {"Connecting", "Connected", "Closed"}]
         /\ shut' \in SUBSET Conn /\ freed' \in SUBSET Conn
         /\ \A c \in Conn : state[c] = "Closed" => state'[c] = "Closed"
  <1>1. /\ Sockets!TypeOK /\ Sockets!TableInv
        /\ state \in [Conn -> {"Connecting", "Connected", "Closed"}] /\ shut \subseteq Conn /\ freed \subseteq Conn
        /\ \A c \in shut \union freed : state[c] = "Closed"
    BY DEF Sockets!SocketsInv, Sockets!TypeOK, Sockets!TableInv
  <1>2. CASE GivingBack
    BY <1>1, <1>2 DEF GivingBack, Sockets!TableInv
  <1>3. ASSUME NEW c \in Conn, Closing(c)
        PROVE  /\ Sockets!TableInv' /\ state' \in [Conn -> {"Connecting", "Connected", "Closed"}]
               /\ shut' \in SUBSET Conn /\ freed' \in SUBSET Conn
               /\ \A d \in Conn : state[d] = "Closed" => state'[d] = "Closed"
    <2>1. /\ bucket' \in Seq(Conn)
          /\ \A i, j \in DOMAIN bucket' : bucket'[i] = bucket'[j] => i = j
          /\ \A i \in DOMAIN bucket' : bucket'[i] # c /\ state[bucket'[i]] # "Closed"
          /\ state' = [state EXCEPT ![c] = "Closed"] /\ shut' = shut \union {c} /\ freed' = freed
      BY <1>1, <1>3, Closes
    <2>2. \A i \in DOMAIN bucket' : state'[bucket'[i]] # "Closed"
      <3>1. \A i \in DOMAIN bucket' : bucket'[i] \in Conn
        BY <2>1
      <3> QED BY <1>1, <2>1, <3>1
    <2>3. \A d \in shut' \union freed' : state'[d] = "Closed"
      BY <1>1, <2>1
    <2> QED BY <1>1, <2>1, <2>2, <2>3 DEF Sockets!TableInv
  <1> QED BY <1>2, <1>3, TableMoves

-----------------------------------------------------------------------------
(***************************************************************************)
(* The levels count the callbacks                                          *)
(***************************************************************************)

\* Gt2Sockets counts as this module does.
LEMMA SameCardinality == \A S : Sockets!Cardinality(S) = Cardinality(S)
  BY DEF Sockets!Cardinality, Cardinality

\* The count of a kind of callback follows the callbacks that start and end.
LEMMA CallbacksCounted ==
  ASSUME Sockets!StackInv, NEW T, \A f \in T : f \in Sockets!Frames /\ f.fn = "Callback"
  PROVE  /\ Calling => Count(stack', T) = Count(stack, T)
         /\ InFunction /\ (Returning \/ GoingOn \/ CallingOther) => Count(stack', T) = Count(stack, T)
         /\ \A c \in Conn \union {Sockets!None} : InFunction /\ CallingFrom("Callback", c) =>
              Count(stack', T) = Count(stack, T) + Bit(Sockets!Frame("Callback", c), T)
         /\ stack # <<>> /\ Returning => Count(stack', T) = Count(stack, T) - Bit(Sockets!Top, T)
  <1>1. stack \in Seq(Sockets!Frames)
    BY DEF Sockets!StackInv
  <1>2. \A f : f.fn # "Callback" => Bit(f, T) = 0
    BY DEF Bit
  <1>3. Count(stack, T) \in Nat /\ \A f : Bit(f, T) \in {0, 1}
    BY <1>1, Counted DEF Bit
  <1>4. ASSUME Calling PROVE Count(stack', T) = Count(stack, T)
    <2>1. PICK f : f \in Sockets!Frames /\ f.fn # "Callback" /\ stack' = Append(stack, f)
      BY <1>4 DEF Calling, Sound
    <2>2. Count(stack', T) = Count(stack, T) + Bit(f, T)
      BY <1>1, <2>1, CountPushed
    <2> QED BY <1>2, <1>3, <2>1, <2>2
  <1>5. ASSUME stack # <<>>, NEW g \in Sockets!Frames, NEW f \in Sockets!Frames
        PROVE  LET r == Sockets!Front(stack) IN
               /\ Count(stack, T) = Count(r, T) + Bit(Sockets!Top, T)
               /\ Count(Append(r, g), T) = Count(r, T) + Bit(g, T)
               /\ Count(Append(Append(r, g), f), T) = Count(r, T) + Bit(g, T) + Bit(f, T)
               /\ Count(r, T) \in Nat
    BY <1>1, <1>5, CountMoved DEF Sockets!Top
  <1>6. ASSUME stack # <<>>, Returning PROVE Count(stack', T) = Count(stack, T) - Bit(Sockets!Top, T)
    <2>1. Sockets!Top \in Sockets!Frames
      BY <1>6, TopIs
    <2> DEFINE r == Sockets!Front(stack)
    <2>2. Count(stack, T) = Count(r, T) + Bit(Sockets!Top, T) /\ Count(r, T) \in Nat
      BY <1>5, <1>6, <2>1
    <2>3. stack' = r
      BY <1>6 DEF Returning
    <2> HIDE DEF r
    <2> QED BY <1>3, <2>2, <2>3
  <1>7. ASSUME InFunction, GoingOn PROVE Count(stack', T) = Count(stack, T)
    <2> DEFINE r == Sockets!Front(stack)
    <2>1. PICK g \in Sockets!Frames : g.fn # "Callback" /\ stack' = Append(r, g)
      BY <1>7 DEF GoingOn, Sound
    <2>2. /\ Count(stack, T) = Count(r, T) + Bit(Sockets!Top, T) /\ Count(r, T) \in Nat
          /\ Count(Append(r, g), T) = Count(r, T) + Bit(g, T)
      BY <1>5, <1>7 DEF InFunction
    <2>3. Bit(Sockets!Top, T) = 0 /\ Bit(g, T) = 0
      BY <1>2, <1>7, <2>1 DEF InFunction
    <2> HIDE DEF r
    <2> QED BY <2>1, <2>2, <2>3
  <1>8. ASSUME InFunction, NEW fn, NEW c, Sockets!Frame(fn, c) \in Sockets!Frames, CallingFrom(fn, c)
        PROVE  Count(stack', T) = Count(stack, T) + Bit(Sockets!Frame(fn, c), T)
    <2> DEFINE r == Sockets!Front(stack)
               f == Sockets!Frame(fn, c)
    <2>1. PICK g \in Sockets!Frames : g.fn # "Callback" /\ stack' = Append(Append(r, g), f)
      BY <1>8 DEF CallingFrom, Sound
    <2>2. /\ Count(stack, T) = Count(r, T) + Bit(Sockets!Top, T) /\ Count(r, T) \in Nat
          /\ Count(Append(Append(r, g), f), T) = Count(r, T) + Bit(g, T) + Bit(f, T)
      <3>1. stack # <<>> /\ f \in Sockets!Frames
        BY <1>8 DEF InFunction
      <3> HIDE DEF f
      <3> QED BY <1>5, <3>1
    <2>3. Bit(Sockets!Top, T) = 0 /\ Bit(g, T) = 0
      BY <1>2, <1>8, <2>1 DEF InFunction
    <2>4. Bit(f, T) \in {0, 1}
      BY <1>3
    <2> HIDE DEF r, f
    <2>5. Count(stack', T) = Count(stack, T) + Bit(f, T)
      BY <2>1, <2>2, <2>3, <2>4
    <2> QED BY <2>5 DEF f
  <1>9. ASSUME InFunction, CallingOther PROVE Count(stack', T) = Count(stack, T)
    <2>1. PICK fn \in Sockets!Functions \ {"Callback"}, c \in Conn \union {Sockets!None} :
            Sound(Sockets!Frame(fn, c)) /\ CallingFrom(fn, c)
      BY <1>9 DEF CallingOther
    <2>2. Sockets!Frame(fn, c) \in Sockets!Frames /\ Sockets!Frame(fn, c).fn # "Callback"
      BY <2>1, FrameIs
    <2>3. Count(stack', T) = Count(stack, T) + Bit(Sockets!Frame(fn, c), T)
      BY <1>8, <1>9, <2>1, <2>2
    <2> QED BY <1>2, <1>3, <2>2, <2>3
  <1>10. ASSUME InFunction, Returning PROVE Count(stack', T) = Count(stack, T)
    BY <1>2, <1>3, <1>6, <1>10 DEF InFunction
  <1>11. \A c \in Conn \union {Sockets!None} : Sockets!Frame("Callback", c) \in Sockets!Frames
    BY FrameIs DEF Sockets!Functions
  <1> QED BY <1>4, <1>6, <1>7, <1>8, <1>9, <1>10, <1>11

\* What is given back, and when a close waits.
LEMMA FreeMoves ==
  ASSUME Sockets!SocketsAssumption, Sockets!SocketsInv, Sockets!Step, fault' = Sockets!None
  PROVE  /\ socket' # socket => level' = 0
         /\ level' = 0 \/ \A c \in freed' : c \in freed \/ clevel'[c] = 0
         /\ close' /\ socket' = "open" => level' > 0
         /\ close' \in BOOLEAN /\ socket' \in {"open", "freed"}
  <1> USE DEF Sockets!objects
  <1>1. /\ level \in Nat /\ close \in BOOLEAN /\ socket \in {"open", "freed"}
        /\ (close /\ socket = "open" /\ fault = Sockets!None => level > 0)
    BY DEF Sockets!SocketsInv, Sockets!TypeOK, Sockets!SocketsAssumption, Sockets!LevelInv
  <1>2. fault = Sockets!None \/ Sockets!UseAfterFree
    BY DEF Sockets!Step, Sockets!Program, Sockets!ReturnFromCallback, Sockets!CloseHardStart, Sockets!CloseHardSent,
       Sockets!CloseHardTold, Sockets!MapStart, Sockets!MapOne, Sockets!CloseSocketStart, Sockets!CloseSocketClosed,
       Sockets!SocketErrorStart, Sockets!SocketErrorClosed, Sockets!SocketErrorTold, Sockets!ThinkReceive,
       Sockets!ThinkReceived, Sockets!ThinkConnection, Sockets!ThinkTimedOut, Sockets!ThinkFree
  <1>3. ~Sockets!UseAfterFree
    BY DEF Sockets!UseAfterFree, Sockets!Fault, Sockets!None
  <1>4. fault = Sockets!None
    BY <1>2, <1>3
  <1>5. CASE UNCHANGED <<socket, close, level, freed>>
    BY <1>1, <1>4, <1>5
  <1>6. ASSUME NEW fn \in Sockets!Calls, Sockets!Program(fn) PROVE UNCHANGED <<socket, close, level, freed>>
    BY <1>6 DEF Sockets!Program
  <1>7. CASE Sockets!ReturnFromCallback
    <2>1. level' = level - 1 /\ close' = close
      BY <1>7 DEF Sockets!ReturnFromCallback
    <2>2. \/ level = 1 /\ socket' = "freed"
          \/ ~(close /\ level = 1) /\ UNCHANGED <<socket, freed>>
      BY <1>7 DEF Sockets!ReturnFromCallback, Sockets!CloseWaits, Sockets!Free
    <2> QED BY <1>1, <1>4, <2>1, <2>2
  <1>8. CASE Sockets!CloseHardStart \/ Sockets!MapStart \/ Sockets!MapOne \/ Sockets!CloseSocketStart
             \/ Sockets!SocketErrorStart \/ Sockets!ThinkReceived
    <2>1. UNCHANGED <<socket, close, level, freed>>
      BY <1>8 DEF Sockets!CloseHardStart, Sockets!MapStart, Sockets!MapOne, Sockets!CloseSocketStart,
                  Sockets!SocketErrorStart, Sockets!ThinkReceived
    <2> QED BY <1>5, <2>1
  <1>9. CASE Sockets!CloseHardSent \/ Sockets!SocketErrorClosed
    <2>1. UNCHANGED <<socket, close, freed>> /\ level' = level + 1
      BY <1>9 DEF Sockets!CloseHardSent, Sockets!SocketErrorClosed, Sockets!CallBack, Sockets!Enter
    <2> QED BY <1>1, <2>1
  <1>10. CASE Sockets!CloseHardTold \/ Sockets!ThinkTimedOut
    <2>1. /\ UNCHANGED <<socket, close, level, clevel>>
          /\ \/ UNCHANGED freed
             \/ \E c : Sockets!FreeSocketConnection(c)
      BY <1>10 DEF Sockets!CloseHardTold, Sockets!ThinkTimedOut
    <2>2. \A c \in freed' : c \in freed \/ clevel'[c] = 0
      BY <2>1 DEF Sockets!FreeSocketConnection, Sockets!MayFree
    <2> QED BY <1>1, <1>4, <2>1, <2>2
  <1>11. CASE Sockets!CloseSocketClosed \/ Sockets!SocketErrorTold
    <2>1. level' = level
      BY <1>11 DEF Sockets!CloseSocketClosed, Sockets!SocketErrorTold
    <2>2. \/ level > 0 /\ close' = TRUE /\ UNCHANGED <<socket, freed>>
          \/ ~(level > 0) /\ socket' = "freed" /\ close' = close
          \/ UNCHANGED <<socket, close, freed>>
      BY <1>11 DEF Sockets!CloseSocketClosed, Sockets!SocketErrorTold, Sockets!DoCloseSocket, Sockets!InCallback,
                   Sockets!Free
    <2>3. CASE level > 0 /\ close' = TRUE /\ UNCHANGED <<socket, freed>>
      BY <1>1, <2>1, <2>3
    <2>4. CASE ~(level > 0) /\ socket' = "freed" /\ close' = close
      BY <1>1, <2>1, <2>4
    <2>5. CASE UNCHANGED <<socket, close, freed>>
      BY <1>1, <1>4, <2>1, <2>5
    <2> QED BY <2>2, <2>3, <2>4, <2>5
  <1>12. CASE Sockets!ThinkReceive
    <2>1. UNCHANGED <<socket, close, freed>> /\ (level' = level \/ level' = level + 1)
      BY <1>12 DEF Sockets!ThinkReceive, Sockets!CallBack, Sockets!Enter
    <2> QED BY <1>1, <1>4, <2>1
  <1>13. CASE Sockets!ThinkConnection
    <2>1. UNCHANGED <<socket, close, freed>> /\ (level' = level \/ level' = level + 1)
      BY <1>13 DEF Sockets!ThinkConnection, Sockets!Enter
    <2> QED BY <1>1, <1>4, <2>1
  <1>14. CASE Sockets!ThinkFree
    <2>1. /\ UNCHANGED <<socket, close, level, clevel>>
          /\ \A c \in freed' : c \in freed \/ clevel'[c] = 0
      BY <1>14 DEF Sockets!ThinkFree, Sockets!MayFree
    <2> QED BY <1>1, <1>4, <2>1
  <1> QED BY <1>3, <1>5, <1>6, <1>7, <1>8, <1>9, <1>10, <1>11, <1>12, <1>13, <1>14 DEF Sockets!Step

\* Callbacks that call are as few as there is room for, and one more may run.
LEMMA FewCallbacks ==
  ASSUME Sockets!SocketsAssumption, NEW s \in Seq(Sockets!Frames), s # <<>> => MaxDepth > 0,
         \A k \in DOMAIN s : s[k].fn = "Callback" /\ k < Len(s) => k < MaxDepth,
         NEW T, \A f \in T : f \in Sockets!Frames /\ f.fn = "Callback"
  PROVE  Count(s, T) \in 0 .. MaxDepth
  <1>1. MaxDepth \in Nat
    BY DEF Sockets!SocketsAssumption
  <1>2. CASE s = <<>>
    BY <1>1, <1>2, CountEmpty
  <1>3. CASE s # <<>>
    <2> DEFINE P == Sockets!Places(s, T)
               Q == (1 .. (MaxDepth - 1)) \union {Len(s)}
    <2>1. P \in SUBSET Q
      <3>1. P \subseteq 1 .. Len(s) /\ Len(s) \in Nat /\ DOMAIN s = 1 .. Len(s)
        BY Counted
      <3>2. \A k \in P : s[k].fn = "Callback"
        BY DEF Sockets!Places
      <3> HIDE DEF P
      <3> SUFFICES ASSUME NEW k \in P PROVE k \in Q
        OBVIOUS
      <3>3. k \in Nat /\ k > 0 /\ k <= Len(s) /\ s[k].fn = "Callback" /\ k \in DOMAIN s
        BY <3>1, <3>2
      <3>4. CASE k < Len(s)
        BY <1>1, <3>3, <3>4
      <3>5. CASE k = Len(s)
        BY <3>5
      <3>6. k < Len(s) \/ k = Len(s)
        <4> DEFINE n == Len(s)
        <4>1. n \in Nat /\ k \in Nat /\ k <= n
          BY <3>1, <3>3
        <4> HIDE DEF n
        <4>2. k < n \/ k = n
          BY <4>1
        <4> QED BY <4>2 DEF n
      <3> QED BY <3>4, <3>5, <3>6
    <2>2. IsFiniteSet(1 .. (MaxDepth - 1)) /\ Cardinality(1 .. (MaxDepth - 1)) = MaxDepth - 1
      <3>1. 1 \in Int /\ MaxDepth - 1 \in Int
        BY <1>1
      <3>2. /\ IsFiniteSet(1 .. (MaxDepth - 1))
            /\ Cardinality(1 .. (MaxDepth - 1)) = IF 1 > MaxDepth - 1 THEN 0 ELSE MaxDepth - 1 - 1 + 1
        BY <3>1, FS_Interval
      <3> QED BY <1>1, <1>3, <3>2
    <2>3. /\ IsFiniteSet(Q)
          /\ Cardinality(Q) = IF Len(s) \in 1 .. (MaxDepth - 1) THEN MaxDepth - 1 ELSE MaxDepth - 1 + 1
      BY <2>2, FS_AddElement
    <2>4. Cardinality(Q) <= MaxDepth /\ Cardinality(Q) \in Nat
      <3> HIDE DEF Q
      <3> QED BY <1>1, <1>3, <2>3
    <2>5. Cardinality(P) <= Cardinality(Q)
      <3> HIDE DEF P, Q
      <3> QED BY <2>1, <2>3, FS_Subset
    <2>6. Cardinality(P) \in Nat
      BY Counted DEF Count
    <2> HIDE DEF P, Q
    <2>7. Cardinality(P) \in 0 .. MaxDepth
      BY <1>1, <2>4, <2>5, <2>6
    <2> QED BY <2>7 DEF P, Count
  <1> QED BY <1>2, <1>3

\* The kinds of callbacks.
LEMMA Kinds ==
  /\ \A f \in Sockets!Callbacks : f \in Sockets!Frames /\ f.fn = "Callback"
  /\ \A c : \A f \in Sockets!CallbacksOf(c) : f \in Sockets!Frames /\ f.fn = "Callback"
  /\ \A f \in Sockets!Frames : Bit(f, Sockets!Callbacks) = IF f.fn = "Callback" THEN 1 ELSE 0
  /\ \A f \in Sockets!Frames : \A c : Bit(f, Sockets!CallbacksOf(c)) = IF f.fn = "Callback" /\ f.c = c THEN 1 ELSE 0
  BY DEF Sockets!Callbacks, Sockets!CallbacksOf, Bit

\* The levels after a step.
LEMMA LevelsFollow ==
  ASSUME Sockets!SocketsAssumption, Sockets!SocketsInv, Moving, fault = Sockets!None
  PROVE  /\ level' = Count(stack', Sockets!Callbacks)
         /\ DOMAIN clevel' = Conn /\ \A c \in Conn : clevel'[c] = Count(stack', Sockets!CallbacksOf(c))
         /\ clevel' = [c \in Conn |-> clevel'[c]]
  <1> DEFINE all == Sockets!Callbacks
             of(c) == Sockets!CallbacksOf(c)
  <1>1. /\ Sockets!StackInv /\ level = Count(stack, all) /\ \A c \in Conn : clevel[c] = Count(stack, of(c))
        /\ clevel = [c \in Conn |-> clevel[c]]
    <2>1. /\ level = Sockets!Cardinality(Sockets!Places(stack, all))
          /\ \A c \in Conn : clevel[c] = Sockets!Cardinality(Sockets!Places(stack, of(c)))
      BY DEF Sockets!SocketsInv, Sockets!LevelInv
    <2>2. Sockets!StackInv /\ clevel = [c \in Conn |-> clevel[c]]
      BY DEF Sockets!SocketsInv, Sockets!TypeOK
    <2> QED BY <2>1, <2>2, SameCardinality DEF Count
  <1>2. /\ \A f \in all : f \in Sockets!Frames /\ f.fn = "Callback"
        /\ \A c \in Conn : \A f \in of(c) : f \in Sockets!Frames /\ f.fn = "Callback"
    BY Kinds
  <1>3. CASE Quiet /\ (Calling \/ (InFunction /\ (Returning \/ GoingOn \/ CallingOther)))
    <2>1. Count(stack', all) = Count(stack, all)
      <3> HIDE DEF all
      <3> QED BY <1>1, <1>2, <1>3, CallbacksCounted
    <2>2. ASSUME NEW c \in Conn PROVE Count(stack', of(c)) = Count(stack, of(c))
      <3> DEFINE T == of(c)
      <3>1. \A f \in T : f \in Sockets!Frames /\ f.fn = "Callback"
        BY <1>2
      <3> HIDE DEF T
      <3>2. Count(stack', T) = Count(stack, T)
        BY <1>1, <1>3, <3>1, CallbacksCounted
      <3> QED BY <3>2 DEF T
    <2> HIDE DEF all, of
    <2>3. level' = level /\ clevel' = clevel
      BY <1>3 DEF Quiet
    <2> QED BY <1>1, <2>1, <2>2, <2>3 DEF all, of
  <1>4. CASE Entering
    <2>1. PICK d \in Conn \union {Sockets!None} : Sockets!Enter(d) /\ CallingFrom("Callback", d)
      BY <1>4 DEF Entering
    <2> DEFINE g == Sockets!Frame("Callback", d)
    <2>2. g \in Sockets!Frames /\ g.fn = "Callback" /\ g.c = d
      BY FrameIs DEF Sockets!Functions
    <2>3. InFunction
      BY <1>4 DEF Entering
    <2>4. Count(stack', all) = Count(stack, all) + Bit(g, all)
      <3> HIDE DEF all
      <3> QED BY <1>1, <1>2, <2>1, <2>3, CallbacksCounted
    <2>5. ASSUME NEW c \in Conn PROVE Count(stack', of(c)) = Count(stack, of(c)) + Bit(g, of(c))
      <3> DEFINE T == of(c)
      <3>1. \A f \in T : f \in Sockets!Frames /\ f.fn = "Callback"
        BY <1>2
      <3> HIDE DEF T
      <3>2. Count(stack', T) = Count(stack, T) + Bit(g, T)
        BY <1>1, <2>1, <2>3, <3>1, CallbacksCounted
      <3> QED BY <3>2 DEF T
    <2>6. Bit(g, all) = 1 /\ \A c \in Conn : Bit(g, of(c)) = IF c = d THEN 1 ELSE 0
      <3> HIDE DEF g
      <3> QED BY <2>2, Kinds
    <2>7. /\ level' = level + 1
          /\ clevel' = [c \in Conn |-> IF c = d THEN clevel[c] + 1 ELSE clevel[c]]
      BY <2>1 DEF Sockets!Enter
    <2> HIDE DEF all, of, g
    <2>8. level' = Count(stack', all)
      BY <1>1, <2>4, <2>6, <2>7
    <2>9. \A c \in Conn : Count(stack, of(c)) \in Nat
      BY <1>1, Counted DEF Sockets!StackInv
    <2>10. ASSUME NEW c \in Conn PROVE clevel'[c] = Count(stack', of(c))
      <3>1. Count(stack', of(c)) = clevel[c] + (IF c = d THEN 1 ELSE 0)
        BY <1>1, <2>5, <2>6
      <3>2. clevel[c] \in Nat
        BY <1>1, <2>9
      <3> QED BY <2>7, <3>1, <3>2
    <2> QED BY <2>7, <2>8, <2>10 DEF all, of
  <1>5. CASE Leaving
    <2>1. stack # <<>> /\ Returning
      BY <1>5 DEF Leaving
    <2> DEFINE g == Sockets!Top
    <2>2. g \in Sockets!Frames /\ g.fn = "Callback"
      BY <1>1, <1>5, <2>1, TopIs DEF Leaving
    <2>3. Count(stack', all) = Count(stack, all) - Bit(g, all)
      <3> HIDE DEF all
      <3> QED BY <1>1, <1>2, <2>1, CallbacksCounted
    <2>4. ASSUME NEW c \in Conn PROVE Count(stack', of(c)) = Count(stack, of(c)) - Bit(g, of(c))
      <3> DEFINE T == of(c)
      <3>1. \A f \in T : f \in Sockets!Frames /\ f.fn = "Callback"
        BY <1>2
      <3> HIDE DEF T
      <3>2. Count(stack', T) = Count(stack, T) - Bit(g, T)
        BY <1>1, <2>1, <3>1, CallbacksCounted
      <3> QED BY <3>2 DEF T
    <2>5. Bit(g, all) = 1 /\ \A c \in Conn : Bit(g, of(c)) = IF c = g.c THEN 1 ELSE 0
      <3> HIDE DEF g
      <3> QED BY <2>2, Kinds
    <2>6. /\ level' = level - 1
          /\ clevel' = [c \in Conn |-> IF c = g.c THEN clevel[c] - 1 ELSE clevel[c]]
      BY <1>5 DEF Leaving
    <2> HIDE DEF all, of, g
    <2>7. level' = Count(stack', all)
      BY <1>1, <2>3, <2>5, <2>6
    <2>8. \A c \in Conn : Count(stack, of(c)) \in Nat
      BY <1>1, Counted DEF Sockets!StackInv
    <2>9. ASSUME NEW c \in Conn PROVE clevel'[c] = Count(stack', of(c))
      <3>1. Count(stack', of(c)) = clevel[c] - (IF c = g.c THEN 1 ELSE 0)
        BY <1>1, <2>4, <2>5
      <3>2. clevel[c] \in Nat
        BY <1>1, <2>8
      <3> QED BY <2>6, <3>1, <3>2
    <2> QED BY <2>6, <2>7, <2>9 DEF all, of
  <1> QED BY <1>3, <1>4, <1>5 DEF Moving

\* A step begins without a fault.
LEMMA NoFaultYet ==
  ASSUME Sockets!SocketsInv, Sockets!Step
  PROVE  fault = Sockets!None
  <1>1. fault # Sockets!None => stack = <<>>
    BY DEF Sockets!SocketsInv, Sockets!StackInv
  <1>2. stack = <<>> => \E fn \in Sockets!Calls : Sockets!Program(fn)
    BY DEF Sockets!Step, Sockets!ReturnFromCallback, Sockets!CloseHardStart, Sockets!CloseHardSent,
       Sockets!CloseHardTold, Sockets!MapStart, Sockets!MapOne, Sockets!CloseSocketStart, Sockets!CloseSocketClosed,
       Sockets!SocketErrorStart, Sockets!SocketErrorClosed, Sockets!SocketErrorTold, Sockets!ThinkReceive,
       Sockets!ThinkReceived, Sockets!ThinkConnection, Sockets!ThinkTimedOut, Sockets!ThinkFree,
       Sockets!UseAfterFree, Sockets!Running
  <1>3. ASSUME NEW fn \in Sockets!Calls, Sockets!Program(fn) PROVE fault = Sockets!None
    BY <1>3 DEF Sockets!Program
  <1> QED BY <1>1, <1>2, <1>3

\* A callback that runs after a step ran before it, or starts with it.
LEMMA CallbackThen ==
  ASSUME Sockets!StackInv, Moving, NEW k \in DOMAIN stack', stack'[k].fn = "Callback"
  PROVE  \/ k \in DOMAIN stack /\ stack'[k] = stack[k]
         \/ Entering /\ stack'[k].c \notin freed
  <1>1. stack \in Seq(Sockets!Frames)
    BY DEF Sockets!StackInv
  <1>2. CASE Calling
    <2>1. PICK f \in Sockets!Frames : f.fn # "Callback" /\ stack' = Append(stack, f)
      BY <1>2 DEF Calling, Sound
    <2> QED BY <1>1, <2>1, Pushed
  <1> DEFINE r == Sockets!Front(stack)
  <1>3. stack # <<>> => /\ r \in Seq(Sockets!Frames) /\ DOMAIN r = 1 .. (Len(stack) - 1) /\ Len(stack) \in Nat
                        /\ DOMAIN stack = 1 .. Len(stack) /\ Len(r) = Len(stack) - 1 /\ Len(stack) > 0
                        /\ \A j \in 1 .. (Len(stack) - 1) : r[j] = stack[j]
    <2>1. DOMAIN stack = 1 .. Len(stack)
      BY <1>1
    <2> HIDE DEF r
    <2> QED BY <1>1, <2>1, Returned DEF r
  <1>4. stack # <<>> => \A j \in DOMAIN r : j \in DOMAIN stack /\ r[j] = stack[j]
    <2> HIDE DEF r
    <2> QED BY <1>3
  <1>5. CASE stack # <<>> /\ Returning
    <2>1. stack' = r
      BY <1>5 DEF Returning
    <2> HIDE DEF r
    <2> QED BY <1>4, <1>5, <2>1
  <1>6. ASSUME stack # <<>>, NEW g \in Sockets!Frames, g.fn # "Callback",
               NEW j \in DOMAIN Append(r, g), Append(r, g)[j].fn = "Callback"
        PROVE  j \in DOMAIN r /\ Append(r, g)[j] = r[j]
    <2>1. r \in Seq(Sockets!Frames)
      BY <1>3, <1>6
    <2> HIDE DEF r
    <2> QED BY <1>6, <2>1, Pushed
  <1>7. CASE InFunction /\ GoingOn
    <2>1. PICK g \in Sockets!Frames : g.fn # "Callback" /\ stack' = Append(r, g)
      BY <1>7 DEF GoingOn, Sound
    <2>2. stack # <<>>
      BY <1>7 DEF InFunction
    <2> HIDE DEF r
    <2> QED BY <1>4, <1>6, <2>1, <2>2
  <1>8. ASSUME InFunction, NEW fn \in Sockets!Functions, NEW c \in Conn \union {Sockets!None}, CallingFrom(fn, c)
        PROVE  \/ k \in DOMAIN stack /\ stack'[k] = stack[k]
               \/ stack'[k] = Sockets!Frame(fn, c)
    <2>1. PICK g \in Sockets!Frames : g.fn # "Callback" /\ stack' = Append(Append(r, g), Sockets!Frame(fn, c))
      BY <1>8 DEF CallingFrom, Sound
    <2>2. stack # <<>> /\ r \in Seq(Sockets!Frames)
      BY <1>3, <1>8 DEF InFunction
    <2> HIDE DEF r
    <2> DEFINE s == Append(r, g)
               f == Sockets!Frame(fn, c)
    <2>3. s \in Seq(Sockets!Frames) /\ f \in Sockets!Frames
      BY <2>2, FrameIs
    <2> HIDE DEF s, f
    <2>4. /\ DOMAIN s = 1 .. Len(s) /\ DOMAIN Append(s, f) = 1 .. (Len(s) + 1) /\ Len(s) \in Nat
          /\ \A j \in 1 .. Len(s) : Append(s, f)[j] = s[j]
          /\ Append(s, f)[Len(s) + 1] = f
      BY <2>3, Pushed
    <2>5. k \in DOMAIN s \/ k = Len(s) + 1
      BY <2>1, <2>4 DEF s, f
    <2>6. CASE k = Len(s) + 1
      BY <2>1, <2>4, <2>6 DEF s, f
    <2>7. CASE k \in DOMAIN s
      <3>1. stack'[k] = s[k] /\ s[k].fn = "Callback"
        BY <2>1, <2>4, <2>7 DEF s, f
      <3>2. k \in DOMAIN r /\ s[k] = r[k]
        BY <1>6, <2>1, <2>2, <2>7, <3>1 DEF s
      <3> QED BY <1>4, <2>2, <3>1, <3>2
    <2> QED BY <2>5, <2>6, <2>7 DEF f
  <1>9. CASE InFunction /\ CallingOther
    <2>1. PICK fn \in Sockets!Functions \ {"Callback"}, c \in Conn \union {Sockets!None} : CallingFrom(fn, c)
      BY <1>9 DEF CallingOther
    <2>2. Sockets!Frame(fn, c).fn # "Callback"
      BY <2>1, FrameIs
    <2> QED BY <1>8, <1>9, <2>1, <2>2
  <1>10. CASE Entering
    <2>1. PICK c \in (Conn \union {Sockets!None}) \ freed : CallingFrom("Callback", c)
      BY <1>10 DEF Entering
    <2>2. "Callback" \in Sockets!Functions /\ InFunction
      BY <1>10 DEF Sockets!Functions, Entering
    <2>3. Sockets!Frame("Callback", c).c = c
      BY <2>2, FrameIs
    <2> QED BY <1>8, <1>10, <2>1, <2>2, <2>3
  <1> QED BY <1>2, <1>5, <1>7, <1>9, <1>10 DEF Moving, InFunction, Leaving

\* The levels stay the numbers of callbacks, a close that waits is done by the last of them, and what
\* they need stays.
LEMMA LevelsKept ==
  ASSUME Sockets!SocketsAssumption, Sockets!SocketsInv, Sockets!Step, Sockets!StackInv'
  PROVE  /\ Sockets!LevelInv'
         /\ level' \in 0 .. MaxDepth /\ clevel' \in [Conn -> 0 .. MaxDepth]
         /\ close' \in BOOLEAN /\ socket' \in {"open", "freed"}
  <1>1. /\ Sockets!TypeOK /\ Sockets!StackInv /\ Sockets!LevelInv /\ fault = Sockets!None
        /\ stack' \in Seq(Sockets!Frames) /\ (stack' # <<>> => MaxDepth > 0)
        /\ \A k \in DOMAIN stack' : stack'[k].fn = "Callback" /\ k < Len(stack') => k < MaxDepth
    BY NoFaultYet DEF Sockets!SocketsInv, Sockets!StackInv
  <1>2. CASE fault' # Sockets!None
    <2>1. /\ UNCHANGED <<level, clevel, close, socket>> /\ stack' = <<>>
      BY <1>1, <1>2, StackMoves DEF Sockets!objects
    <2>2. Sockets!KeptInCallback'
      BY <2>1 DEF Sockets!KeptInCallback
    <2> QED BY <1>1, <1>2, <2>1, <2>2 DEF Sockets!LevelInv, Sockets!TypeOK
  <1>3. CASE fault' = Sockets!None
    <2>1. Moving
      BY <1>3, StackMoves
    <2>2. /\ level' = Count(stack', Sockets!Callbacks)
          /\ \A c \in Conn : clevel'[c] = Count(stack', Sockets!CallbacksOf(c))
          /\ clevel' = [c \in Conn |-> clevel'[c]]
      BY <1>1, <2>1, LevelsFollow
    <2>3. ASSUME NEW T, \A f \in T : f \in Sockets!Frames /\ f.fn = "Callback"
          PROVE  Count(stack', T) \in 0 .. MaxDepth
      BY <1>1, <2>3, FewCallbacks
    <2>4. level' \in 0 .. MaxDepth /\ clevel' \in [Conn -> 0 .. MaxDepth]
      <3>1. level' \in 0 .. MaxDepth
        BY <2>2, <2>3, Kinds
      <3>2. ASSUME NEW c \in Conn PROVE clevel'[c] \in 0 .. MaxDepth
        <4> DEFINE T == Sockets!CallbacksOf(c)
        <4>1. \A f \in T : f \in Sockets!Frames /\ f.fn = "Callback"
          BY Kinds
        <4> HIDE DEF T
        <4>2. Count(stack', T) \in 0 .. MaxDepth
          BY <2>3, <4>1
        <4> QED BY <2>2, <4>2 DEF T
      <3> QED BY <2>2, <3>1, <3>2
    <2>5. /\ socket' # socket => level' = 0
          /\ level' = 0 \/ \A c \in freed' : c \in freed \/ clevel'[c] = 0
          /\ close' /\ socket' = "open" => level' > 0
          /\ close' \in BOOLEAN /\ socket' \in {"open", "freed"}
      BY <1>3, FreeMoves
    <2>6. freed' \in SUBSET Conn
      BY TableKept
    <2>7. ASSUME NEW k \in DOMAIN stack', stack'[k].fn = "Callback"
          PROVE  socket' = "open" /\ stack'[k].c \notin freed'
      <3> DEFINE f == stack'[k]
      <3>1. f \in Sockets!Frames /\ k \in 1 .. Len(stack')
        BY <1>1
      <3>2. level' # 0
        <4>1. f \in Sockets!Callbacks
          BY <2>7, <3>1 DEF Sockets!Callbacks
        <4> QED BY <1>1, <2>2, <3>1, <4>1, Counted
      <3>3. ASSUME NEW c \in Conn, f.c = c PROVE clevel'[c] # 0
        <4>1. f \in Sockets!CallbacksOf(c)
          BY <2>7, <3>1, <3>3 DEF Sockets!Callbacks, Sockets!CallbacksOf
        <4> QED BY <1>1, <2>2, <3>1, <4>1, Counted
      <3>4. socket = "open" /\ f.c \notin freed
        <4>1. CASE k \in DOMAIN stack /\ f = stack[k]
          BY <1>1, <2>7, <4>1 DEF Sockets!LevelInv, Sockets!KeptInCallback
        <4>2. CASE Entering /\ f.c \notin freed
          BY <4>2 DEF Entering
        <4> QED BY <1>1, <2>1, <2>7, <4>1, <4>2, CallbackThen
      <3> HIDE DEF f
      <3>5. f.c \notin freed'
        BY <2>5, <2>6, <3>2, <3>3, <3>4
      <3> QED BY <2>5, <3>2, <3>4, <3>5 DEF f
    <2>8. Sockets!KeptInCallback'
      BY <2>7 DEF Sockets!KeptInCallback
    <2>9. /\ level' = Sockets!Cardinality(Sockets!Places(stack', Sockets!Callbacks))
          /\ \A c \in Conn : clevel'[c] = Sockets!Cardinality(Sockets!Places(stack', Sockets!CallbacksOf(c)))
      BY <2>2, SameCardinality DEF Count
    <2> QED BY <2>4, <2>5, <2>8, <2>9 DEF Sockets!LevelInv, Sockets!Callbacks, Sockets!CallbacksOf, Sockets!Frames
  <1> QED BY <1>2, <1>3

-----------------------------------------------------------------------------
(***************************************************************************)
(* Who closes a connection tells it                                        *)
(***************************************************************************)

\* No frame is put on the stack that is about to tell the connection of its end.
NoSending(c) ==
  LET others == Sockets!Frames \ Sockets!Sending(c)
      below == Sockets!Front(stack)
  IN \/ \E f \in others : stack' = Append(stack, f)
     \/ stack # <<>> /\ stack' = below
     \/ stack # <<>> /\ \E g \in others : stack' = Append(below, g)
     \/ stack # <<>> /\ \E g, f \in others : stack' = Append(Append(below, g), f)
     \/ stack' = <<>>

\* Then there are no more of them.
LEMMA SendsNoMore ==
  ASSUME Sockets!StackInv, NEW c, NoSending(c)
  PROVE  Count(stack', Sockets!Sending(c)) <= Count(stack, Sockets!Sending(c))
  <1> DEFINE T == Sockets!Sending(c)
             r == Sockets!Front(stack)
             others == Sockets!Frames \ T
  <1>1. stack \in Seq(Sockets!Frames)
    BY DEF Sockets!StackInv
  <1>2. \/ \E f \in others : stack' = Append(stack, f)
        \/ stack # <<>> /\ stack' = r
        \/ stack # <<>> /\ \E g \in others : stack' = Append(r, g)
        \/ stack # <<>> /\ \E g, f \in others : stack' = Append(Append(r, g), f)
        \/ stack' = <<>>
    BY DEF NoSending
  <1> HIDE DEF T
  <1>3. Count(stack, T) \in Nat /\ Bit(Sockets!Top, T) \in {0, 1} /\ \A f \in others : Bit(f, T) = 0 /\ f \in Sockets!Frames
    BY <1>1, Counted DEF Bit
  <1>4. CASE \E f \in others : stack' = Append(stack, f)
    <2>1. PICK f \in others : stack' = Append(stack, f)
      BY <1>4
    <2>2. Count(Append(stack, f), T) = Count(stack, T) + Bit(f, T)
      BY <1>1, <1>3, CountPushed
    <2>3. Bit(f, T) = 0
      BY <1>3
    <2> HIDE DEF others
    <2> QED BY <1>3, <2>1, <2>2, <2>3 DEF T
  <1>5. ASSUME stack # <<>>, NEW g \in Sockets!Frames, NEW f \in Sockets!Frames
        PROVE  /\ Count(stack, T) = Count(r, T) + Bit(Sockets!Top, T)
               /\ Count(Append(r, g), T) = Count(r, T) + Bit(g, T)
               /\ Count(Append(Append(r, g), f), T) = Count(r, T) + Bit(g, T) + Bit(f, T)
               /\ Count(r, T) \in Nat
    BY <1>1, <1>5, CountMoved DEF Sockets!Top
  <1>6. CASE stack # <<>> /\ stack' = r
    <2>1. Sockets!Top \in Sockets!Frames
      BY <1>6, TopIs
    <2>2. Count(stack, T) = Count(r, T) + Bit(Sockets!Top, T) /\ Count(r, T) \in Nat
      BY <1>5, <1>6, <2>1
    <2> HIDE DEF r
    <2>3. Count(r, T) <= Count(stack, T)
      BY <1>3, <2>2
    <2> QED BY <1>6, <2>3 DEF T
  <1>7. CASE stack # <<>> /\ \E g \in others : stack' = Append(r, g)
    <2>1. PICK g \in others : stack' = Append(r, g)
      BY <1>7
    <2>2. /\ Count(stack, T) = Count(r, T) + Bit(Sockets!Top, T) /\ Count(r, T) \in Nat
          /\ Count(Append(r, g), T) = Count(r, T) + Bit(g, T)
      BY <1>3, <1>5, <1>7
    <2>3. Bit(g, T) = 0
      BY <1>3
    <2> HIDE DEF r, others
    <2>4. Count(Append(r, g), T) <= Count(stack, T)
      BY <1>3, <2>2, <2>3
    <2> QED BY <2>1, <2>4 DEF T
  <1>8. CASE stack # <<>> /\ \E g, f \in others : stack' = Append(Append(r, g), f)
    <2>1. PICK g \in others, f \in others : stack' = Append(Append(r, g), f)
      BY <1>8
    <2>2. /\ Count(stack, T) = Count(r, T) + Bit(Sockets!Top, T) /\ Count(r, T) \in Nat
          /\ Count(Append(Append(r, g), f), T) = Count(r, T) + Bit(g, T) + Bit(f, T)
      BY <1>3, <1>5, <1>8
    <2>3. Bit(g, T) = 0 /\ Bit(f, T) = 0
      BY <1>3
    <2> HIDE DEF r, others
    <2>4. Count(Append(Append(r, g), f), T) <= Count(stack, T)
      BY <1>3, <2>2, <2>3
    <2> QED BY <2>1, <2>4 DEF T
  <1>9. CASE stack' = <<>>
    BY <1>3, <1>9, CountEmpty DEF T
  <1> QED BY <1>2, <1>4, <1>6, <1>7, <1>8, <1>9

\* A frame that starts, or goes on elsewhere than where it tells, is not about to tell.
LEMMA SentNot ==
  ASSUME Sockets!StackInv, NEW c
  PROVE  /\ \A fn \in Sockets!Functions, d \in Conn \union {Sockets!None} :
              Sockets!Frame(fn, d) \in Sockets!Frames \ Sockets!Sending(c)
         /\ stack # <<>> => \A pc \in Sockets!Points \ {"sent"}, i \in Int :
              /\ Sockets!Goto(pc, i) \in Sockets!Frames \ Sockets!Sending(c)
              /\ Sockets!Continue(pc, i) => NoSending(c)
              /\ \A d \in Conn \union {Sockets!None} :
                   /\ [Sockets!Goto(pc, i) EXCEPT !.c = d] \in Sockets!Frames \ Sockets!Sending(c)
                   /\ \A fn \in Sockets!Functions : Sockets!Call(pc, fn, d) => NoSending(c)
  <1>1. ASSUME NEW fn \in Sockets!Functions, NEW d \in Conn \union {Sockets!None}
        PROVE  Sockets!Frame(fn, d) \in Sockets!Frames \ Sockets!Sending(c)
    BY FrameIs DEF Sockets!Sending
  <1>2. ASSUME stack # <<>>, NEW pc \in Sockets!Points \ {"sent"}, NEW i \in Int
        PROVE  Sockets!Goto(pc, i) \in Sockets!Frames \ Sockets!Sending(c)
    BY <1>2, TopIs DEF Sockets!Sending
  <1>3. ASSUME stack # <<>>, NEW pc \in Sockets!Points \ {"sent"}, NEW i \in Int, NEW d \in Conn \union {Sockets!None}
        PROVE  [Sockets!Goto(pc, i) EXCEPT !.c = d] \in Sockets!Frames \ Sockets!Sending(c)
    <2> DEFINE g == Sockets!Goto(pc, i)
    <2>1. g \in Sockets!Frames /\ g.pc = pc
      BY <1>3, TopIs
    <2> HIDE DEF g
    <2>2. [g EXCEPT !.c = d] \in Sockets!Frames /\ [g EXCEPT !.c = d].pc = pc
      BY <2>1 DEF Sockets!Frames
    <2> QED BY <2>2 DEF g, Sockets!Sending
  <1>4. ASSUME stack # <<>>, NEW pc \in Sockets!Points \ {"sent"}, NEW i \in Int, Sockets!Continue(pc, i)
        PROVE  NoSending(c)
    BY <1>2, <1>4 DEF NoSending, Sockets!Continue
  <1>5. ASSUME stack # <<>>, NEW pc \in Sockets!Points \ {"sent"}, NEW fn \in Sockets!Functions,
               NEW d \in Conn \union {Sockets!None}, Sockets!Call(pc, fn, d)
        PROVE  NoSending(c)
    <2>1. Sockets!Top.i \in Int
      BY <1>5, TopIs
    <2> QED BY <1>1, <1>2, <1>5, <2>1 DEF NoSending, Sockets!Call
  <1> QED BY <1>1, <1>2, <1>3, <1>4, <1>5

\* A connection is told.
Tells(c) == told' = [told EXCEPT ![c] = @ + 1]

\* Every step does one of these.
LEMMA ToldMoves ==
  ASSUME Sockets!SocketsAssumption, Sockets!SocketsInv, Sockets!Step
  PROVE  \/ told' = told /\ \A c \in Conn : NoSending(c)
         \/ \E d \in Conn : Closing(d) /\ Tells(d) /\ \A c \in Conn : NoSending(c)
         \/ Sockets!CloseHardSent
         \/ Sockets!CloseHardStart /\ Closing(Sockets!Top.c) /\ told' = told
  <1> DEFINE same == told' = told /\ \A c \in Conn : NoSending(c)
  <1> USE DEF Sockets!objects
  <1>1. /\ Sockets!StackInv /\ bucket \in Seq(Conn) /\ \A i \in DOMAIN bucket : state[bucket[i]] # "Closed"
    BY DEF Sockets!SocketsInv, Sockets!TableInv
  <1>2. \A c \in Sockets!ToSet(bucket) : c \in Conn /\ state[c] # "Closed"
    BY <1>1 DEF Sockets!ToSet
  <1>3. stack # <<>> => Sockets!Top.i \in Int /\ Sockets!Top.c \in Conn \union {Sockets!None}
    BY <1>1, TopIs
  <1>4. /\ {"start", "told", "map", "closed", "received", "connections", "timedOut", "free"} = Sockets!Points \ {"sent"}
        /\ {"Callback", "CloseAll", "SocketError", "CloseHard", "Think", "CloseSocket"} \subseteq Sockets!Functions
    BY DEF Sockets!Points, Sockets!Functions, Sockets!Calls
  <1>4a. ASSUME stack # <<>>, NEW i \in Int, NEW pc \in Sockets!Points \ {"sent"}
         PROVE  Sockets!Continue(pc, i) => \A c \in Conn : NoSending(c)
    BY <1>1, <1>4a, SentNot
  <1>5. ASSUME NEW fn \in Sockets!Calls, Sockets!Program(fn) PROVE same
    <2>1. \E f : f \in {Sockets!Frame("CloseHard", d) : d \in Conn} \union
                        {Sockets!Frame(name, Sockets!None) : name \in {"Think", "CloseSocket"}}
                 /\ stack' = Append(stack, f)
      BY <1>5 DEF Sockets!Program
    <2>2. told' = told
      BY <1>5 DEF Sockets!Program
    <2>3. ASSUME NEW c \in Conn PROVE NoSending(c)
      <3>1. /\ \A d \in Conn : Sockets!Frame("CloseHard", d) \in Sockets!Frames \ Sockets!Sending(c)
            /\ \A name \in {"Think", "CloseSocket"} :
                 Sockets!Frame(name, Sockets!None) \in Sockets!Frames \ Sockets!Sending(c)
        BY <1>1, <1>4, SentNot
      <3> QED BY <2>1, <3>1 DEF NoSending
    <2> QED BY <2>2, <2>3
  <1>6. CASE Sockets!ReturnFromCallback \/ Sockets!CloseHardTold \/ Sockets!CloseSocketClosed
             \/ Sockets!SocketErrorTold \/ Sockets!ThinkFree
    BY <1>6 DEF Sockets!ReturnFromCallback, Sockets!CloseHardTold, Sockets!CloseSocketClosed, Sockets!SocketErrorTold,
                Sockets!ThinkFree, Sockets!Running, Sockets!Return, NoSending
  <1>7. CASE Sockets!CloseHardStart
    <2>1. Sockets!Top.c \in Conn /\ stack # <<>> /\ told' = told
      BY <1>1, <1>7, TopIs DEF Sockets!CloseHardStart, Sockets!Running
    <2>2. Closing(Sockets!Top.c) \/ Sockets!Return(TRUE)
      BY <1>7, <2>1 DEF Sockets!CloseHardStart, Sockets!AlreadyClosed, Closing
    <2>3. Sockets!Return(TRUE) => \A c \in Conn : NoSending(c)
      BY <2>1 DEF Sockets!Return, NoSending
    <2> QED BY <1>7, <2>1, <2>2, <2>3
  <1>8. CASE Sockets!MapStart
    <2>1. stack # <<>> /\ told' = told /\ Sockets!Continue("map", Len(bucket)) /\ Len(bucket) \in Int
      BY <1>1, <1>8 DEF Sockets!MapStart, Sockets!Running
    <2> QED BY <1>1, <1>4, <2>1, SentNot
  <1>9. CASE Sockets!MapOne
    <2>1. stack # <<>> /\ told' = told
      BY <1>9 DEF Sockets!MapOne, Sockets!Running
    <2>2. CASE Sockets!Return(TRUE)
      BY <2>1, <2>2 DEF Sockets!Return, NoSending
    <2>3. CASE /\ Sockets!Top.i \in 1 .. Len(bucket)
               /\ stack' = Append(Append(Sockets!Front(stack), Sockets!Goto("map", Sockets!Top.i - 1)),
                                  Sockets!Frame("CloseHard", bucket[Sockets!Top.i]))
      <3>1. bucket[Sockets!Top.i] \in Conn /\ Sockets!Top.i - 1 \in Int
        BY <1>1, <1>3, <2>1, <2>3
      <3>2. \A c \in Conn : /\ Sockets!Goto("map", Sockets!Top.i - 1) \in Sockets!Frames \ Sockets!Sending(c)
                            /\ Sockets!Frame("CloseHard", bucket[Sockets!Top.i]) \in Sockets!Frames \ Sockets!Sending(c)
        BY <1>1, <1>4, <2>1, <3>1, SentNot
      <3> QED BY <2>1, <2>3, <3>2 DEF NoSending
    <2> QED BY <1>9, <2>2, <2>3 DEF Sockets!MapOne
  <1>10. CASE Sockets!CloseSocketStart \/ Sockets!SocketErrorStart
    <2>1. stack # <<>> /\ told' = told /\ Sockets!Call("closed", "CloseAll", Sockets!None)
      BY <1>10 DEF Sockets!CloseSocketStart, Sockets!SocketErrorStart, Sockets!Running
    <2>2. 0 \in Int /\ Sockets!None \in Conn \union {Sockets!None}
      OBVIOUS
    <2> QED BY <1>1, <1>4, <2>1, <2>2, SentNot
  <1>11. CASE Sockets!SocketErrorClosed
    <2>1. stack # <<>> /\ told' = told /\ Sockets!Call("told", "Callback", Sockets!None)
      BY <1>11 DEF Sockets!SocketErrorClosed, Sockets!Running, Sockets!CallBack
    <2>2. 0 \in Int /\ Sockets!None \in Conn \union {Sockets!None}
      OBVIOUS
    <2> QED BY <1>1, <1>4, <2>1, <2>2, SentNot
  <1>12. CASE Sockets!ThinkReceive
    <2>1. stack # <<>> /\ Len(bucket) \in Int /\ 0 \in Int
      BY <1>1, <1>12 DEF Sockets!ThinkReceive, Sockets!Running
    <2>2. \/ told' = told /\ Sockets!Continue("connections", Len(bucket))
          \/ told' = told /\ \E d \in Sockets!ToSet(bucket) : Sockets!Call("received", "Callback", d)
          \/ \E d \in Sockets!ToSet(bucket) :
               /\ Sockets!ConnectionClosed(d) /\ UNCHANGED freed /\ Tells(d) /\ Sockets!Call("received", "Callback", d)
      BY <1>12 DEF Sockets!ThinkReceive, Sockets!CallBack, Sockets!Told, Tells
    <2>3. \A d \in Sockets!ToSet(bucket) : Sockets!Call("received", "Callback", d) => \A c \in Conn : NoSending(c)
      BY <1>1, <1>2, <1>4, <2>1, SentNot
    <2>4. Sockets!Continue("connections", Len(bucket)) => \A c \in Conn : NoSending(c)
      <3>1. "connections" \in Sockets!Points \ {"sent"}
        BY <1>4
      <3> QED BY <1>4a, <2>1, <3>1
    <2> QED BY <1>2, <2>2, <2>3, <2>4 DEF Closing
  <1>13. CASE Sockets!ThinkReceived
    <2>1. stack # <<>> /\ told' = told /\ (Sockets!Return(FALSE) \/ Sockets!Continue("start", 0))
      BY <1>13 DEF Sockets!ThinkReceived, Sockets!Running
    <2>2. Sockets!Return(FALSE) => \A c \in Conn : NoSending(c)
      BY <2>1 DEF Sockets!Return, NoSending
    <2>3. Sockets!Continue("start", 0) => \A c \in Conn : NoSending(c)
      <3>1. "start" \in Sockets!Points \ {"sent"} /\ 0 \in Int
        BY <1>4
      <3> QED BY <1>4a, <2>1, <3>1
    <2> QED BY <2>1, <2>2, <2>3
  <1>14. CASE Sockets!ThinkConnection
    <2> DEFINE d == bucket[Sockets!Top.i]
               g == [Sockets!Goto("timedOut", Sockets!Top.i) EXCEPT !.c = d]
               f == Sockets!Frame("Callback", d)
               timesOut == /\ Sockets!Top.i \in 1 .. Len(bucket) /\ Sockets!ConnectionClosed(d) /\ Tells(d)
                           /\ UNCHANGED freed /\ stack' = Append(Append(Sockets!Front(stack), g), f)
    <2>1. stack # <<>> /\ Sockets!Top.i \in Int /\ Sockets!Top.i - 1 \in Int /\ 0 \in Int
      BY <1>3, <1>14 DEF Sockets!ThinkConnection, Sockets!Running
    <2>2. \/ told' = told /\ (Sockets!Continue("free", 0) \/ Sockets!Continue("connections", Sockets!Top.i - 1))
          \/ timesOut
      BY <1>14 DEF Sockets!ThinkConnection, Sockets!Told, Tells
    <2>3. CASE told' = told /\ (Sockets!Continue("free", 0) \/ Sockets!Continue("connections", Sockets!Top.i - 1))
      BY <1>1, <1>4, <2>1, <2>3, SentNot
    <2>4. CASE timesOut
      <3>1. d \in Conn /\ state[d] # "Closed"
        BY <1>1, <2>4
      <3>2. Closing(d) /\ Tells(d) /\ stack' = Append(Append(Sockets!Front(stack), g), f)
        BY <2>4, <3>1 DEF Closing
      <3> HIDE DEF d
      <3>3. \A c \in Conn : g \in Sockets!Frames \ Sockets!Sending(c) /\ f \in Sockets!Frames \ Sockets!Sending(c)
        BY <1>1, <1>4, <2>1, <3>1, SentNot
      <3> HIDE DEF g, f
      <3> QED BY <2>1, <3>1, <3>2, <3>3 DEF NoSending
    <2> HIDE DEF timesOut
    <2> QED BY <2>2, <2>3, <2>4
  <1>15. CASE Sockets!ThinkTimedOut
    <2> DEFINE g == [Sockets!Goto("connections", Sockets!Top.i - 1) EXCEPT !.c = Sockets!None]
    <2>1. stack # <<>> /\ told' = told /\ (Sockets!Return(FALSE) \/ stack' = Append(Sockets!Front(stack), g))
      BY <1>15 DEF Sockets!ThinkTimedOut, Sockets!Running
    <2>2. \A c \in Conn : g \in Sockets!Frames \ Sockets!Sending(c)
      <3>1. Sockets!Top.i - 1 \in Int /\ Sockets!None \in Conn \union {Sockets!None}
        BY <1>3, <2>1
      <3> QED BY <1>1, <1>4, <2>1, <3>1, SentNot
    <2> HIDE DEF g
    <2> QED BY <2>1, <2>2 DEF Sockets!Return, NoSending
  <1>16. CASE Sockets!UseAfterFree
    BY <1>16 DEF Sockets!UseAfterFree, Sockets!Fault, NoSending
  <1> QED
    BY <1>5, <1>6, <1>7, <1>8, <1>9, <1>10, <1>11, <1>12, <1>13, <1>14, <1>15, <1>16 DEF Sockets!Step

\* The one that closes it is about to tell it; what it tells it, it is no longer about to tell.
LEMMA SentOnce ==
  ASSUME Sockets!SocketsAssumption, Sockets!SocketsInv
  PROVE  /\ Sockets!CloseHardSent =>
              /\ Tells(Sockets!Top.c) /\ Sockets!Top.c \in Conn /\ \A c \in Conn : NoSending(c)
              /\ Count(stack', Sockets!Sending(Sockets!Top.c)) + 1 = Count(stack, Sockets!Sending(Sockets!Top.c))
         /\ Sockets!CloseHardStart /\ Closing(Sockets!Top.c) =>
              /\ \A c \in Conn : c # Sockets!Top.c => NoSending(c)
              /\ Count(stack', Sockets!Sending(Sockets!Top.c)) <= Count(stack, Sockets!Sending(Sockets!Top.c)) + 1
  <1> DEFINE t == Sockets!Top
             T == Sockets!Sending(t.c)
             r == Sockets!Front(stack)
  <1>1. Sockets!StackInv /\ stack \in Seq(Sockets!Frames)
    BY DEF Sockets!SocketsInv, Sockets!StackInv
  <1>2. /\ {"told"} \subseteq Sockets!Points \ {"sent"} /\ "sent" \in Sockets!Points
        /\ {"Callback", "SocketError"} \subseteq Sockets!Functions /\ 0 \in Int
    BY DEF Sockets!Points, Sockets!Functions
  <1>3. ASSUME stack # <<>>, NEW g \in Sockets!Frames, NEW f \in Sockets!Frames
        PROVE  /\ Count(stack, T) = Count(r, T) + Bit(t, T)
               /\ Count(Append(r, g), T) = Count(r, T) + Bit(g, T)
               /\ Count(Append(Append(r, g), f), T) = Count(r, T) + Bit(g, T) + Bit(f, T)
               /\ Count(r, T) \in Nat
    <2> HIDE DEF T
    <2> QED BY <1>1, <1>3, CountMoved DEF Sockets!Top
  <1>4. \A f : Bit(f, T) \in {0, 1}
    BY DEF Bit
  <1>5. ASSUME Sockets!CloseHardSent
        PROVE  /\ Tells(t.c) /\ t.c \in Conn /\ \A c \in Conn : NoSending(c)
               /\ Count(stack', T) + 1 = Count(stack, T)
    <2> DEFINE g == Sockets!Goto("told", t.i)
               f == Sockets!Frame("Callback", t.c)
    <2>1. /\ stack # <<>> /\ t.fn = "CloseHard" /\ t.pc = "sent" /\ Tells(t.c)
          /\ Sockets!Call("told", "Callback", t.c)
      BY <1>5 DEF Sockets!CloseHardSent, Sockets!Running, Sockets!CallBack, Sockets!Told, Tells
    <2>2. t \in Sockets!Frames /\ t.c \in Conn /\ t.i \in Int
      BY <1>1, <2>1, TopIs
    <2>3. \A c \in Conn : NoSending(c)
      BY <1>1, <1>2, <2>1, <2>2, SentNot
    <2>4. g \in Sockets!Frames \ T /\ f \in Sockets!Frames \ T
      BY <1>1, <1>2, <2>1, <2>2, SentNot
    <2>5. t \in T
      BY <2>1, <2>2 DEF Sockets!Sending
    <2>6. Bit(t, T) = 1 /\ Bit(g, T) = 0 /\ Bit(f, T) = 0
      BY <2>4, <2>5 DEF Bit
    <2>7. stack' = Append(Append(r, g), f)
      BY <2>1 DEF Sockets!Call
    <2> HIDE DEF g, f
    <2>8. /\ Count(stack, T) = Count(r, T) + Bit(t, T) /\ Count(r, T) \in Nat
          /\ Count(Append(Append(r, g), f), T) = Count(r, T) + Bit(g, T) + Bit(f, T)
      BY <1>3, <2>1, <2>4
    <2> HIDE DEF t, T, r
    <2>9. Count(stack', T) + 1 = Count(stack, T)
      BY <2>6, <2>7, <2>8
    <2> QED BY <2>1, <2>2, <2>3, <2>9
  <1>6. ASSUME Sockets!CloseHardStart, Closing(t.c)
        PROVE  /\ \A c \in Conn : c # t.c => NoSending(c)
               /\ Count(stack', T) <= Count(stack, T) + 1
    <2>1. /\ stack # <<>> /\ t.fn = "CloseHard" /\ state[t.c] # "Closed"
          /\ Sockets!Continue("sent", 0) \/ Sockets!Call("sent", "SocketError", Sockets!None)
      BY <1>6 DEF Sockets!CloseHardStart, Sockets!Running, Sockets!AlreadyClosed, Closing
    <2>2. t \in Sockets!Frames /\ t.i \in Int
      BY <1>1, <2>1, TopIs
    <2> DEFINE g(i) == Sockets!Goto("sent", i)
               f == Sockets!Frame("SocketError", Sockets!None)
    <2>3. \A i \in Int : g(i) \in Sockets!Frames /\ g(i).c = t.c
      BY <1>1, <1>2, <2>1, TopIs
    <2>4. \A c : f \in Sockets!Frames \ Sockets!Sending(c)
      BY <1>1, <1>2, SentNot
    <2>5. \A i \in Int : \A c \in Conn : c # t.c => g(i) \in Sockets!Frames \ Sockets!Sending(c)
      BY <2>3 DEF Sockets!Sending
    <2>6. \/ stack' = Append(r, g(0))
          \/ stack' = Append(Append(r, g(t.i)), f)
      BY <2>1 DEF Sockets!Continue, Sockets!Call
    <2>7. Bit(f, T) = 0
      BY <2>4 DEF Bit
    <2> HIDE DEF g, f
    <2>8. \A c \in Conn : c # t.c => NoSending(c)
      BY <1>2, <2>1, <2>2, <2>4, <2>5, <2>6 DEF NoSending
    <2>9. f \in Sockets!Frames
      BY <2>4
    <2>10. /\ Count(stack, T) = Count(r, T) + Bit(t, T) /\ Count(r, T) \in Nat
           /\ Count(Append(r, g(0)), T) = Count(r, T) + Bit(g(0), T)
      BY <1>2, <1>3, <2>1, <2>3, <2>9
    <2>11. Count(Append(Append(r, g(t.i)), f), T) = Count(r, T) + Bit(g(t.i), T) + Bit(f, T)
      BY <1>3, <2>1, <2>2, <2>3, <2>9
    <2>12. Bit(t, T) \in {0, 1} /\ Bit(g(0), T) \in {0, 1} /\ Bit(g(t.i), T) \in {0, 1}
      BY <1>4
    <2> HIDE DEF t, T, r
    <2>13. CASE stack' = Append(r, g(0))
      <3>1. Count(stack', T) = Count(r, T) + Bit(g(0), T)
        BY <2>10, <2>13
      <3> QED BY <2>8, <2>10, <2>12, <3>1
    <2>14. CASE stack' = Append(Append(r, g(t.i)), f)
      <3>1. Count(stack', T) = Count(r, T) + Bit(g(t.i), T)
        BY <2>7, <2>10, <2>11, <2>12, <2>14
      <3> QED BY <2>8, <2>10, <2>12, <3>1
    <2> QED BY <2>6, <2>13, <2>14
  <1> QED BY <1>5, <1>6

\* A connection is told at most once, and only of its end.
LEMMA ToldKept ==
  ASSUME Sockets!SocketsAssumption, Sockets!SocketsInv, Sockets!Step
  PROVE  told' \in [Conn -> Nat] /\ Sockets!ToldInv'
  <1> DEFINE n(c) == Count(stack, Sockets!Sending(c))
             m(c) == Count(stack', Sockets!Sending(c))
             bound(s) == IF s = "Closed" THEN 1 ELSE 0
  <1>1. Sockets!StackInv /\ stack \in Seq(Sockets!Frames) /\ told \in [Conn -> Nat]
    BY DEF Sockets!SocketsInv, Sockets!StackInv
  <1>2. \A c \in Conn : n(c) \in Nat /\ told[c] \in Nat /\ told[c] + n(c) <= bound(state[c])
    <2>1. \A c \in Conn :
            told[c] + Sockets!Cardinality(Sockets!Places(stack, Sockets!Sending(c))) <= bound(state[c])
      BY DEF Sockets!SocketsInv, Sockets!ToldInv
    <2>2. \A c \in Conn : n(c) \in Nat
      BY <1>1, Counted
    <2> QED BY <1>1, <2>1, <2>2, SameCardinality DEF Count
  <1>3. \A c \in Conn : bound(state[c]) <= bound(state'[c])
    BY TableKept
  <1>4. SUFFICES told' \in [Conn -> Nat] /\ \A c \in Conn : told'[c] + m(c) <= bound(state'[c])
    <2>1. \A S : Sockets!Cardinality(S) = Cardinality(S)
      BY SameCardinality
    <2>2. ASSUME NEW c \in Conn
          PROVE  Sockets!Cardinality(Sockets!Places(stack', Sockets!Sending(c))) = m(c)
      BY <2>1 DEF Count
    <2> HIDE DEF m
    <2> QED BY <1>4, <2>2 DEF Sockets!ToldInv, Sockets!Sending, Sockets!Frames
  <1>5. told' \in [Conn -> Nat]
    <2>1. told' = told \/ \E d \in Conn : Tells(d)
      BY ToldMoves, SentOnce
    <2>2. \A d \in Conn : Tells(d) => told' = [c \in Conn |-> IF c = d THEN told[c] + 1 ELSE told[c]]
      BY <1>1 DEF Tells
    <2> QED BY <1>1, <2>1, <2>2
  <1>6. stack' \in Seq(Sockets!Frames)
    BY <1>5, StackKept DEF Sockets!StackInv
  <1>7. ASSUME NEW c \in Conn, NoSending(c) PROVE m(c) <= n(c) /\ m(c) \in Nat
    BY <1>1, <1>7, <1>6, SendsNoMore, Counted
  <1> HIDE DEF n, m
  <1>8. CASE told' = told /\ \A c \in Conn : NoSending(c)
    <2> HIDE DEF bound
    <2>1. \A c \in Conn : bound(state[c]) \in Nat /\ bound(state'[c]) \in Nat
      BY DEF bound
    <2> QED BY <1>1, <1>2, <1>3, <1>7, <1>8, <2>1
  <1>9. ASSUME NEW d \in Conn, Closing(d), Tells(d), \A c \in Conn : NoSending(c)
        PROVE  told' \in [Conn -> Nat] /\ \A c \in Conn : told'[c] + m(c) <= bound(state'[c])
    <2>1. state[d] # "Closed" /\ state'[d] = "Closed"
      BY <1>9, Closes DEF Sockets!SocketsInv, Closing
    <2>2. told' = [c \in Conn |-> IF c = d THEN told[c] + 1 ELSE told[c]]
      BY <1>1, <1>9 DEF Tells
    <2>3. told' \in [Conn -> Nat]
      BY <1>1, <2>2
    <2>4. told'[d] + m(d) <= 1
      <3>1. told[d] + n(d) <= 0
        BY <1>2, <2>1
      <3> QED BY <1>2, <1>7, <1>9, <2>2, <3>1
    <2>5. ASSUME NEW c \in Conn, c # d PROVE told'[c] + m(c) <= bound(state'[c])
      <3>1. told'[c] = told[c]
        BY <2>2, <2>5
      <3>2. bound(state[c]) \in Nat /\ bound(state'[c]) \in Nat
        OBVIOUS
      <3> HIDE DEF bound
      <3> QED BY <1>2, <1>3, <1>7, <1>9, <3>1, <3>2
    <2> QED BY <2>1, <2>3, <2>4, <2>5
  <1>10. CASE Sockets!CloseHardSent
    <2> DEFINE d == Sockets!Top.c
    <2>1. Tells(d) /\ d \in Conn /\ m(d) + 1 = n(d) /\ \A c \in Conn : NoSending(c)
      BY <1>10, SentOnce DEF n, m
    <2> HIDE DEF d
    <2>2. told' = [c \in Conn |-> IF c = d THEN told[c] + 1 ELSE told[c]]
      BY <1>1, <2>1 DEF Tells
    <2>3. told' \in [Conn -> Nat]
      BY <1>1, <2>2
    <2>4. ASSUME NEW c \in Conn PROVE told'[c] + m(c) <= bound(state'[c])
      <3>1. told'[c] = IF c = d THEN told[c] + 1 ELSE told[c]
        BY <2>2
      <3>2. bound(state[c]) \in Nat /\ bound(state'[c]) \in Nat
        OBVIOUS
      <3> HIDE DEF bound
      <3> QED BY <1>2, <1>3, <1>7, <2>1, <3>1, <3>2
    <2> QED BY <2>3, <2>4
  <1>11. CASE Sockets!CloseHardStart /\ Closing(Sockets!Top.c) /\ told' = told
    <2> DEFINE d == Sockets!Top.c
    <2>1. d \in Conn /\ m(d) <= n(d) + 1 /\ \A c \in Conn : c # d => NoSending(c)
      BY <1>11, SentOnce DEF n, m, Closing
    <2>2. state[d] # "Closed" /\ state'[d] = "Closed"
      BY <1>11, Closes, <2>1 DEF Sockets!SocketsInv, Closing
    <2> HIDE DEF d
    <2>3. m(d) \in Int
      BY <1>6, Counted DEF m
    <2>4. told'[d] + m(d) <= bound(state'[d])
      <3>1. told[d] + n(d) <= 0
        BY <1>2, <2>1, <2>2
      <3> QED BY <1>2, <1>11, <2>1, <2>2, <2>3, <3>1
    <2>5. ASSUME NEW c \in Conn, c # d PROVE told'[c] + m(c) <= bound(state'[c])
      <3>1. bound(state[c]) \in Nat /\ bound(state'[c]) \in Nat
        OBVIOUS
      <3> HIDE DEF bound
      <3> QED BY <1>2, <1>3, <1>7, <1>11, <2>1, <2>5, <3>1
    <2> QED BY <1>1, <1>11, <2>4, <2>5
  <1> QED BY <1>8, <1>9, <1>10, <1>11, ToldMoves

-----------------------------------------------------------------------------
(***************************************************************************)
(* A program that closes only what it was called for                       *)
(***************************************************************************)

AllOwn == \A k \in DOMAIN stack : Sockets!Own(k)
OneConnection ==
  \A j, k \in DOMAIN stack :
    stack[j].c # Sockets!None /\ stack[k].c # Sockets!None => stack[j].c = stack[k].c

\* The place of every frame after a return, a step of the running frame and a call.
LEMMA FormOf ==
  ASSUME Sockets!StackInv, stack # <<>>
  PROVE  LET n == Len(stack)
             r == Sockets!Front(stack)
             below == \A k \in 1 .. (n - 1) : stack'[k] = stack[k]
         IN /\ n \in Nat /\ n > 0 /\ DOMAIN stack = 1 .. n /\ stack = Append(r, Sockets!Top)
            /\ Sockets!Top = stack[n] /\ Sockets!Top \in Sockets!Frames
            /\ stack' = r => Len(stack') = n - 1 /\ DOMAIN stack' = 1 .. (n - 1) /\ below
            /\ \A g \in Sockets!Frames : stack' = Append(r, g) =>
                 Len(stack') = n /\ DOMAIN stack' = 1 .. n /\ below /\ stack'[n] = g
            /\ \A g, f \in Sockets!Frames : stack' = Append(Append(r, g), f) =>
                 Len(stack') = n + 1 /\ DOMAIN stack' = 1 .. (n + 1) /\ below /\ stack'[n] = g /\ stack'[n + 1] = f
  <1> DEFINE n == Len(stack)
             r == Sockets!Front(stack)
  <1>1. stack \in Seq(Sockets!Frames)
    BY DEF Sockets!StackInv
  <1>2. /\ n \in Nat /\ n > 0 /\ DOMAIN stack = 1 .. n /\ Sockets!Top = stack[n]
        /\ Sockets!Top \in Sockets!Frames
    BY TopIs
  <1>3. /\ r \in Seq(Sockets!Frames) /\ Len(r) = n - 1 /\ DOMAIN r = 1 .. (n - 1)
        /\ (\A k \in 1 .. (n - 1) : r[k] = stack[k]) /\ stack = Append(r, stack[n])
    BY <1>1, Returned
  <1> HIDE DEF n, r
  <1>4. ASSUME NEW g \in Sockets!Frames
        PROVE  /\ Append(r, g) \in Seq(Sockets!Frames) /\ Len(Append(r, g)) = n /\ DOMAIN Append(r, g) = 1 .. n
               /\ \A k \in 1 .. (n - 1) : Append(r, g)[k] = stack[k]
               /\ Append(r, g)[n] = g
    <2>1. /\ Append(r, g) \in Seq(Sockets!Frames) /\ Len(Append(r, g)) = Len(r) + 1
          /\ DOMAIN Append(r, g) = 1 .. (Len(r) + 1)
          /\ \A k \in 1 .. Len(r) : Append(r, g)[k] = r[k]
          /\ Append(r, g)[Len(r) + 1] = g
      BY <1>3, Pushed
    <2>2. Len(r) + 1 = n
      BY <1>2, <1>3
    <2> QED BY <1>3, <2>1, <2>2
  <1>5. ASSUME NEW g \in Sockets!Frames, NEW f \in Sockets!Frames
        PROVE  LET s == Append(Append(r, g), f) IN
               /\ Len(s) = n + 1 /\ DOMAIN s = 1 .. (n + 1)
               /\ \A k \in 1 .. (n - 1) : s[k] = stack[k]
               /\ s[n] = g /\ s[n + 1] = f
    <2> DEFINE q == Append(r, g)
    <2>1. /\ q \in Seq(Sockets!Frames) /\ Len(q) = n /\ q[n] = g
          /\ \A k \in 1 .. (n - 1) : q[k] = stack[k]
      BY <1>4
    <2> HIDE DEF q
    <2>2. /\ Len(Append(q, f)) = n + 1 /\ DOMAIN Append(q, f) = 1 .. (n + 1)
          /\ \A k \in 1 .. n : Append(q, f)[k] = q[k]
          /\ Append(q, f)[n + 1] = f
      BY <2>1, Pushed
    <2>3. n \in 1 .. n /\ \A k \in 1 .. (n - 1) : k \in 1 .. n
      BY <1>2
    <2> QED BY <2>1, <2>2, <2>3 DEF q
  <1>6. stack = Append(r, Sockets!Top)
    BY <1>2, <1>3
  <1> DEFINE below == \A k \in 1 .. (n - 1) : stack'[k] = stack[k]
  <1>7. stack' = r => Len(stack') = n - 1 /\ DOMAIN stack' = 1 .. (n - 1) /\ below
    BY <1>3
  <1>8. \A g \in Sockets!Frames : stack' = Append(r, g) =>
          Len(stack') = n /\ DOMAIN stack' = 1 .. n /\ below /\ stack'[n] = g
    BY <1>4
  <1>9. \A g, f \in Sockets!Frames : stack' = Append(Append(r, g), f) =>
          Len(stack') = n + 1 /\ DOMAIN stack' = 1 .. (n + 1) /\ below /\ stack'[n] = g /\ stack'[n + 1] = f
    <2> SUFFICES ASSUME NEW g \in Sockets!Frames, NEW f \in Sockets!Frames, stack' = Append(Append(r, g), f)
                 PROVE  /\ Len(stack') = n + 1 /\ DOMAIN stack' = 1 .. (n + 1) /\ below
                        /\ stack'[n] = g /\ stack'[n + 1] = f
      OBVIOUS
    <2> DEFINE s == Append(Append(r, g), f)
    <2>1. /\ Len(s) = n + 1 /\ DOMAIN s = 1 .. (n + 1) /\ s[n] = g /\ s[n + 1] = f
          /\ \A k \in 1 .. (n - 1) : s[k] = stack[k]
      BY <1>5
    <2>2. stack' = s
      OBVIOUS
    <2> HIDE DEF s
    <2> QED BY <2>1, <2>2
  <1> HIDE DEF below
  <1>10. /\ n \in Nat /\ n > 0 /\ DOMAIN stack = 1 .. n /\ stack = Append(r, Sockets!Top)
         /\ Sockets!Top = stack[n] /\ Sockets!Top \in Sockets!Frames
    BY <1>2, <1>6
  <1> QED BY <1>7, <1>8, <1>9, <1>10 DEF n, r, below

\* What is closed meanwhile is not what a waiting frame counts on.
PassesOn(k) ==
  \/ UNCHANGED <<state, bucket>>
  \/ /\ stack[k].pc # "timedOut"
     /\ stack[k].pc = "map" => stack[k].i <= Len(bucket') /\ state'[stack[k + 1].c] = "Closed"

\* What holds of the frames that wait goes on to hold.
LEMMA BelowKept ==
  ASSUME Sockets!StackInv, stack # <<>>, AllOwn, NEW n, n = Len(stack),
         Len(stack') \in {n - 1, n, n + 1}, \A k \in 1 .. (n - 1) : stack'[k] = stack[k],
         Len(stack') # n - 1 => stack'[n].fn = stack[n].fn /\ (n > 1 => stack'[n].c = stack[n].c),
         \A c \in Conn : state[c] = "Closed" => state'[c] = "Closed",
         \A k \in 1 .. (n - 1) : stack[k].c \notin freed' /\ PassesOn(k)
  PROVE  \A k \in 1 .. (n - 1) : Sockets!Own(k)'
  <1>1. n \in Nat /\ n > 0 /\ DOMAIN stack = 1 .. n
    BY TopIs
  <1> SUFFICES ASSUME NEW k \in 1 .. (n - 1) PROVE Sockets!Own(k)'
    OBVIOUS
  <1> DEFINE f == stack[k]
  <1>2. k \in Nat /\ k > 0 /\ k < n /\ k \in 1 .. n /\ 1 \in 1 .. (n - 1) /\ Sockets!Own(k) /\ k # Len(stack)
    BY <1>1 DEF AllOwn
  <1>3. stack'[k] = stack[k] /\ stack'[1] = stack[1] /\ f.c \notin freed' /\ PassesOn(k)
    BY <1>2
  <1>4. k > 1 => stack'[k - 1] = stack[k - 1]
    <2>1. k > 1 => k - 1 \in 1 .. (n - 1)
      BY <1>1, <1>2
    <2> QED BY <2>1
  <1>5. k < Len(stack') => stack'[k + 1].fn = stack[k + 1].fn /\ stack'[k + 1].c = stack[k + 1].c
    <2>1. CASE k + 1 \in 1 .. (n - 1)
      BY <2>1
    <2>2. CASE k + 1 = n
      BY <1>1, <1>2, <2>2
    <2> QED BY <1>1, <1>2, <2>1, <2>2
  <1>6. k < Len(stack)
    BY <1>2
  <1>7. f.fn = "CloseHard" => f.c \in Conn
    BY <1>1, <1>2 DEF Sockets!StackInv
  <1> HIDE DEF f
  <1>8. /\ f.fn # "SocketError" /\ (f.fn \in {"Think", "CloseSocket"} => k = 1)
        /\ f.fn \in {"CloseSocket", "CloseAll"} => f.c = Sockets!None
        /\ f.fn = "Think" => f.c = Sockets!None \/ f.pc = "timedOut"
        /\ f.fn = "CloseAll" => k = 2 /\ stack[1].fn = "CloseSocket" /\ stack[k + 1].fn = "CloseHard"
        /\ f.fn = "CloseHard" /\ k > 1 =>
             \/ stack[k - 1].fn = "CloseAll"
             \/ stack[k - 1].fn = "Callback" /\ stack[k - 1].c = f.c
        /\ f.fn = "CloseHard" /\ f.pc # "start" => state[f.c] = "Closed"
        /\ f.pc = "timedOut" => f.c \in Conn /\ state[f.c] = "Closed" /\ f.i - 1 <= Len(bucket)
        /\ f.pc # "connections"
        /\ f.pc = "map" =>
             /\ f.fn = "CloseAll" /\ f.i <= Len(bucket)
             /\ state[stack[k + 1].c] # "Closed" => f.i < Len(bucket)
    BY <1>2, <1>6 DEF Sockets!Own, f
  <1>9. f.pc = "timedOut" => f.c \in Conn /\ state'[f.c] = "Closed" /\ f.i - 1 <= Len(bucket')
    BY <1>3, <1>8 DEF PassesOn, f
  <1>10. f.pc = "map" =>
           /\ f.fn = "CloseAll" /\ f.i <= Len(bucket')
           /\ k < Len(stack') /\ state'[stack'[k + 1].c] # "Closed" => f.i < Len(bucket')
    BY <1>3, <1>5, <1>8 DEF PassesOn, f
  <1>11. f.fn = "CloseHard" /\ f.pc # "start" => state'[f.c] = "Closed"
    BY <1>7, <1>8
  <1>12. f.fn = "CloseAll" =>
           /\ k = 2 /\ stack'[1].fn = "CloseSocket"
           /\ k < Len(stack') => stack'[k + 1].fn = "CloseHard"
    BY <1>3, <1>5, <1>8
  <1>13. f.fn = "CloseHard" /\ k > 1 =>
           \/ stack'[k - 1].fn = "CloseAll"
           \/ stack'[k - 1].fn = "Callback" /\ stack'[k - 1].c = f.c
    BY <1>4, <1>8
  <1>14. f = stack'[k] /\ f.c \notin freed'
    BY <1>3 DEF f
  <1> QED BY <1>8, <1>9, <1>10, <1>11, <1>12, <1>13, <1>14 DEF Sockets!Own

\* What a program that does only this relies on, when a function runs.
LEMMA Owned ==
  ASSUME Sockets!SocketsAssumption, Sockets!SocketsInv, Sockets!OnlyItsOwn
  PROVE  /\ fault = Sockets!None /\ ~close /\ ret /\ AllOwn /\ OneConnection
         /\ stack # <<>> =>
              /\ socket = "open" /\ Sockets!Top.c \notin freed /\ Sockets!Top.fn # "SocketError"
              /\ Sockets!Top.fn \in {"Think", "CloseSocket"} => Len(stack) = 1
              /\ Sockets!Top.fn = "CloseSocket" => Sockets!Top.c = Sockets!None
              /\ Sockets!Top.fn = "Think" /\ Sockets!Top.pc # "timedOut" => Sockets!Top.c = Sockets!None
              /\ Sockets!Top.fn = "CloseAll" =>
                   /\ Len(stack) = 2 /\ stack[1].fn = "CloseSocket" /\ stack[1].c = Sockets!None
                   /\ Sockets!Top.c = Sockets!None
              /\ Sockets!Top.fn = "CloseHard" /\ Sockets!Top.pc # "start" => state[Sockets!Top.c] = "Closed"
              /\ Sockets!Top.pc = "timedOut" =>
                   Sockets!Top.c \in Conn /\ state[Sockets!Top.c] = "Closed" /\ Sockets!Top.i - 1 <= Len(bucket)
              /\ Sockets!Top.pc \in {"map", "connections"} => Sockets!Top.i <= Len(bucket)
  <1>1. /\ fault = Sockets!None /\ ~close /\ ret /\ AllOwn /\ OneConnection
        /\ (socket = "freed" => stack = <<>>) /\ socket \in {"open", "freed"} /\ Sockets!StackInv
    BY DEF Sockets!SocketsInv, Sockets!OwnInv, Sockets!TypeOK, AllOwn, OneConnection
  <1>2. ASSUME stack # <<>>
        PROVE  /\ Len(stack) \in Nat /\ DOMAIN stack = 1 .. Len(stack) /\ Len(stack) > 0
               /\ Sockets!Own(Len(stack)) /\ Sockets!Top = stack[Len(stack)]
    BY <1>1, <1>2, TopIs DEF AllOwn
  <1>3. ASSUME stack # <<>>, Sockets!Top.fn = "CloseAll"
        PROVE  /\ Len(stack) = 2 /\ stack[1].fn = "CloseSocket" /\ stack[1].c = Sockets!None
               /\ Sockets!Top.c = Sockets!None
    <2>1. Len(stack) = 2 /\ stack[1].fn = "CloseSocket" /\ Sockets!Top.c = Sockets!None
      BY <1>2, <1>3 DEF Sockets!Own
    <2>2. Sockets!Own(1)
      BY <1>1, <1>2, <1>3, <2>1 DEF AllOwn
    <2> QED BY <2>1, <2>2 DEF Sockets!Own
  <1> QED BY <1>1, <1>2, <1>3 DEF Sockets!Own

\* The running function returns.
LEMMA OwnReturns ==
  ASSUME Sockets!SocketsAssumption, Sockets!SocketsInv, Sockets!OnlyItsOwn, stack # <<>>,
         stack' = Sockets!Front(stack), UNCHANGED <<state, bucket>>,
         \A k \in 1 .. (Len(stack) - 1) : stack[k].c \notin freed'
  PROVE  AllOwn' /\ OneConnection'
  <1> DEFINE n == Len(stack)
  <1>1. Sockets!StackInv /\ AllOwn /\ OneConnection
    BY Owned DEF Sockets!SocketsInv
  <1>2. /\ n \in Nat /\ n > 0 /\ DOMAIN stack = 1 .. n
        /\ Len(stack') = n - 1 /\ DOMAIN stack' = 1 .. (n - 1) /\ \A k \in 1 .. (n - 1) : stack'[k] = stack[k]
    BY <1>1, FormOf
  <1>3. \A k \in 1 .. (n - 1) : Sockets!Own(k)'
    BY <1>1, <1>2, BelowKept DEF PassesOn
  <1>4. AllOwn'
    BY <1>2, <1>3 DEF AllOwn
  <1>5. \A k \in 1 .. (n - 1) : k \in 1 .. n
    BY <1>2
  <1> HIDE DEF n
  <1> QED BY <1>1, <1>2, <1>4, <1>5 DEF OneConnection

\* The running function goes on, or calls another.
LEMMA OwnGoesOn ==
  ASSUME Sockets!SocketsAssumption, Sockets!SocketsInv, Sockets!OnlyItsOwn, stack # <<>>,
         NEW n, n = Len(stack), NEW g \in Sockets!Frames, NEW f \in Sockets!Frames,
         \/ stack' = Append(Sockets!Front(stack), g)
         \/ /\ stack' = Append(Append(Sockets!Front(stack), g), f) /\ Sockets!Own(n + 1)'
            /\ \/ f.c \in {g.c, Sockets!None}
               \/ g.c = Sockets!None /\ \A k \in 1 .. (n - 1) : stack[k].c = Sockets!None,
         g.fn = Sockets!Top.fn, n > 1 => g.c = Sockets!Top.c, Sockets!Own(n)',
         \A c \in Conn : state[c] = "Closed" => state'[c] = "Closed",
         freed' = freed \/ n = 1, \A k \in 1 .. (n - 1) : PassesOn(k)
  PROVE  AllOwn' /\ OneConnection'
  <1>1. Sockets!StackInv /\ AllOwn /\ OneConnection
    BY Owned DEF Sockets!SocketsInv
  <1> DEFINE below == \A k \in 1 .. (n - 1) : stack'[k] = stack[k]
             one == Len(stack') = n /\ DOMAIN stack' = 1 .. n
             two == /\ Len(stack') = n + 1 /\ DOMAIN stack' = 1 .. (n + 1) /\ stack'[n + 1] = f /\ Sockets!Own(n + 1)'
                    /\ \/ f.c \in {g.c, Sockets!None}
                       \/ g.c = Sockets!None /\ \A k \in 1 .. (n - 1) : stack[k].c = Sockets!None
  <1>2. /\ n \in Nat /\ n > 0 /\ DOMAIN stack = 1 .. n /\ Sockets!Top = stack[n] /\ below /\ stack'[n] = g
        /\ one \/ two
    BY <1>1, FormOf
  <1>3. \A k \in 1 .. (n - 1) : Sockets!Own(k)'
    <2>1. Len(stack') \in {n - 1, n, n + 1}
      BY <1>2
    <2>2. \A k \in 1 .. (n - 1) : stack[k].c \notin freed' /\ PassesOn(k)
      <3>1. \A k \in 1 .. (n - 1) : k \in 1 .. n /\ n # 1
        BY <1>2
      <3>2. \A k \in 1 .. n : stack[k].c \notin freed
        <4>1. \A k \in 1 .. n : Sockets!Own(k)
          BY <1>1, <1>2 DEF AllOwn
        <4> QED BY <4>1 DEF Sockets!Own
      <3> QED BY <3>1, <3>2
    <2>3. stack'[n].fn = stack[n].fn /\ (n > 1 => stack'[n].c = stack[n].c)
      BY <1>2
    <2> QED BY <1>1, <1>2, <2>1, <2>2, <2>3, BelowKept
  <1>4. \A k \in 1 .. n : k \in 1 .. (n - 1) \/ k = n
    BY <1>2
  <1>5. \A k \in 1 .. (n + 1) : k \in 1 .. n \/ k = n + 1
    BY <1>2
  <1>6. \A j, k \in 1 .. n :
          stack'[j].c # Sockets!None /\ stack'[k].c # Sockets!None => stack'[j].c = stack'[k].c
    <2>1. CASE n = 1
      BY <2>1
    <2>2. CASE n > 1
      <3>1. stack'[n].c = stack[n].c /\ below
        BY <1>2, <2>2
      <3>2. \A k \in 1 .. n : stack'[k].c = stack[k].c
        BY <1>4, <3>1
      <3>3. \A j, k \in 1 .. n :
              stack[j].c # Sockets!None /\ stack[k].c # Sockets!None => stack[j].c = stack[k].c
        BY <1>1, <1>2 DEF OneConnection
      <3> QED BY <3>2, <3>3
    <2> QED BY <1>2, <2>1, <2>2
  <1>7. CASE one
    <2>1. AllOwn'
      BY <1>3, <1>4, <1>7 DEF AllOwn
    <2>2. OneConnection'
      BY <1>6, <1>7 DEF OneConnection
    <2> QED BY <2>1, <2>2
  <1>8. CASE two
    <2>1. AllOwn'
      BY <1>3, <1>4, <1>5, <1>8 DEF AllOwn
    <2>2. \A k \in 1 .. n :
            stack'[k].c # Sockets!None /\ f.c # Sockets!None => stack'[k].c = f.c
      <3>1. CASE f.c = g.c
        <4>1. n \in 1 .. n
          BY <1>2
        <4> QED BY <1>2, <1>6, <3>1, <4>1
      <3>2. CASE f.c = Sockets!None
        BY <3>2
      <3>3. CASE g.c = Sockets!None /\ \A k \in 1 .. (n - 1) : stack[k].c = Sockets!None
        BY <1>2, <1>4, <3>3
      <3> QED BY <1>8, <3>1, <3>2, <3>3
    <2>3. \A j, k \in 1 .. (n + 1) :
            stack'[j].c # Sockets!None /\ stack'[k].c # Sockets!None => stack'[j].c = stack'[k].c
      <3> HIDE DEF below
      <3>1. stack'[n + 1] = f
        BY <1>8
      <3> QED BY <1>5, <1>6, <2>2, <3>1
    <2>4. OneConnection'
      BY <1>8, <2>3 DEF OneConnection
    <2> QED BY <2>1, <2>4
  <1> QED BY <1>2, <1>7, <1>8

OwnNext == ~close' /\ ret' /\ (socket' = "freed" => stack' = <<>>) /\ AllOwn' /\ OneConnection'

\* A function that is called as such a program and gt2 call it.
LEMMA StartsOwn ==
  ASSUME NEW k, NEW fn \in Sockets!Functions, NEW c \in Conn \union {Sockets!None},
         stack'[k] = Sockets!Frame(fn, c), c \notin freed',
         \/ fn = "Callback"
         \/ fn \in {"Think", "CloseSocket"} /\ k = 1 /\ c = Sockets!None
         \/ fn = "CloseAll" /\ k = 2 /\ Len(stack') = 2 /\ stack'[1].fn = "CloseSocket" /\ c = Sockets!None
         \/ /\ fn = "CloseHard"
            /\ k > 1 => \/ stack'[k - 1].fn = "CloseAll"
                        \/ stack'[k - 1].fn = "Callback" /\ stack'[k - 1].c = c
  PROVE  Sockets!Own(k)'
  <1> DEFINE f == Sockets!Frame(fn, c)
  <1>1. stack'[k] = f /\ f.fn = fn /\ f.c = c /\ f.pc = "start"
    BY FrameIs
  <1> HIDE DEF f
  <1> QED BY <1>1 DEF Sockets!Own

\* The program calls, at the outset or for the connection of a callback.
LEMMA OwnProgram ==
  ASSUME Sockets!SocketsAssumption, Sockets!SocketsInv, Sockets!OnlyItsOwn,
         NEW fn \in Sockets!Calls, Sockets!Program(fn)
  PROVE  OwnNext
  <1>1. /\ Sockets!StackInv /\ AllOwn /\ OneConnection /\ ~close /\ ret /\ freed \subseteq Conn
        /\ Sockets!None \notin Conn
    BY Owned DEF Sockets!SocketsInv, Sockets!TypeOK, Sockets!SocketsAssumption
  <1>2. UNCHANGED <<Sockets!objects, ret>> /\ socket = "open"
    BY DEF Sockets!Program
  <1>3. UNCHANGED <<socket, close, state, bucket, freed>>
    BY <1>2 DEF Sockets!objects
  <1>4. AllOwn' /\ OneConnection'
    <2>1. CASE stack = <<>>
      <3>1. \/ \E c \in Conn \ freed : stack' = Append(stack, Sockets!Frame("CloseHard", c))
            \/ fn \in {"Think", "CloseSocket"} /\ stack' = Append(stack, Sockets!Frame(fn, Sockets!None))
        BY <2>1 DEF Sockets!Program, Sockets!Running
      <3>2. PICK name \in {"CloseHard", "Think", "CloseSocket"}, c \in (Conn \union {Sockets!None}) \ freed :
              /\ stack' = Append(stack, Sockets!Frame(name, c))
              /\ name # "CloseHard" => c = Sockets!None
        <4>1. CASE \E c \in Conn \ freed : stack' = Append(stack, Sockets!Frame("CloseHard", c))
          BY <4>1
        <4>2. CASE fn \in {"Think", "CloseSocket"} /\ stack' = Append(stack, Sockets!Frame(fn, Sockets!None))
          BY <1>1, <4>2
        <4> QED BY <3>1, <4>1, <4>2
      <3>3. name \in Sockets!Functions
        BY DEF Sockets!Functions, Sockets!Calls
      <3> DEFINE f == Sockets!Frame(name, c)
      <3>4. f \in Sockets!Frames
        BY <3>2, <3>3, FrameIs
      <3> HIDE DEF f
      <3>5. DOMAIN stack' = {1} /\ stack'[1] = f
        BY <2>1, <3>2, <3>4 DEF f
      <3>6. Sockets!Own(1)'
        BY <1>3, <3>2, <3>3, <3>5, StartsOwn DEF f
      <3> QED BY <3>5, <3>6 DEF AllOwn, OneConnection
    <2>2. CASE stack # <<>>
      <3> DEFINE t == Sockets!Top
                 f == Sockets!Frame("CloseHard", t.c)
      <3> PICK n : n = Len(stack)
        OBVIOUS
      <3>1. t.fn = "Callback" /\ t.pc = "start" /\ fn = "CloseHard"
        BY <2>2 DEF Sockets!Program, Sockets!Running, Sockets!OnlyItsOwn
      <3>2. t.c \in Conn \ freed /\ stack' = Append(stack, f)
        BY <2>2, <3>1 DEF Sockets!Program
      <3>3. "CloseHard" \in Sockets!Functions
        BY DEF Sockets!Functions, Sockets!Calls
      <3>4. f \in Sockets!Frames /\ f.c = t.c
        BY <3>2, <3>3, FrameIs
      <3> HIDE DEF f
      <3>5. /\ n \in Nat /\ n > 0 /\ DOMAIN stack = 1 .. n /\ stack = Append(Sockets!Front(stack), t)
            /\ t = stack[n] /\ t \in Sockets!Frames
        BY <1>1, <2>2, FormOf
      <3>6. stack' = Append(Append(Sockets!Front(stack), t), f)
        BY <3>2, <3>5
      <3>7. /\ Len(stack') = n + 1 /\ \A k \in 1 .. (n - 1) : stack'[k] = stack[k]
            /\ stack'[n] = t /\ stack'[n + 1] = f
        BY <1>1, <2>2, <3>4, <3>5, <3>6, FormOf
      <3>8. Sockets!Own(n)'
        <4>1. t.c \notin freed'
          BY <1>3, <3>2
        <4> HIDE DEF t
        <4> QED BY <3>1, <3>7, <4>1 DEF Sockets!Own
      <3>9. Sockets!Own(n + 1)'
        <4>1. n + 1 - 1 = n
          BY <3>5
        <4> QED BY <1>3, <3>1, <3>2, <3>3, <3>7, <4>1, StartsOwn DEF f
      <3>10. \A k \in 1 .. (n - 1) : PassesOn(k)
        BY <1>3 DEF PassesOn
      <3> HIDE DEF t
      <3>11. /\ f.c \in {t.c, Sockets!None} /\ t.fn = Sockets!Top.fn /\ t.c = Sockets!Top.c /\ freed' = freed
             /\ state' = state
        BY <1>3, <3>4 DEF t
      <3> QED BY <2>2, <3>4, <3>5, <3>6, <3>8, <3>9, <3>10, <3>11, OwnGoesOn
    <2> QED BY <2>1, <2>2
  <1> QED BY <1>1, <1>2, <1>3, <1>4 DEF OwnNext

\* A callback ends.
LEMMA OwnCallbackEnds ==
  ASSUME Sockets!SocketsAssumption, Sockets!SocketsInv, Sockets!OnlyItsOwn, Sockets!ReturnFromCallback
  PROVE  OwnNext
  <1>1. Sockets!StackInv /\ AllOwn /\ ~close /\ socket = "open" /\ stack # <<>>
    BY Owned DEF Sockets!SocketsInv, Sockets!ReturnFromCallback, Sockets!Running
  <1>2. /\ UNCHANGED <<close, bucket, state, socket, freed>>
        /\ stack' = Sockets!Front(stack) /\ ret' = TRUE
    BY <1>1 DEF Sockets!ReturnFromCallback, Sockets!CloseWaits, Sockets!Return
  <1>3. \A k \in 1 .. (Len(stack) - 1) : stack[k].c \notin freed'
    <2> DEFINE n == Len(stack)
    <2>1. \A k \in 1 .. (n - 1) : k \in DOMAIN stack
      <3>1. n \in Nat /\ DOMAIN stack = 1 .. n
        BY <1>1, FormOf
      <3> HIDE DEF n
      <3> QED BY <3>1
    <2> QED BY <1>1, <1>2, <2>1 DEF AllOwn, Sockets!Own
  <1>4. AllOwn' /\ OneConnection'
    BY <1>1, <1>2, <1>3, OwnReturns
  <1> QED BY <1>1, <1>2, <1>4 DEF OwnNext

\* What waits is not the closing of another connection.
LEMMA OwnPasses ==
  ASSUME Sockets!SocketsAssumption, Sockets!SocketsInv, Sockets!OnlyItsOwn, stack # <<>>,
         Closing(Sockets!Top.c), NEW n, n = Len(stack), NEW k \in 1 .. (n - 1)
  PROVE  PassesOn(k)
  <1> DEFINE t == Sockets!Top
             f == stack[k]
  <1>1. /\ Sockets!StackInv /\ AllOwn /\ OneConnection /\ Sockets!None \notin Conn
        /\ Sockets!TypeOK /\ Sockets!TableInv
    BY Owned DEF Sockets!SocketsInv, Sockets!SocketsAssumption
  <1>2. n \in Nat /\ n > 0 /\ DOMAIN stack = 1 .. n /\ t = stack[n]
    BY <1>1, FormOf
  <1>3. k \in 1 .. n /\ k + 1 \in 1 .. n /\ n \in 1 .. n /\ k < Len(stack)
    BY <1>2
  <1>4. t.c \in Conn /\ state[t.c] # "Closed"
    BY DEF Closing
  <1>5. /\ Len(bucket) \in Nat /\ Len(bucket') = Len(bucket) - 1
        /\ state' = [state EXCEPT ![t.c] = "Closed"] /\ state \in [Conn -> {"Connecting", "Connected", "Closed"}]
    BY <1>1, <1>4, Closes
  <1>6. \A j \in 1 .. n : stack[j].c \in Conn => stack[j].c = t.c
    BY <1>1, <1>2, <1>3, <1>4 DEF OneConnection
  <1>7. Sockets!Own(k)
    BY <1>1, <1>2, <1>3 DEF AllOwn
  <1>8. f.pc # "timedOut"
    <2>1. f.pc = "timedOut" => f.c \in Conn /\ state[f.c] = "Closed"
      BY <1>7 DEF Sockets!Own
    <2> QED BY <1>3, <1>4, <1>6, <2>1
  <1>9. f.pc = "map" => f.i <= Len(bucket') /\ state'[stack[k + 1].c] = "Closed"
    <2>1. f.pc = "map" =>
            /\ stack[k + 1].fn = "CloseHard"
            /\ state[stack[k + 1].c] # "Closed" => f.i < Len(bucket)
      BY <1>3, <1>7 DEF Sockets!Own
    <2>2. stack[k + 1].fn = "CloseHard" => stack[k + 1].c \in Conn
      BY <1>1, <1>2, <1>3 DEF Sockets!StackInv
    <2>3. f.pc = "map" => stack[k + 1].c = t.c
      BY <1>3, <1>6, <2>1, <2>2
    <2>4. f.i \in Int
      <3>1. stack \in Seq(Sockets!Frames)
        BY <1>1 DEF Sockets!StackInv
      <3>2. f \in Sockets!Frames
        BY <1>2, <1>3, <3>1
      <3> QED BY <3>2 DEF Sockets!Frames
    <2>5. f.pc = "map" => f.i < Len(bucket)
      BY <1>4, <2>1, <2>3
    <2> HIDE DEF t, f
    <2>6. f.i < Len(bucket) => f.i <= Len(bucket')
      BY <1>5, <2>4
    <2>7. state'[t.c] = "Closed"
      BY <1>4, <1>5
    <2> QED BY <2>3, <2>5, <2>6, <2>7
  <1> QED BY <1>8, <1>9 DEF PassesOn

\* gti2CloseConnection goes on where it has closed the connection.
LEMMA ClosesOwn ==
  ASSUME NEW n, Sockets!Own(n), NEW pc \in {"sent", "told"}, stack[n].fn = "CloseHard",
         stack'[n].fn = "CloseHard", stack'[n].pc = pc, stack'[n].c = stack[n].c,
         state'[stack[n].c] = "Closed", stack[n].c \notin freed', n > 1 => stack'[n - 1] = stack[n - 1]
  PROVE  Sockets!Own(n)'
  <1> DEFINE f == stack[n]
             g == stack'[n]
  <1>1. n > 1 => \/ stack'[n - 1].fn = "CloseAll"
                 \/ stack'[n - 1].fn = "Callback" /\ stack'[n - 1].c = f.c
    BY DEF Sockets!Own
  <1>2. g.fn = "CloseHard" /\ g.pc \in {"sent", "told"} /\ g.c = f.c /\ state'[f.c] = "Closed" /\ f.c \notin freed'
    OBVIOUS
  <1> HIDE DEF f
  <1> QED BY <1>1, <1>2 DEF Sockets!Own

\* gti2CloseConnection, hard.
LEMMA OwnCloseHard ==
  ASSUME Sockets!SocketsAssumption, Sockets!SocketsInv, Sockets!OnlyItsOwn,
         Sockets!CloseHardStart \/ Sockets!CloseHardSent
  PROVE  OwnNext
  <1> DEFINE t == Sockets!Top
             r == Sockets!Front(stack)
  <1> PICK n : n = Len(stack)
    OBVIOUS
  <1>1. /\ Sockets!StackInv /\ AllOwn /\ ~close /\ ret /\ socket = "open" /\ stack # <<>>
        /\ t.fn = "CloseHard" /\ t.c \notin freed /\ Sockets!None \notin Conn
        /\ t.pc # "start" => state[t.c] = "Closed"
        /\ \A c \in Conn : state[c] = "Closed" => state'[c] = "Closed"
    <2>1. \A c \in Conn : state[c] = "Closed" => state'[c] = "Closed"
      BY TableKept DEF Sockets!Step
    <2> QED BY <2>1, Owned DEF Sockets!SocketsInv, Sockets!CloseHardStart, Sockets!CloseHardSent, Sockets!Running,
               Sockets!SocketsAssumption
  <1>2. /\ n \in Nat /\ n > 0 /\ DOMAIN stack = 1 .. n /\ t = stack[n] /\ t \in Sockets!Frames
        /\ Sockets!Own(n) /\ t.c \in Conn /\ t.i \in Int
    <2>1. n \in Nat /\ n > 0 /\ DOMAIN stack = 1 .. n /\ t = stack[n] /\ t \in Sockets!Frames
      BY <1>1, FormOf
    <2>2. t.c \in Conn /\ t.i \in Int
      BY <1>1, TopIs
    <2> QED BY <1>1, <2>1, <2>2 DEF AllOwn
  <1>3. UNCHANGED <<socket, close, freed>>
    BY <1>1 DEF Sockets!CloseHardStart, Sockets!CloseHardSent, Sockets!objects
  <1>4. \A k \in 1 .. (n - 1) : stack[k].c \notin freed'
    <2>1. \A k \in 1 .. (n - 1) : k \in DOMAIN stack
      BY <1>2
    <2> QED BY <1>1, <1>3, <2>1 DEF AllOwn, Sockets!Own
  <1>5. n > 1 => n - 1 \in 1 .. (n - 1)
    BY <1>2
  <1>6. /\ {"sent", "told"} \subseteq Sockets!Points /\ 0 \in Int /\ "Callback" \in Sockets!Functions
    BY DEF Sockets!Points, Sockets!Functions
  <1>7. CASE Sockets!CloseHardStart
    <2>1. CASE Sockets!Return(TRUE) /\ UNCHANGED Sockets!objects
      <3>1. stack' = r /\ ret' = TRUE /\ UNCHANGED <<state, bucket>>
        BY <2>1 DEF Sockets!Return, Sockets!objects
      <3>2. AllOwn' /\ OneConnection'
        BY <1>1, <1>4, <3>1, OwnReturns
      <3> QED BY <1>1, <1>3, <3>1, <3>2 DEF OwnNext
    <2>2. CASE Closing(t.c) /\ Sockets!Continue("sent", 0)
      <3> DEFINE g == Sockets!Goto("sent", 0)
      <3>1. g \in Sockets!Frames /\ g.fn = "CloseHard" /\ g.c = t.c /\ g.pc = "sent"
        BY <1>1, <1>6, TopIs
      <3>2. stack' = Append(r, g) /\ ret' = ret
        BY <2>2 DEF Sockets!Continue
      <3> HIDE DEF g
      <3>3. stack'[n] = g /\ \A k \in 1 .. (n - 1) : stack'[k] = stack[k]
        BY <1>1, <3>1, <3>2, FormOf
      <3>4. state'[t.c] = "Closed"
        BY <1>2, <2>2, Closes DEF Sockets!SocketsInv
      <3>5. Sockets!Own(n)'
        <4>1. n > 1 => stack'[n - 1] = stack[n - 1]
          BY <1>5, <3>3
        <4> HIDE DEF t
        <4> QED BY <1>1, <1>2, <1>3, <3>1, <3>3, <3>4, <4>1, ClosesOwn
      <3>6. \A k \in 1 .. (n - 1) : PassesOn(k)
        BY <1>1, <2>2, OwnPasses
      <3>7. AllOwn' /\ OneConnection'
        BY <1>1, <1>3, <3>1, <3>2, <3>5, <3>6, OwnGoesOn
      <3> QED BY <1>1, <1>3, <3>2, <3>7 DEF OwnNext
    <2>3. ~may.errors
      BY DEF Sockets!OnlyItsOwn
    <2>4. UNCHANGED freed
      BY <1>3
    <2> QED BY <1>2, <1>7, <2>1, <2>2, <2>3, <2>4 DEF Sockets!CloseHardStart, Sockets!AlreadyClosed, Closing
  <1>8. CASE Sockets!CloseHardSent
    <2> DEFINE g == Sockets!Goto("told", t.i)
               f == Sockets!Frame("Callback", t.c)
    <2>1. /\ t.pc = "sent" /\ stack' = Append(Append(r, g), f) /\ ret' = ret /\ UNCHANGED <<state, bucket>>
      BY <1>8 DEF Sockets!CloseHardSent, Sockets!Running, Sockets!CallBack, Sockets!Call
    <2>2. g \in Sockets!Frames /\ g.fn = "CloseHard" /\ g.c = t.c /\ g.pc = "told"
      BY <1>1, <1>2, <1>6, TopIs
    <2>3. f \in Sockets!Frames /\ f.c = t.c
      BY <1>2, <1>6, FrameIs
    <2> HIDE DEF g
    <2>4. stack'[n] = g /\ stack'[n + 1] = f /\ \A k \in 1 .. (n - 1) : stack'[k] = stack[k]
      <3> HIDE DEF f
      <3> QED BY <1>1, <2>1, <2>2, <2>3, FormOf
    <2>5. Sockets!Own(n)'
      <3>1. n > 1 => stack'[n - 1] = stack[n - 1]
        BY <1>5, <2>4
      <3>2. state'[t.c] = "Closed"
        BY <1>1, <2>1
      <3> HIDE DEF t
      <3> QED BY <1>1, <1>2, <1>3, <2>2, <2>4, <3>1, <3>2, ClosesOwn
    <2>6. Sockets!Own(n + 1)'
      BY <1>1, <1>2, <1>3, <1>6, <2>4, StartsOwn
    <2> HIDE DEF f
    <2>7. \A k \in 1 .. (n - 1) : PassesOn(k)
      BY <2>1 DEF PassesOn
    <2>8. f.c \in {g.c, Sockets!None}
      BY <2>2, <2>3
    <2>9. AllOwn' /\ OneConnection'
      BY <1>1, <1>3, <2>1, <2>2, <2>3, <2>5, <2>6, <2>7, <2>8, OwnGoesOn
    <2> QED BY <1>1, <1>3, <2>1, <2>9 DEF OwnNext
  <1> QED BY <1>7, <1>8

\* What is given back when its close returns is nothing that waits.
LEMMA OwnCloseHardTold ==
  ASSUME Sockets!SocketsAssumption, Sockets!SocketsInv, Sockets!OnlyItsOwn, Sockets!CloseHardTold
  PROVE  OwnNext
  <1> DEFINE t == Sockets!Top
  <1> PICK n : n = Len(stack)
    OBVIOUS
  <1>1. /\ Sockets!StackInv /\ AllOwn /\ ~close /\ socket = "open" /\ stack # <<>> /\ t.fn = "CloseHard"
        /\ Sockets!None \notin Conn /\ fault = Sockets!None
    BY Owned DEF Sockets!SocketsInv, Sockets!CloseHardTold, Sockets!Running, Sockets!SocketsAssumption
  <1>2. /\ n \in Nat /\ n > 0 /\ DOMAIN stack = 1 .. n /\ t = stack[n] /\ t.c \in Conn /\ Sockets!Own(n)
        /\ \A k \in 1 .. (n - 1) : k \in 1 .. n
    <2>1. n \in Nat /\ n > 0 /\ DOMAIN stack = 1 .. n /\ t = stack[n]
      BY <1>1, FormOf
    <2>2. t.c \in Conn
      BY <1>1, TopIs
    <2> QED BY <1>1, <2>1, <2>2 DEF AllOwn
  <1>3. /\ UNCHANGED <<socket, close, state, bucket>> /\ stack' = Sockets!Front(stack) /\ ret' = TRUE
        /\ freed' = freed \/ (clevel[t.c] = 0 /\ freed' = freed \union {t.c})
    BY DEF Sockets!CloseHardTold, Sockets!Return, Sockets!FreeSocketConnection, Sockets!MayFree
  <1>4. \A k \in 1 .. (n - 1) : stack[k].c \notin freed
    BY <1>1, <1>2 DEF AllOwn, Sockets!Own
  <1>5. ASSUME clevel[t.c] = 0, NEW k \in 1 .. (n - 1) PROVE stack[k].c # t.c
    <2>1. n > 1 /\ n - 1 \in 1 .. n /\ 1 \in 1 .. n
      BY <1>2
    <2>2. CASE stack[n - 1].fn = "CloseAll"
      <3>1. Sockets!Own(n - 1) /\ Sockets!Own(1)
        BY <1>1, <1>2, <2>1 DEF AllOwn
      <3>2. n - 1 = 2 /\ stack[1].fn = "CloseSocket" /\ stack[n - 1].c = Sockets!None
        BY <2>2, <3>1 DEF Sockets!Own
      <3>3. stack[1].c = Sockets!None
        BY <3>1, <3>2 DEF Sockets!Own
      <3>4. k = 1 \/ k = n - 1
        <4>1. n \in Nat
          BY <1>2
        <4>2. n - 1 = 2
          BY <3>2
        <4>3. k \in 1 .. 2
          BY <4>1, <4>2
        <4>4. \A j \in 1 .. 2 : j = 1 \/ j = 2
          OBVIOUS
        <4>5. k = 1 \/ k = 2
          BY <4>3, <4>4
        <4> QED BY <4>2, <4>5
      <3> QED BY <1>1, <1>2, <3>2, <3>3, <3>4
    <2>3. CASE stack[n - 1].fn = "Callback" /\ stack[n - 1].c = t.c
      <3> DEFINE T == Sockets!CallbacksOf(t.c)
      <3>1. clevel[t.c] = Count(stack, T)
        <4>1. clevel[t.c] = Sockets!Cardinality(Sockets!Places(stack, T))
          BY <1>1, <1>2 DEF Sockets!SocketsInv, Sockets!LevelInv
        <4> QED BY <4>1, SameCardinality DEF Count
      <3>2. stack \in Seq(Sockets!Frames)
        BY <1>1 DEF Sockets!StackInv
      <3>3. stack[n - 1] \in T
        BY <1>2, <2>1, <2>3, <3>2 DEF Sockets!CallbacksOf, Sockets!Callbacks
      <3> HIDE DEF T
      <3>4. Count(stack, T) # 0
        BY <2>1, <3>2, <3>3, Counted
      <3> QED BY <1>5, <3>1, <3>4
    <2>4. stack[n - 1].fn = "CloseAll" \/ (stack[n - 1].fn = "Callback" /\ stack[n - 1].c = t.c)
      BY <1>1, <1>2, <2>1 DEF Sockets!Own
    <2> QED BY <2>2, <2>3, <2>4
  <1>6. \A k \in 1 .. (n - 1) : stack[k].c \notin freed'
    BY <1>3, <1>4, <1>5
  <1>7. AllOwn' /\ OneConnection'
    BY <1>1, <1>3, <1>6, OwnReturns
  <1> QED BY <1>1, <1>3, <1>7 DEF OwnNext

\* The walk over the table: what is left of it shrinks by at most the one it closes.
LEMMA OwnCloseAll ==
  ASSUME Sockets!SocketsAssumption, Sockets!SocketsInv, Sockets!OnlyItsOwn,
         Sockets!MapStart \/ Sockets!MapOne
  PROVE  OwnNext
  <1> DEFINE t == Sockets!Top
             r == Sockets!Front(stack)
  <1>1. /\ Sockets!StackInv /\ AllOwn /\ ~close /\ ret /\ socket = "open" /\ stack # <<>>
        /\ t.fn = "CloseAll" /\ t.c = Sockets!None /\ t.c \notin freed /\ Len(stack) = 2
        /\ stack[1].fn = "CloseSocket" /\ stack[1].c = Sockets!None
        /\ t.pc = "map" => t.i <= Len(bucket)
    BY Owned DEF Sockets!SocketsInv, Sockets!MapStart, Sockets!MapOne, Sockets!Running
  <1>2. UNCHANGED <<socket, close, state, bucket, freed>>
    BY DEF Sockets!MapStart, Sockets!MapOne, Sockets!objects
  <1>3. /\ bucket \in Seq(Conn) /\ Len(bucket) \in Nat /\ \A i \in 1 .. Len(bucket) : bucket[i] \in Conn \ freed
    <2>1. /\ bucket \in Seq(Conn) /\ \A i \in DOMAIN bucket : state[bucket[i]] # "Closed"
          /\ \A c \in freed : state[c] = "Closed"
      BY DEF Sockets!SocketsInv, Sockets!TableInv
    <2> QED BY <2>1
  <1>4. t.i \in Int /\ t \in Sockets!Frames /\ 2 \in DOMAIN stack
    BY <1>1, TopIs
  <1>5. "map" \in Sockets!Points /\ "CloseHard" \in Sockets!Functions
    BY DEF Sockets!Points, Sockets!Functions, Sockets!Calls
  <1>6. \A i \in Int : /\ Sockets!Goto("map", i) \in Sockets!Frames /\ Sockets!Goto("map", i).fn = "CloseAll"
                       /\ Sockets!Goto("map", i).c = Sockets!None /\ Sockets!Goto("map", i).pc = "map"
                       /\ Sockets!Goto("map", i).i = i
    BY <1>1, <1>5, TopIs
  <1>7. \A k \in 1 .. (2 - 1) : PassesOn(k) /\ stack[k].c = Sockets!None
    <2>1. \A k \in 1 .. (2 - 1) : k = 1
      OBVIOUS
    <2> QED BY <1>1, <1>2, <2>1 DEF PassesOn
  <1> HIDE DEF t, r
  <1>8. ASSUME NEW g \in Sockets!Frames, NEW f \in Sockets!Frames,
               g.fn = "CloseAll", g.c = Sockets!None, g.pc = "map", g.i <= Len(bucket),
               stack' = Append(r, g) \/ (stack' = Append(Append(r, g), f) /\ f.fn = "CloseHard" /\ g.i < Len(bucket))
        PROVE  /\ Sockets!Own(2)' /\ stack'[2] = g /\ stack'[1] = stack[1]
               /\ stack' = Append(Append(r, g), f) => stack'[3] = f
    <2>1. /\ stack'[2] = g /\ stack'[1] = stack[1]
          /\ \/ Len(stack') = 2
             \/ Len(stack') = 3 /\ stack'[3] = f /\ f.fn = "CloseHard" /\ g.i < Len(bucket)
      <3>1. 1 \in 1 .. (2 - 1) /\ 2 + 1 = 3
        OBVIOUS
      <3> QED BY <1>1, <1>8, <3>1, FormOf DEF r
    <2>2. stack' = Append(Append(r, g), f) => stack'[3] = f
      <3>1. 2 + 1 = 3
        OBVIOUS
      <3> QED BY <1>1, <1>8, <3>1, FormOf DEF r
    <2>3. g.c \notin freed'
      BY <1>1, <1>2, <1>8
    <2>4. Len(bucket') = Len(bucket)
      BY <1>2
    <2>5. Sockets!Own(2)'
      BY <1>1, <1>8, <2>1, <2>3, <2>4 DEF Sockets!Own
    <2> QED BY <2>1, <2>2, <2>5
  <1>9. CASE Sockets!MapStart
    <2> DEFINE g == Sockets!Goto("map", Len(bucket))
    <2>1. stack' = Append(r, g) /\ ret' = ret
      BY <1>9 DEF Sockets!MapStart, Sockets!Continue, r
    <2>2. /\ g \in Sockets!Frames /\ g.fn = "CloseAll" /\ g.c = Sockets!None /\ g.pc = "map"
          /\ g.i = Len(bucket)
      BY <1>3, <1>6
    <2> HIDE DEF g
    <2>3. g.i <= Len(bucket)
      BY <1>3, <2>2
    <2>4. Sockets!Own(2)'
      BY <1>8, <2>1, <2>2, <2>3
    <2>5. AllOwn' /\ OneConnection'
      <3>1. g.fn = Sockets!Top.fn /\ g.c = Sockets!Top.c
        BY <1>1, <2>2 DEF t
      <3>2. \A k \in 1 .. (2 - 1) : PassesOn(k)
        BY <1>7
      <3> QED BY <1>1, <1>2, <2>1, <2>2, <2>4, <3>1, <3>2, OwnGoesOn DEF r
    <2> QED BY <1>1, <1>2, <2>1, <2>5 DEF OwnNext
  <1>10. CASE Sockets!MapOne
    <2>1. CASE Sockets!Return(TRUE)
      <3>1. stack' = Sockets!Front(stack) /\ ret' = TRUE
        BY <2>1 DEF Sockets!Return
      <3>2. \A k \in 1 .. (Len(stack) - 1) : stack[k].c \notin freed'
        BY <1>1, <1>2, <1>7
      <3>3. AllOwn' /\ OneConnection'
        BY <1>1, <1>2, <3>1, <3>2, OwnReturns
      <3> QED BY <1>1, <1>2, <3>1, <3>3 DEF OwnNext
    <2> DEFINE c == bucket[t.i]
               g == Sockets!Goto("map", t.i - 1)
               f == Sockets!Frame("CloseHard", c)
    <2>2. CASE /\ t.i \in 1 .. Len(bucket) /\ ret' = ret
               /\ stack' = Append(Append(r, g), f)
      <3>1. c \in Conn \ freed /\ t.i - 1 \in Int /\ t.i - 1 < Len(bucket) /\ t.i - 1 <= Len(bucket)
        BY <1>3, <1>4, <2>2
      <3> HIDE DEF c
      <3>2. /\ g \in Sockets!Frames /\ g.fn = "CloseAll" /\ g.c = Sockets!None /\ g.pc = "map"
            /\ g.i = t.i - 1
        BY <1>6, <3>1
      <3>3. f \in Sockets!Frames /\ f.fn = "CloseHard"
        BY <1>5, <3>1, FrameIs
      <3> HIDE DEF g
      <3>4. Sockets!Own(2)' /\ stack'[2] = g /\ stack'[3] = f
        <4> HIDE DEF f
        <4> QED BY <1>8, <2>2, <3>1, <3>2, <3>3
      <3>5. Sockets!Own(3)'
        <4>1. 3 - 1 = 2
          OBVIOUS
        <4>2. c \notin freed' /\ c \in Conn \union {Sockets!None}
          BY <1>2, <3>1
        <4> QED BY <1>5, <3>2, <3>4, <4>1, <4>2, StartsOwn
      <3> HIDE DEF f
      <3>6. AllOwn' /\ OneConnection'
        <4>1. g.fn = Sockets!Top.fn /\ g.c = Sockets!Top.c /\ 2 + 1 = 3
          BY <1>1, <3>2 DEF t
        <4>2. \A k \in 1 .. (2 - 1) : PassesOn(k)
          BY <1>7
        <4>3. Sockets!Own(2 + 1)'
          BY <3>5, <4>1
        <4>4. \A k \in 1 .. (2 - 1) : stack[k].c = Sockets!None
          BY <1>7
        <4> QED BY <1>1, <1>2, <2>2, <3>2, <3>3, <3>4, <4>1, <4>2, <4>3, <4>4, OwnGoesOn DEF r
      <3> QED BY <1>1, <1>2, <2>2, <3>6 DEF OwnNext
    <2>3. Sockets!Return(TRUE) \/ (t.i \in 1 .. Len(bucket) /\ stack' = Append(Append(r, g), f) /\ ret' = ret)
      BY <1>10 DEF Sockets!MapOne, t, r
    <2> QED BY <2>1, <2>2, <2>3
  <1> QED BY <1>9, <1>10

\* gt2CloseSocket is called at the outset only: nothing waits, and no callback runs, when it is done.
LEMMA OwnCloseSocket ==
  ASSUME Sockets!SocketsAssumption, Sockets!SocketsInv, Sockets!OnlyItsOwn,
         Sockets!CloseSocketStart \/ Sockets!CloseSocketClosed
  PROVE  OwnNext
  <1> DEFINE t == Sockets!Top
             r == Sockets!Front(stack)
  <1>1. /\ Sockets!StackInv /\ AllOwn /\ ~close /\ ret /\ socket = "open" /\ stack # <<>> /\ fault = Sockets!None
        /\ t.fn = "CloseSocket" /\ t.c = Sockets!None /\ t.c \notin freed /\ Len(stack) = 1
    BY Owned DEF Sockets!SocketsInv, Sockets!CloseSocketStart, Sockets!CloseSocketClosed, Sockets!Running
  <1>2. UNCHANGED <<state, bucket>> /\ t.i \in Int
    BY <1>1, TopIs DEF Sockets!CloseSocketStart, Sockets!CloseSocketClosed, Sockets!objects
  <1>3. CASE Sockets!CloseSocketStart
    <2> DEFINE g == Sockets!Goto("closed", t.i)
               f == Sockets!Frame("CloseAll", Sockets!None)
    <2>1. UNCHANGED <<socket, close, freed, ret>> /\ stack' = Append(Append(r, g), f)
      BY <1>3 DEF Sockets!CloseSocketStart, Sockets!objects, Sockets!Call
    <2>2. /\ "closed" \in Sockets!Points /\ "CloseAll" \in Sockets!Functions
          /\ Sockets!None \in Conn \union {Sockets!None}
      BY DEF Sockets!Points, Sockets!Functions
    <2>3. /\ g \in Sockets!Frames /\ g.fn = "CloseSocket" /\ g.c = Sockets!None /\ g.pc = "closed"
          /\ f \in Sockets!Frames /\ f.c = Sockets!None
      BY <1>1, <1>2, <2>2, TopIs, FrameIs
    <2> HIDE DEF g
    <2>4. Len(stack') = 2 /\ stack'[1] = g /\ stack'[2] = f
      <3>1. 1 + 1 = 2
        OBVIOUS
      <3> HIDE DEF f
      <3> QED BY <1>1, <2>1, <2>3, <3>1, FormOf
    <2>5. Sockets!Own(2)'
      BY <1>1, <2>1, <2>2, <2>3, <2>4, StartsOwn
    <2> HIDE DEF f
    <2>6. Sockets!Own(1)'
      <3>1. g.c \notin freed'
        BY <1>1, <2>1, <2>3
      <3> QED BY <2>3, <2>4, <3>1 DEF Sockets!Own
    <2>7. AllOwn' /\ OneConnection'
      <3>1. Sockets!Own(1 + 1)'
        <4>1. 1 + 1 = 2
          OBVIOUS
        <4> QED BY <2>5, <4>1
      <3>2. \A k \in 1 .. (1 - 1) : PassesOn(k)
        BY <1>2 DEF PassesOn
      <3>3. g.fn = Sockets!Top.fn /\ g.c = Sockets!Top.c /\ f.c \in {g.c, Sockets!None}
        BY <1>1, <2>3
      <3> HIDE DEF t
      <3> QED BY <1>1, <1>2, <2>1, <2>3, <2>6, <3>1, <3>2, <3>3, OwnGoesOn
    <2> QED BY <1>1, <2>1, <2>7 DEF OwnNext
  <1>4. CASE Sockets!CloseSocketClosed
    <2>1. level = 0
      <3> DEFINE T == Sockets!Callbacks
      <3>1. level = Count(stack, T)
        <4>1. level = Sockets!Cardinality(Sockets!Places(stack, T))
          BY <1>1 DEF Sockets!SocketsInv, Sockets!LevelInv
        <4> QED BY <4>1, SameCardinality DEF Count
      <3>2. \A k \in 1 .. Len(stack) : stack[k] \notin T
        <4>1. \A k \in 1 .. Len(stack) : k = 1
          BY <1>1
        <4>2. stack[1].fn = "CloseSocket"
          BY <1>1 DEF Sockets!Top
        <4> QED BY <4>1, <4>2 DEF Sockets!Callbacks
      <3>3. stack \in Seq(Sockets!Frames)
        BY <1>1 DEF Sockets!StackInv
      <3> HIDE DEF T
      <3> QED BY <3>1, <3>2, <3>3, Counted
    <2>2. close' = close /\ stack' = r /\ ret' = TRUE
      BY <1>4, <2>1 DEF Sockets!CloseSocketClosed, Sockets!DoCloseSocket, Sockets!InCallback, Sockets!Return
    <2>3. DOMAIN stack' = {} /\ stack' = <<>>
      <3>1. DOMAIN stack' = 1 .. 0 /\ Len(stack') = 0
        <4>1. 1 - 1 = 0
          OBVIOUS
        <4> QED BY <1>1, <2>2, <4>1, FormOf
      <3>2. stack' \in Seq(Sockets!Frames)
        <4>1. stack \in Seq(Sockets!Frames)
          BY <1>1 DEF Sockets!StackInv
        <4> QED BY <1>1, <2>2, <4>1, Returned
      <3> QED BY <3>1, <3>2
    <2> QED BY <1>1, <2>2, <2>3 DEF OwnNext, AllOwn, OneConnection
  <1> QED BY <1>3, <1>4

\* gti2SocketError is not called, and nothing that is used is not there.
LEMMA OwnNoFault ==
  ASSUME Sockets!SocketsAssumption, Sockets!SocketsInv, Sockets!OnlyItsOwn
  PROVE  /\ ~Sockets!SocketErrorStart /\ ~Sockets!SocketErrorClosed /\ ~Sockets!SocketErrorTold
         /\ ~Sockets!UseAfterFree
  <1>1. stack # <<>> =>
          /\ socket = "open" /\ Sockets!Top.c \notin freed /\ Sockets!Top.fn # "SocketError"
          /\ Sockets!Top.pc \in {"map", "connections"} => Sockets!Top.i <= Len(bucket)
    BY Owned
  <1>2. stack # <<>> => Sockets!Top.i \in Int
    BY TopIs DEF Sockets!SocketsInv
  <1>3. Len(bucket) \in Nat
    BY DEF Sockets!SocketsInv, Sockets!TableInv
  <1>4. ~Sockets!UseAfterFree
    BY <1>1, <1>2, <1>3 DEF Sockets!UseAfterFree
  <1> QED BY <1>1, <1>4 DEF Sockets!SocketErrorStart, Sockets!SocketErrorClosed, Sockets!SocketErrorTold, Sockets!Running

\* gt2Think is called at the outset only; its walk over the table has what is left before it.
LEMMA OwnThink ==
  ASSUME Sockets!SocketsAssumption, Sockets!SocketsInv, Sockets!OnlyItsOwn,
         \/ Sockets!ThinkReceive \/ Sockets!ThinkReceived \/ Sockets!ThinkConnection
         \/ Sockets!ThinkTimedOut \/ Sockets!ThinkFree
  PROVE  OwnNext
  <1> DEFINE t == Sockets!Top
             r == Sockets!Front(stack)
  <1>1. /\ Sockets!StackInv /\ Sockets!TableInv /\ Sockets!TypeOK
        /\ ~close /\ ret /\ socket = "open" /\ stack # <<>>
        /\ t.fn = "Think" /\ t.c \notin freed /\ Len(stack) = 1
        /\ t.pc # "timedOut" => t.c = Sockets!None
        /\ t.pc = "timedOut" => t.i - 1 <= Len(bucket)
        /\ t.pc = "connections" => t.i <= Len(bucket)
    BY Owned DEF Sockets!SocketsInv, Sockets!ThinkReceive, Sockets!ThinkReceived, Sockets!ThinkConnection,
                 Sockets!ThinkTimedOut, Sockets!ThinkFree, Sockets!Running
  <1>2. /\ UNCHANGED <<socket, close>> /\ (UNCHANGED freed \/ Sockets!ThinkTimedOut \/ Sockets!ThinkFree)
    BY DEF Sockets!ThinkReceive, Sockets!ThinkReceived, Sockets!ThinkConnection, Sockets!ThinkTimedOut,
           Sockets!ThinkFree, Sockets!objects
  <1>3. /\ Len(bucket) \in Nat /\ \A d \in Sockets!ToSet(bucket) : d \in Conn \ freed
        /\ \A i \in 1 .. Len(bucket) : bucket[i] \in Sockets!ToSet(bucket) /\ state[bucket[i]] # "Closed"
    <2>1. /\ bucket \in Seq(Conn) /\ \A i \in DOMAIN bucket : state[bucket[i]] # "Closed"
          /\ \A c \in freed : state[c] = "Closed"
      BY <1>1 DEF Sockets!TableInv
    <2> QED BY <2>1 DEF Sockets!ToSet
  <1>4. t.i \in Int
    BY <1>1, TopIs
  <1>5. /\ {"start", "received", "connections", "timedOut", "free"} \subseteq Sockets!Points /\ 0 \in Int
        /\ "Callback" \in Sockets!Functions
    BY DEF Sockets!Points, Sockets!Functions
  <1>6. \A pc \in Sockets!Points, i \in Int :
          /\ Sockets!Goto(pc, i) \in Sockets!Frames /\ Sockets!Goto(pc, i).fn = "Think"
          /\ Sockets!Goto(pc, i).c = t.c /\ Sockets!Goto(pc, i).pc = pc /\ Sockets!Goto(pc, i).i = i
    BY <1>1, TopIs
  <1>7. /\ \A c \in Conn : state[c] = "Closed" => state'[c] = "Closed"
        /\ freed' \in SUBSET Conn /\ Sockets!None \notin Conn
    BY TableKept DEF Sockets!Step, Sockets!SocketsAssumption
  <1> DEFINE ready(g) == /\ g \in Sockets!Frames /\ g.fn = "Think" /\ g.c \notin freed'
                         /\ g.c = Sockets!None \/ g.pc = "timedOut"
                         /\ g.pc # "map"
                         /\ g.pc = "timedOut" =>
                              g.c \in Conn /\ state'[g.c] = "Closed" /\ g.i - 1 <= Len(bucket')
                         /\ g.pc = "connections" => stack' = Append(r, g) /\ g.i <= Len(bucket')
  <1>8. ASSUME NEW g, ready(g), freed' = freed \/ Sockets!ThinkTimedOut,
               \/ stack' = Append(r, g)
               \/ \E d \in Conn \ freed' : /\ stack' = Append(Append(r, g), Sockets!Frame("Callback", d))
                                           /\ g.c \in {d, Sockets!None}
        PROVE  AllOwn' /\ OneConnection'
    <2>1. g \in Sockets!Frames
      BY <1>8
    <2>2. \A k \in 1 .. (1 - 1) : PassesOn(k) /\ stack[k].c = Sockets!None
      OBVIOUS
    <2>3. CASE stack' = Append(r, g)
      <3>1. stack'[1] = g /\ Len(stack') = 1
        BY <1>1, <2>1, <2>3, FormOf
      <3>2. Sockets!Own(1)'
        BY <1>8, <3>1 DEF Sockets!Own
      <3>3. g.fn = Sockets!Top.fn
        BY <1>1, <1>8
      <3> HIDE DEF ready
      <3> QED BY <1>1, <1>7, <2>1, <2>2, <2>3, <3>2, <3>3, OwnGoesOn
    <2>4. ASSUME NEW d \in Conn \ freed', stack' = Append(Append(r, g), Sockets!Frame("Callback", d)),
                 g.c \in {d, Sockets!None}
          PROVE  AllOwn' /\ OneConnection'
      <3> DEFINE f == Sockets!Frame("Callback", d)
      <3>1. f \in Sockets!Frames /\ f.c = d
        BY <1>5, FrameIs
      <3>2. Len(stack') = 2 /\ stack'[1] = g /\ stack'[2] = f
        <4>1. 1 + 1 = 2
          OBVIOUS
        <4> HIDE DEF f, ready
        <4> QED BY <1>1, <2>1, <2>4, <3>1, <4>1, FormOf DEF f
      <3>3. Sockets!Own(2)'
        BY <1>5, <3>2, StartsOwn
      <3> HIDE DEF f
      <3>4. g.pc # "connections"
        <4>1. g.pc = "connections" => Len(stack') = 1
          BY <1>1, <1>8, <2>1, FormOf
        <4> QED BY <3>2, <4>1
      <3>5. Sockets!Own(1)'
        BY <1>8, <3>2, <3>4 DEF Sockets!Own
      <3>6. Sockets!Own(1 + 1)'
        <4>1. 1 + 1 = 2
          OBVIOUS
        <4> QED BY <3>3, <4>1
      <3>7. f.c \in {g.c, Sockets!None} \/ g.c = Sockets!None
        BY <2>4, <3>1
      <3>8. g.fn = Sockets!Top.fn
        BY <1>1, <1>8
      <3> HIDE DEF ready
      <3> QED BY <1>1, <1>7, <1>8, <2>1, <2>2, <2>4, <3>1, <3>5, <3>6, <3>7, <3>8, OwnGoesOn DEF f
    <2> QED BY <1>8, <2>3, <2>4
  <1>9. ASSUME NEW pc \in {"start", "connections", "free"}, NEW i \in Int, Sockets!Continue(pc, i),
               freed' = freed, t.c = Sockets!None, pc = "connections" => i <= Len(bucket')
        PROVE  AllOwn' /\ OneConnection' /\ ret'
    <2> DEFINE g == Sockets!Goto(pc, i)
    <2>1. stack' = Append(r, g) /\ ret' = ret
      BY <1>9 DEF Sockets!Continue
    <2>2. g \in Sockets!Frames /\ g.fn = "Think" /\ g.c = t.c /\ g.pc = pc /\ g.i = i
      BY <1>5, <1>6, <1>9
    <2> HIDE DEF g
    <2>3. ready(g)
      BY <1>1, <1>9, <2>1, <2>2
    <2> HIDE DEF ready
    <2> QED BY <1>1, <1>8, <1>9, <2>1, <2>3
  <1>10. CASE Sockets!ThinkReceive
    <2>1. t.c = Sockets!None /\ freed' = freed
      BY <1>1, <1>10 DEF Sockets!ThinkReceive, Sockets!Running, Sockets!objects
    <2>2. CASE Sockets!Continue("connections", Len(bucket)) /\ UNCHANGED Sockets!objects
      <3>1. Len(bucket) \in Int /\ Len(bucket) <= Len(bucket')
        BY <1>3, <2>2 DEF Sockets!objects
      <3>2. AllOwn' /\ OneConnection' /\ ret'
        BY <1>9, <2>1, <2>2, <3>1
      <3> QED BY <1>1, <1>2, <3>2 DEF OwnNext
    <2>3. ASSUME NEW d \in Sockets!ToSet(bucket), Sockets!Call("received", "Callback", d) PROVE OwnNext
      <3> DEFINE g == Sockets!Goto("received", t.i)
      <3>1. stack' = Append(Append(r, g), Sockets!Frame("Callback", d)) /\ ret' = ret
        BY <2>3 DEF Sockets!Call
      <3>2. g \in Sockets!Frames /\ g.fn = "Think" /\ g.c = t.c /\ g.pc = "received"
        BY <1>4, <1>5, <1>6
      <3> HIDE DEF g
      <3>3. ready(g)
        BY <1>1, <2>1, <3>2
      <3>4. d \in Conn \ freed' /\ g.c \in {d, Sockets!None}
        BY <1>3, <2>1, <3>2
      <3> HIDE DEF ready
      <3>5. AllOwn' /\ OneConnection'
        BY <1>8, <2>1, <3>1, <3>3, <3>4
      <3> QED BY <1>1, <1>2, <3>1, <3>5 DEF OwnNext
    <2> QED BY <1>10, <2>2, <2>3 DEF Sockets!ThinkReceive, Sockets!CallBack
  <1>11. CASE Sockets!ThinkReceived
    <2>1. Sockets!Continue("start", 0) /\ t.c = Sockets!None /\ freed' = freed
      BY <1>1, <1>11 DEF Sockets!ThinkReceived, Sockets!Running, Sockets!objects
    <2>2. AllOwn' /\ OneConnection' /\ ret'
      BY <1>5, <1>9, <2>1
    <2> QED BY <1>1, <1>2, <2>2 DEF OwnNext
  <1>12. CASE Sockets!ThinkConnection
    <2>1. t.c = Sockets!None /\ freed' = freed /\ t.i <= Len(bucket)
      BY <1>1, <1>12 DEF Sockets!ThinkConnection, Sockets!Running, Sockets!objects
    <2>2. CASE Sockets!Continue("free", 0)
      <3>1. AllOwn' /\ OneConnection' /\ ret'
        BY <1>5, <1>9, <2>1, <2>2
      <3> QED BY <1>1, <1>2, <3>1 DEF OwnNext
    <2>3. CASE Sockets!Continue("connections", t.i - 1) /\ UNCHANGED Sockets!objects
      <3>1. t.i - 1 \in Int /\ t.i - 1 <= Len(bucket')
        BY <1>3, <1>4, <2>1, <2>3 DEF Sockets!objects
      <3>2. AllOwn' /\ OneConnection' /\ ret'
        BY <1>9, <2>1, <2>3, <3>1
      <3> QED BY <1>1, <1>2, <3>2 DEF OwnNext
    <2> DEFINE d == bucket[t.i]
               g == [Sockets!Goto("timedOut", t.i) EXCEPT !.c = d]
               f == Sockets!Frame("Callback", d)
    <2>4. CASE /\ t.i \in 1 .. Len(bucket) /\ Sockets!ConnectionClosed(d)
               /\ stack' = Append(Append(r, g), f) /\ ret' = ret
      <3>1. d \in Conn \ freed /\ Closing(d)
        BY <1>3, <2>1, <2>4 DEF Closing
      <3>2. state'[d] = "Closed" /\ Len(bucket') = Len(bucket) - 1
        BY <1>1, <3>1, Closes
      <3> HIDE DEF d
      <3>3. g \in Sockets!Frames /\ g.fn = "Think" /\ g.c = d /\ g.pc = "timedOut" /\ g.i = t.i
        <4> DEFINE h == Sockets!Goto("timedOut", t.i)
        <4>1. h \in Sockets!Frames /\ h.fn = "Think" /\ h.pc = "timedOut" /\ h.i = t.i
          BY <1>4, <1>5, <1>6
        <4> HIDE DEF h
        <4>2. /\ [h EXCEPT !.c = d] \in Sockets!Frames /\ [h EXCEPT !.c = d].fn = "Think"
              /\ [h EXCEPT !.c = d].c = d /\ [h EXCEPT !.c = d].pc = "timedOut" /\ [h EXCEPT !.c = d].i = t.i
          BY <3>1, <4>1 DEF Sockets!Frames
        <4> QED BY <4>2 DEF h
      <3>4. g.i - 1 <= Len(bucket') /\ d \in Conn /\ d \notin freed'
        BY <1>3, <1>4, <2>1, <3>1, <3>2, <3>3
      <3> HIDE DEF g
      <3>5. ready(g)
        BY <3>2, <3>3, <3>4
      <3> HIDE DEF ready
      <3>6. AllOwn' /\ OneConnection'
        BY <1>8, <2>1, <2>4, <3>3, <3>4, <3>5
      <3> QED BY <1>1, <1>2, <2>4, <3>6 DEF OwnNext
    <2> QED BY <1>12, <2>2, <2>3, <2>4 DEF Sockets!ThinkConnection
  <1>13. CASE Sockets!ThinkTimedOut
    <2> DEFINE g == [Sockets!Goto("connections", t.i - 1) EXCEPT !.c = Sockets!None]
    <2>1. t.pc = "timedOut" /\ stack' = Append(r, g) /\ ret' = ret /\ bucket' = bucket
      BY <1>1, <1>13 DEF Sockets!ThinkTimedOut, Sockets!Running
    <2>2. g \in Sockets!Frames /\ g.fn = "Think" /\ g.c = Sockets!None /\ g.pc = "connections" /\ g.i = t.i - 1
      <3> DEFINE h == Sockets!Goto("connections", t.i - 1)
      <3>1. h \in Sockets!Frames /\ h.fn = "Think" /\ h.pc = "connections" /\ h.i = t.i - 1
        <4>1. t.i - 1 \in Int
          BY <1>4
        <4> QED BY <1>5, <1>6, <4>1
      <3> HIDE DEF h
      <3>2. /\ [h EXCEPT !.c = Sockets!None] \in Sockets!Frames /\ [h EXCEPT !.c = Sockets!None].fn = "Think"
            /\ [h EXCEPT !.c = Sockets!None].c = Sockets!None /\ [h EXCEPT !.c = Sockets!None].pc = "connections"
            /\ [h EXCEPT !.c = Sockets!None].i = t.i - 1
        BY <3>1 DEF Sockets!Frames
      <3> QED BY <3>2 DEF h
    <2> HIDE DEF g
    <2>3. g.c \notin freed' /\ g.i <= Len(bucket')
      BY <1>1, <1>7, <2>1, <2>2
    <2>4. ready(g)
      BY <2>1, <2>2, <2>3
    <2> HIDE DEF ready
    <2>5. AllOwn' /\ OneConnection'
      BY <1>8, <1>13, <2>1, <2>4
    <2> QED BY <1>1, <1>2, <2>1, <2>5 DEF OwnNext
  <1>14. CASE Sockets!ThinkFree
    <2>1. stack' = r /\ ret' = TRUE
      BY <1>14 DEF Sockets!ThinkFree, Sockets!Return
    <2>2. DOMAIN stack' = {} /\ stack' = <<>>
      <3>1. DOMAIN stack' = 1 .. 0 /\ Len(stack') = 0
        <4>1. 1 - 1 = 0
          OBVIOUS
        <4> QED BY <1>1, <2>1, <4>1, FormOf
      <3>2. stack' \in Seq(Sockets!Frames)
        <4>1. stack \in Seq(Sockets!Frames)
          BY <1>1 DEF Sockets!StackInv
        <4> QED BY <1>1, <2>1, <4>1, Returned
      <3> QED BY <3>1, <3>2
    <2> QED BY <1>1, <1>2, <2>1, <2>2 DEF OwnNext, AllOwn, OneConnection
  <1> QED BY <1>10, <1>11, <1>12, <1>13, <1>14

\* All of what such a program relies on goes on to hold.
LEMMA OwnKept ==
  ASSUME Sockets!SocketsAssumption, Sockets!SocketsInv, Sockets!Step, UNCHANGED may
  PROVE  Sockets!OwnInv'
  <1> SUFFICES ASSUME Sockets!OnlyItsOwn
               PROVE  fault' = Sockets!None /\ OwnNext
    BY DEF Sockets!OwnInv, Sockets!OnlyItsOwn, OwnNext, AllOwn, OneConnection
  <1>1. fault = Sockets!None
    BY Owned
  <1>2. ASSUME NEW fn \in Sockets!Calls, Sockets!Program(fn) PROVE fault' = fault /\ OwnNext
    BY <1>2, OwnProgram DEF Sockets!Program
  <1>3. CASE Sockets!ReturnFromCallback
    BY <1>1, <1>3, OwnCallbackEnds DEF Sockets!ReturnFromCallback
  <1>4. CASE Sockets!CloseHardStart \/ Sockets!CloseHardSent
    BY <1>1, <1>4, OwnCloseHard DEF Sockets!CloseHardStart, Sockets!CloseHardSent
  <1>5. CASE Sockets!CloseHardTold
    BY <1>1, <1>5, OwnCloseHardTold DEF Sockets!CloseHardTold
  <1>6. CASE Sockets!MapStart \/ Sockets!MapOne
    BY <1>1, <1>6, OwnCloseAll DEF Sockets!MapStart, Sockets!MapOne
  <1>7. CASE Sockets!CloseSocketStart \/ Sockets!CloseSocketClosed
    BY <1>1, <1>7, OwnCloseSocket DEF Sockets!CloseSocketStart, Sockets!CloseSocketClosed
  <1>8. CASE \/ Sockets!ThinkReceive \/ Sockets!ThinkReceived \/ Sockets!ThinkConnection
             \/ Sockets!ThinkTimedOut \/ Sockets!ThinkFree
    BY <1>1, <1>8, OwnThink DEF Sockets!ThinkReceive, Sockets!ThinkReceived, Sockets!ThinkConnection,
                          Sockets!ThinkTimedOut, Sockets!ThinkFree
  <1> QED
    BY <1>1, <1>2, <1>3, <1>4, <1>5, <1>6, <1>7, <1>8, OwnNoFault DEF Sockets!Step

\* The types of what is left.
LEMMA TypesKept ==
  ASSUME Sockets!SocketsAssumption, Sockets!SocketsInv, Sockets!Step
  PROVE  error' \in BOOLEAN /\ ret' \in BOOLEAN /\ fault' \in {Sockets!None, "socket", "connection", "element"}
  <1>1. error \in BOOLEAN /\ ret \in BOOLEAN /\ fault \in {Sockets!None, "socket", "connection", "element"}
    BY DEF Sockets!SocketsInv, Sockets!TypeOK
  <1>2. fault' \in {Sockets!None, "socket", "connection", "element"}
    BY <1>1, StackMoves
  <1> USE DEF Sockets!objects, Sockets!Return, Sockets!Continue, Sockets!CallBack, Sockets!Call
  <1>3. ASSUME NEW fn \in Sockets!Calls, Sockets!Program(fn) PROVE error' \in BOOLEAN /\ ret' \in BOOLEAN
    BY <1>1, <1>3 DEF Sockets!Program
  <1>4. CASE Sockets!ReturnFromCallback \/ Sockets!CloseHardStart \/ Sockets!CloseHardSent
             \/ Sockets!CloseHardTold
    BY <1>1, <1>4 DEF Sockets!ReturnFromCallback, Sockets!CloseHardStart, Sockets!CloseHardSent,
                      Sockets!CloseHardTold
  <1>5. CASE Sockets!MapStart \/ Sockets!MapOne \/ Sockets!CloseSocketStart \/ Sockets!CloseSocketClosed
    BY <1>1, <1>5 DEF Sockets!MapStart, Sockets!MapOne, Sockets!CloseSocketStart, Sockets!CloseSocketClosed
  <1>6. CASE Sockets!SocketErrorStart \/ Sockets!SocketErrorClosed \/ Sockets!SocketErrorTold
    BY <1>1, <1>6 DEF Sockets!SocketErrorStart, Sockets!SocketErrorClosed, Sockets!SocketErrorTold
  <1>7. CASE Sockets!ThinkReceive \/ Sockets!ThinkReceived \/ Sockets!ThinkConnection
             \/ Sockets!ThinkTimedOut \/ Sockets!ThinkFree
    BY <1>1, <1>7 DEF Sockets!ThinkReceive, Sockets!ThinkReceived, Sockets!ThinkConnection,
                      Sockets!ThinkTimedOut, Sockets!ThinkFree
  <1>8. CASE Sockets!UseAfterFree
    BY <1>1, <1>8 DEF Sockets!UseAfterFree, Sockets!Fault
  <1> QED BY <1>2, <1>3, <1>4, <1>5, <1>6, <1>7, <1>8 DEF Sockets!Step

\* Every step keeps the invariant.
LEMMA SocketsKept ==
  ASSUME Sockets!SocketsAssumption, Sockets!SocketsInv, Sockets!Next
  PROVE  Sockets!SocketsInv'
  <1>1. Sockets!Step /\ UNCHANGED may /\ may \in Sockets!Permissions
    BY DEF Sockets!Next, Sockets!SocketsInv
  <1>2. told' \in [Conn -> Nat] /\ Sockets!ToldInv'
    BY <1>1, ToldKept
  <1>3. Sockets!StackInv'
    BY <1>1, <1>2, StackKept
  <1>4. /\ Sockets!TableInv' /\ state' \in [Conn -> {"Connecting", "Connected", "Closed"}]
        /\ shut' \in SUBSET Conn /\ freed' \in SUBSET Conn
    BY <1>1, TableKept
  <1>5. /\ Sockets!LevelInv' /\ level' \in 0 .. MaxDepth /\ clevel' \in [Conn -> 0 .. MaxDepth]
        /\ close' \in BOOLEAN /\ socket' \in {"open", "freed"}
    BY <1>1, <1>3, LevelsKept
  <1>6. Sockets!OwnInv'
    BY <1>1, OwnKept
  <1>7. error' \in BOOLEAN /\ ret' \in BOOLEAN /\ fault' \in {Sockets!None, "socket", "connection", "element"}
    BY <1>1, TypesKept
  <1>8. (Sockets!ToSet(bucket) \subseteq Conn)'
    <2>1. bucket' \in Seq(Conn)
      BY <1>4 DEF Sockets!TableInv
    <2>2. \A i \in DOMAIN bucket' : bucket'[i] \in Conn
      BY <2>1
    <2> QED BY <2>2 DEF Sockets!ToSet
  <1>9. Sockets!TypeOK'
    BY <1>4, <1>5, <1>7, <1>8 DEF Sockets!TypeOK
  <1> QED BY <1>1, <1>2, <1>3, <1>4, <1>5, <1>6, <1>9 DEF Sockets!SocketsInv

\* A new socket, with any connections, satisfies it.
LEMMA SocketsStart ==
  ASSUME Sockets!SocketsAssumption, Sockets!Init
  PROVE  Sockets!SocketsInv
  <1>1. /\ may \in Sockets!Permissions
        /\ socket = "open" /\ close = FALSE /\ error = FALSE /\ level = 0
        /\ bucket \in Sockets!SetToSeqs(Conn)
        /\ state \in [Conn -> {"Connecting", "Connected"}]
        /\ shut = {} /\ freed = {}
        /\ clevel = [c \in Conn |-> 0] /\ told = clevel
        /\ stack = <<>> /\ ret = TRUE /\ fault = Sockets!None
    BY DEF Sockets!Init
  <1>2. bucket \in Seq(Conn) /\ \A i, j \in DOMAIN bucket : bucket[i] = bucket[j] => i = j
    <2> DEFINE n == Cardinality(Conn)
    <2>1. n \in Nat
      <3>1. IsFiniteSet(Conn)
        BY DEF Sockets!SocketsAssumption, Sockets!IsFiniteSet, IsFiniteSet
      <3> QED BY <3>1, FS_CardinalityType
    <2>2. /\ bucket \in [1 .. n -> Conn]
          /\ \A i, j \in 1 .. n : i # j => bucket[i] # bucket[j]
      <3>1. Sockets!Cardinality(Conn) = n
        BY SameCardinality
      <3> HIDE DEF n
      <3> QED BY <1>1, <3>1 DEF Sockets!SetToSeqs
    <2> HIDE DEF n
    <2> QED BY <2>1, <2>2
  <1>3. Sockets!TableInv
    <2>1. \A i \in DOMAIN bucket : bucket[i] \in Conn
      BY <1>2
    <2>2. \A c \in Conn : state[c] # "Closed"
      BY <1>1
    <2> QED BY <1>1, <1>2, <2>1, <2>2 DEF Sockets!TableInv
  <1>4. Sockets!TypeOK
    <2>1. Sockets!ToSet(bucket) \subseteq Conn
      <3>1. \A i \in DOMAIN bucket : bucket[i] \in Conn
        BY <1>2
      <3> QED BY <3>1 DEF Sockets!ToSet
    <2>2. 0 \in 0 .. MaxDepth
      BY DEF Sockets!SocketsAssumption
    <2>3. clevel \in [Conn -> 0 .. MaxDepth] /\ state \in [Conn -> {"Connecting", "Connected", "Closed"}]
      BY <1>1, <2>2
    <2> QED BY <1>1, <2>1, <2>2, <2>3 DEF Sockets!TypeOK
  <1>5. Sockets!StackInv
    BY <1>1 DEF Sockets!StackInv
  <1>6. \A T : Sockets!Cardinality(Sockets!Places(stack, T)) = 0
    <2>1. \A T : Count(stack, T) = 0
      BY <1>1, CountEmpty
    <2> QED BY <2>1, SameCardinality DEF Count
  <1>7. Sockets!LevelInv
    <2>1. level = Sockets!Cardinality(Sockets!Places(stack, Sockets!Callbacks))
      BY <1>1, <1>6
    <2>2. \A c \in Conn : clevel[c] = Sockets!Cardinality(Sockets!Places(stack, Sockets!CallbacksOf(c)))
      BY <1>1, <1>6
    <2>3. Sockets!KeptInCallback
      BY <1>1 DEF Sockets!KeptInCallback
    <2> QED BY <1>1, <2>1, <2>2, <2>3 DEF Sockets!LevelInv
  <1>8. Sockets!ToldInv
    <2>1. \A c \in Conn : told[c] = 0 /\ Sockets!Cardinality(Sockets!Places(stack, Sockets!Sending(c))) = 0
      BY <1>1, <1>6
    <2> QED BY <2>1 DEF Sockets!ToldInv
  <1>9. Sockets!OwnInv
    BY <1>1 DEF Sockets!OwnInv
  <1> QED BY <1>1, <1>3, <1>4, <1>5, <1>7, <1>8, <1>9 DEF Sockets!SocketsInv

\* What it says when nothing of it changes.
LEMMA SocketsStay ==
  ASSUME Sockets!SocketsInv, UNCHANGED <<sockets, may, state, told>>
  PROVE  Sockets!SocketsInv'
  <1> USE DEF sockets
  <1>1. Sockets!TypeOK' /\ Sockets!StackInv' /\ Sockets!TableInv'
    BY DEF Sockets!SocketsInv, Sockets!TypeOK, Sockets!StackInv, Sockets!TableInv
  <1>2. Sockets!LevelInv' /\ Sockets!ToldInv'
    BY DEF Sockets!SocketsInv, Sockets!LevelInv, Sockets!ToldInv, Sockets!KeptInCallback
  <1>3. Sockets!OwnInv'
    BY DEF Sockets!SocketsInv, Sockets!OwnInv, Sockets!OnlyItsOwn, Sockets!Own
  <1>4. (may \in Sockets!Permissions)'
    BY DEF Sockets!SocketsInv
  <1> QED BY <1>1, <1>2, <1>3, <1>4 DEF Sockets!SocketsInv

\* The invariant says what the run checks.
LEMMA SocketsSay ==
  ASSUME Sockets!SocketsInv
  PROVE  /\ Sockets!TypeOK /\ Sockets!NothingUsedAfterFree /\ Sockets!KeptInCallback
         /\ Sockets!CloseIsDone /\ Sockets!ToldOnce
  <1>1. Sockets!NothingUsedAfterFree
    BY DEF Sockets!SocketsInv, Sockets!OwnInv, Sockets!NothingUsedAfterFree
  <1>2. Sockets!CloseIsDone
    <2> SUFFICES ASSUME stack = <<>>, socket = "open", fault = Sockets!None, close PROVE FALSE
      BY DEF Sockets!CloseIsDone
    <2>1. level > 0 /\ level = Sockets!Cardinality(Sockets!Places(stack, Sockets!Callbacks))
      BY DEF Sockets!SocketsInv, Sockets!LevelInv
    <2>2. Count(stack, Sockets!Callbacks) = 0
      BY CountEmpty
    <2> QED BY <2>1, <2>2, SameCardinality DEF Count
  <1>3. Sockets!ToldOnce
    <2> SUFFICES ASSUME NEW c \in Conn PROVE told[c] <= 1
      BY DEF Sockets!ToldOnce
    <2> DEFINE T == Sockets!Sending(c)
    <2>1. stack \in Seq(Sockets!Frames) /\ told[c] \in Nat
      BY DEF Sockets!SocketsInv, Sockets!StackInv
    <2>2. told[c] + Sockets!Cardinality(Sockets!Places(stack, T)) <= IF state[c] = "Closed" THEN 1 ELSE 0
      BY DEF Sockets!SocketsInv, Sockets!ToldInv
    <2> HIDE DEF T
    <2>3. Sockets!Cardinality(Sockets!Places(stack, T)) \in Nat
      BY <2>1, Counted, SameCardinality DEF Count
    <2> QED BY <2>1, <2>2, <2>3
  <1> QED BY <1>1, <1>2, <1>3 DEF Sockets!SocketsInv, Sockets!LevelInv

\* Nothing that was given back or taken out of the table is used, what a callback was called with is
\* there until it returns, a close in a callback is done when the program is returned to, and a
\* connection is told once of its end: for every number of connections, depth of calls and program
\* (gt2Main.c, gt2Socket.c, gt2Connection.c, gt2Callback.c).
THEOREM NothingUsedAfterFreeHolds ==
  ASSUME Sockets!SocketsAssumption PROVE FairSpec => []NothingUsedAfterFree
  <1> DEFINE SInv == part = "callbacks" => Sockets!SocketsInv
  <1>1. Begins => SInv
    BY SocketsStart DEF Begins
  <1>2. SInv /\ [Moves]_gt2 => SInv'
    <2> SUFFICES ASSUME SInv, [Moves]_gt2, part' = "callbacks" PROVE Sockets!SocketsInv'
      OBVIOUS
    <2>1. CASE OfSockets(Sockets!Next)
      BY <2>1, SocketsKept DEF OfSockets
    <2>2. CASE UNCHANGED gt2
      BY <2>2, SocketsStay DEF gt2
    <2>3. part # "callbacks" /\ part' = part => FALSE
      OBVIOUS
    <2>4. CASE OfMessages(Next) \/ OfConnection(Life!Next)
      BY <2>3, <2>4 DEF OfMessages, OfConnection
    <2> QED BY <2>1, <2>2, <2>4 DEF Moves
  <1>3. SInv => NothingUsedAfterFree
    BY SocketsSay DEF NothingUsedAfterFree
  <1> QED BY <1>1, <1>2, <1>3, PTL DEF FairSpec

-----------------------------------------------------------------------------
(***************************************************************************)
(* Connections: types                                                      *)
(***************************************************************************)

\* There are two ends.
LEMMA EndsAre ==
  ASSUME NEW e \in Life!End
  PROVE  /\ Life!Other(e) \in Life!End /\ Life!Other(e) # e /\ Life!Other(Life!Other(e)) = e
         /\ \A d \in Life!End : d = e \/ d = Life!Other(e)
  BY DEF Life!End, Life!Other

\* A message more.
LEMMA Said ==
  ASSUME NEW S, NEW s \in Seq(S), NEW x \in S
  PROVE  /\ Append(s, x) \in Seq(S) /\ Len(Append(s, x)) = Len(s) + 1 /\ Len(s) \in Nat
         /\ DOMAIN s = 1 .. Len(s) /\ DOMAIN Append(s, x) = 1 .. (Len(s) + 1)
         /\ \A k \in 1 .. Len(s) : Append(s, x)[k] = s[k]
         /\ Append(s, x)[Len(s) + 1] = x
  OBVIOUS

\* What Reply and Send say.
Says(e, m) == sentBy' = [sentBy EXCEPT ![e] = Append(@, m)]

\* An end that replies or sends says a message of that kind.
LEMMA Speaks ==
  ASSUME Life!TypeOK, NEW e \in Life!End, NEW kind \in Life!Kinds, NEW re \in Nat, NEW esn \in Nat,
         Life!Reply(e, kind, re, esn)
  PROVE  \E m \in Life!Messages : /\ m.kind = kind /\ m.from = id[e] /\ m.re = re /\ m.esn = esn
                                  /\ Says(e, m)
  <1> DEFINE m == [kind |-> kind, from |-> id[e], re |-> re, esn |-> esn]
  <1>1. m \in Life!Messages
    BY DEF Life!Messages, Life!TypeOK
  <1>2. Says(e, m)
    BY DEF Life!Reply, Says
  <1> QED BY <1>1, <1>2

\* What was said stays, and a message comes after it.
LEMMA SaidTypes ==
  ASSUME Life!TypeOK, NEW e \in Life!End, NEW m \in Life!Messages, Says(e, m)
  PROVE  /\ sentBy' \in [Life!End -> Seq(Life!Messages)]
         /\ sentBy'[Life!Other(e)] = sentBy[Life!Other(e)]
         /\ sentBy'[e] = Append(sentBy[e], m)
         /\ Len(sentBy'[e]) = Len(sentBy[e]) + 1 /\ Len(sentBy[e]) \in Nat
         /\ DOMAIN sentBy[e] = 1 .. Len(sentBy[e]) /\ DOMAIN sentBy'[e] = 1 .. (Len(sentBy[e]) + 1)
         /\ \A k \in 1 .. Len(sentBy[e]) : sentBy'[e][k] = sentBy[e][k]
         /\ sentBy'[e][Len(sentBy[e]) + 1] = m
  <1>1. sentBy \in [Life!End -> Seq(Life!Messages)] /\ sentBy[e] \in Seq(Life!Messages)
    BY DEF Life!TypeOK
  <1>2. sentBy' \in [Life!End -> Seq(Life!Messages)] /\ sentBy'[e] = Append(sentBy[e], m)
    BY <1>1, Said DEF Says
  <1>3. sentBy'[Life!Other(e)] = sentBy[Life!Other(e)]
    BY <1>1, EndsAre DEF Says
  <1> QED BY <1>1, <1>2, <1>3, Said

\* What an end is told is told at its end of the sequence.
LEMMA TellTypes ==
  ASSUME Life!TypeOK, NEW e \in Life!End, NEW what \in Life!Notices, Life!Tell(e, what)
  PROVE  /\ told' \in [Life!End -> Seq(Life!Notices)] /\ told'[Life!Other(e)] = told[Life!Other(e)]
         /\ told'[e] = IF Life!HasCallbacks(e) THEN Append(told[e], what) ELSE told[e]
  <1>1. told \in [Life!End -> Seq(Life!Notices)] /\ told[e] \in Seq(Life!Notices)
    BY DEF Life!TypeOK
  <1>2. told'[e] = IF Life!HasCallbacks(e) THEN Append(told[e], what) ELSE told[e]
    BY <1>1 DEF Life!Tell
  <1>3. told'[e] \in Seq(Life!Notices)
    BY <1>1, <1>2, Said
  <1> QED BY <1>1, <1>2, <1>3, EndsAre DEF Life!Tell

\* A connection that ends in an error.
LEMMA ErrorTypes ==
  ASSUME Life!TypeOK, NEW e \in Life!End, Life!ConnectionError(e)
  PROVE  /\ state' = [state EXCEPT ![e] = "None"]
         /\ told' \in [Life!End -> Seq(Life!Notices)] /\ told'[Life!Other(e)] = told[Life!Other(e)]
         /\ \/ state[e] \in Life!Negotiating /\ e = "client" /\ told'[e] = Append(told[e], "failed")
            \/ state[e] \in Life!Negotiating /\ e = "server" /\ told' = told
            \/ /\ state[e] \notin Life!Negotiating
               /\ told'[e] = IF Life!HasCallbacks(e) THEN Append(told[e], "closed") ELSE told[e]
  <1>1. state' = [state EXCEPT ![e] = "None"]
    BY DEF Life!ConnectionError
  <1>2. CASE state[e] \in Life!Negotiating /\ e = "client" /\ Life!Tell(e, "failed")
    BY <1>1, <1>2, TellTypes DEF Life!Notices, Life!HasCallbacks
  <1>3. CASE state[e] \in Life!Negotiating /\ e = "server" /\ UNCHANGED told
    BY <1>1, <1>3 DEF Life!TypeOK
  <1>4. CASE state[e] \notin Life!Negotiating /\ Life!Tell(e, "closed")
    BY <1>1, <1>4, TellTypes DEF Life!Notices
  <1> QED BY <1>2, <1>3, <1>4 DEF Life!ConnectionError

\* What an acknowledgement leaves.
LEMMA AckTypes ==
  ASSUME Life!TypeOK, NEW e \in Life!End, NEW esn \in Nat, Life!AckUpTo(e, esn)
  PROVE  /\ acked' \in [Life!End -> Nat] /\ acked'[Life!Other(e)] = acked[Life!Other(e)]
         /\ \A d \in Life!End : acked'[d] <= Len(sentBy[d])
  <1>1. sentBy[e] \in Seq(Life!Messages) /\ Len(sentBy[e]) \in Nat
    BY DEF Life!TypeOK
  <1>2. acked' \in [Life!End -> Nat] /\ acked'[e] <= Len(sentBy[e])
    BY <1>1 DEF Life!TypeOK, Life!AckUpTo
  <1>3. acked'[Life!Other(e)] = acked[Life!Other(e)]
    BY EndsAre DEF Life!TypeOK, Life!AckUpTo
  <1> QED BY <1>2, <1>3, EndsAre DEF Life!TypeOK

\* What a message does at the end that gets it.
Greets(e, m) ==
  /\ e = "client" /\ m.kind = "ServerChallenge" /\ m.re = id[e] /\ state[e] = "AwaitingServerChallenge"
  /\ \E r \in Life!Messages : r.kind = "ClientResponse" /\ r.from = id[e] /\ r.re = m.from /\ Says(e, r)
  /\ state' = [state EXCEPT ![e] = "AwaitingAcceptance"] /\ partner' = [partner EXCEPT ![e] = m.from]
  /\ UNCHANGED <<told, received, closedMsg>>
Responds(e, m) ==
  /\ e = "server" /\ m.kind = "ClientResponse" /\ m.re = id[e] /\ state[e] = "AwaitingClientResponse"
  /\ state' = [state EXCEPT ![e] = "AwaitingAcceptReject"] /\ partner' = [partner EXCEPT ![e] = m.from]
  /\ UNCHANGED <<sentBy, told, received, closedMsg>>
Accepts(e, m) ==
  /\ e = "client" /\ m.kind = "Accept" /\ state[e] = "AwaitingAcceptance"
  /\ state' = [state EXCEPT ![e] = "Connected"] /\ told' = [told EXCEPT ![e] = Append(@, "connected")]
  /\ UNCHANGED <<partner, sentBy, received, closedMsg>>
Rejects(e, m) ==
  /\ e = "client" /\ m.kind = "Reject" /\ state[e] = "AwaitingAcceptance"
  /\ state' = [state EXCEPT ![e] = "None"] /\ told' = [told EXCEPT ![e] = Append(@, "failed")]
  /\ Life!SendClosed(e) /\ UNCHANGED <<partner, sentBy, received>>
Takes(e, m) ==
  /\ m.kind = "Data" /\ state[e] \in {"Connected", "Closing"}
  /\ received' = [received EXCEPT ![e] = Append(@, m.from)]
  /\ UNCHANGED <<state, partner, sentBy, told, closedMsg>>
Delivery(e, m) ==
  \/ m.kind # "KeepAlive" /\ state[e] \notin Life!Expects(m.kind) /\ Life!CommunicationError(e)
  \/ m.kind \in {"ServerChallenge", "ClientResponse"} /\ m.re # id[e] /\ Life!CommunicationError(e)
  \/ Greets(e, m) \/ Responds(e, m) \/ Accepts(e, m) \/ Rejects(e, m) \/ Takes(e, m)
  \/ m.kind = "Close" /\ Life!HandleClose(e)
  \/ m.kind = "KeepAlive" /\ Life!HandleKeepAlive(e)

\* Who may wait for what.
Sides ==
  /\ state["client"] \notin {"AwaitingClientChallenge", "AwaitingClientResponse", "AwaitingAcceptReject"}
  /\ state["server"] \notin {"AwaitingServerChallenge", "AwaitingAcceptance", "AwaitingClientChallenge"}

\* Every delivery is one of these.
LEMMA DeliveryIs ==
  ASSUME Life!TypeOK, Sides, NEW e \in Life!End, NEW m \in Life!Messages, state[e] # "None",
         Life!DeliverReliableMessage(e, m)
  PROVE  Delivery(e, m)
  <1>1. m.kind \in Life!Kinds /\ m.from \in Nat /\ m.re \in Nat /\ got[e] + 1 \in Nat
    BY DEF Life!Messages, Life!TypeOK
  <1>2. CASE m.kind = "KeepAlive"
    <2>1. state[e] \in Life!Expects(m.kind)
      BY <1>2 DEF Life!TypeOK, Life!Expects
    <2> QED BY <1>2, <2>1 DEF Life!DeliverReliableMessage, Delivery
  <1>3. CASE m.kind # "KeepAlive" /\ state[e] \notin Life!Expects(m.kind)
    BY <1>3 DEF Life!DeliverReliableMessage, Delivery
  <1>4. CASE state[e] \in Life!Expects(m.kind) /\ m.kind = "ServerChallenge" /\ Life!HandleServerChallenge(e, m)
    <2>1. state[e] = "AwaitingServerChallenge" /\ e = "client"
      BY <1>4 DEF Life!Expects, Sides, Life!End
    <2>2. CASE ~Life!CheckResponse(e, m)
      BY <1>4, <2>2 DEF Life!HandleServerChallenge, Life!CheckResponse, Delivery
    <2>3. CASE Life!CheckResponse(e, m)
      <3>1. \E r \in Life!Messages : r.kind = "ClientResponse" /\ r.from = id[e] /\ r.re = m.from /\ Says(e, r)
        BY <1>1, <1>4, <2>3, Speaks DEF Life!HandleServerChallenge, Life!Kinds
      <3>2. Greets(e, m)
        BY <1>4, <2>1, <2>3, <3>1 DEF Life!HandleServerChallenge, Life!CheckResponse, Greets
      <3> QED BY <3>2 DEF Delivery
    <2> QED BY <2>2, <2>3
  <1>5. CASE state[e] \in Life!Expects(m.kind) /\ m.kind = "ClientResponse" /\ Life!HandleClientResponse(e, m)
    <2>1. state[e] = "AwaitingClientResponse" /\ e = "server"
      BY <1>5 DEF Life!Expects, Sides, Life!End
    <2> QED BY <1>5, <2>1 DEF Life!HandleClientResponse, Life!CheckResponse, Delivery, Responds
  <1>6. CASE state[e] \in Life!Expects(m.kind) /\ m.kind = "Accept" /\ Life!HandleAccept(e)
    <2>1. state[e] = "AwaitingAcceptance" /\ e = "client"
      BY <1>6 DEF Life!Expects, Sides, Life!End
    <2> QED BY <1>6, <2>1 DEF Life!HandleAccept, Life!Tell, Life!HasCallbacks, Delivery, Accepts
  <1>7. CASE state[e] \in Life!Expects(m.kind) /\ m.kind = "Reject" /\ Life!HandleReject(e)
    <2>1. state[e] = "AwaitingAcceptance" /\ e = "client"
      BY <1>7 DEF Life!Expects, Sides, Life!End
    <2> QED BY <1>7, <2>1 DEF Life!HandleReject, Life!Tell, Life!HasCallbacks, Delivery, Rejects
  <1>8. CASE state[e] \in Life!Expects(m.kind) /\ m.kind = "Data" /\ Life!HandleAppReliable(e, m)
    BY <1>8 DEF Life!Expects, Life!HandleAppReliable, Delivery, Takes
  <1>9. CASE m.kind = "Close" /\ Life!HandleClose(e)
    BY <1>9 DEF Delivery
  <1> QED BY <1>2, <1>3, <1>4, <1>5, <1>6, <1>7, <1>8, <1>9 DEF Life!DeliverReliableMessage

\* What a message leaves has its types.
LEMMA DeliveryTypes ==
  ASSUME Life!TypeOK, NEW e \in Life!End, NEW m \in Life!Messages, Delivery(e, m)
  PROVE  /\ state' \in [Life!End -> Life!Negotiating \union {"None", "Connected", "Closing"}]
         /\ partner' \in [Life!End -> Nat] /\ received' \in [Life!End -> Seq(Nat)]
         /\ told' \in [Life!End -> Seq(Life!Notices)] /\ closedMsg' \subseteq Life!End
         /\ sentBy' \in [Life!End -> Seq(Life!Messages)]
         /\ \A d \in Life!End : Len(sentBy[d]) <= Len(sentBy'[d])
  <1> DEFINE Still == UNCHANGED <<partner, sentBy, received, closedMsg>>
  <1>1. m.from \in Nat
    BY DEF Life!Messages
  <1>2. \A d \in Life!End : Len(sentBy[d]) \in Nat
    BY DEF Life!TypeOK
  <1>t. /\ state \in [Life!End -> Life!Negotiating \union {"None", "Connected", "Closing"}]
        /\ partner \in [Life!End -> Nat] /\ received \in [Life!End -> Seq(Nat)]
        /\ told \in [Life!End -> Seq(Life!Notices)] /\ closedMsg \subseteq Life!End
        /\ sentBy \in [Life!End -> Seq(Life!Messages)]
    BY DEF Life!TypeOK
  <1>0. Life!ConnectionError(e) =>
          /\ state' \in [Life!End -> Life!Negotiating \union {"None", "Connected", "Closing"}]
          /\ told' \in [Life!End -> Seq(Life!Notices)]
    BY <1>t, ErrorTypes
  <1>3. CASE Life!CommunicationError(e)
    BY <1>2, <1>t, <1>0, <1>3 DEF Life!CommunicationError
  <1>4. CASE Greets(e, m)
    <2>1. PICK r \in Life!Messages : Says(e, r)
      BY <1>4 DEF Greets
    <2>2. /\ sentBy' \in [Life!End -> Seq(Life!Messages)] /\ sentBy'[Life!Other(e)] = sentBy[Life!Other(e)]
          /\ Len(sentBy'[e]) = Len(sentBy[e]) + 1
      BY <2>1, SaidTypes
    <2>3. \A d \in Life!End : Len(sentBy[d]) <= Len(sentBy'[d])
      BY <1>2, <2>2, EndsAre
    <2>4. /\ state' = [state EXCEPT ![e] = "AwaitingAcceptance"] /\ partner' = [partner EXCEPT ![e] = m.from]
          /\ UNCHANGED <<told, received, closedMsg>>
      BY <1>4 DEF Greets
    <2>5. "AwaitingAcceptance" \in Life!Negotiating
      BY DEF Life!Negotiating
    <2> QED BY <1>1, <1>t, <2>2, <2>3, <2>4, <2>5
  <1>5. CASE Responds(e, m)
    <2>1. /\ state' = [state EXCEPT ![e] = "AwaitingAcceptReject"] /\ partner' = [partner EXCEPT ![e] = m.from]
          /\ UNCHANGED <<sentBy, told, received, closedMsg>>
      BY <1>5 DEF Responds
    <2>2. "AwaitingAcceptReject" \in Life!Negotiating
      BY DEF Life!Negotiating
    <2> QED BY <1>1, <1>2, <1>t, <2>1, <2>2
  <1>6. CASE Accepts(e, m)
    <2>1. told' \in [Life!End -> Seq(Life!Notices)]
      BY <1>6, Said DEF Accepts, Life!TypeOK, Life!Notices
    <2> QED BY <1>2, <1>6, <2>1 DEF Accepts, Life!TypeOK
  <1>7. CASE Rejects(e, m)
    <2>1. told' \in [Life!End -> Seq(Life!Notices)]
      <3>1. told[e] \in Seq(Life!Notices) /\ "failed" \in Life!Notices
        BY DEF Life!TypeOK, Life!Notices
      <3>2. Append(told[e], "failed") \in Seq(Life!Notices)
        BY <3>1, Said
      <3> QED BY <1>7, <3>2 DEF Rejects, Life!TypeOK
    <2>2. closedMsg' \subseteq Life!End
      BY <1>t, <1>7, EndsAre DEF Rejects, Life!SendClosed
    <2> QED BY <1>2, <1>t, <1>7, <2>1, <2>2 DEF Rejects
  <1>8. CASE Takes(e, m)
    <2>1. received' \in [Life!End -> Seq(Nat)]
      BY <1>1, <1>8, Said DEF Takes, Life!TypeOK
    <2> QED BY <1>2, <1>8, <2>1 DEF Takes, Life!TypeOK
  <1>9. CASE Life!HandleClose(e)
    <2>1. Life!ConnectionError(e) /\ UNCHANGED <<partner, sentBy, received>>
      BY <1>9 DEF Life!HandleClose
    <2>2. closedMsg' \subseteq Life!End
      BY <1>9, EndsAre DEF Life!HandleClose, Life!SendClosed, Life!TypeOK
    <2> QED BY <1>2, <1>t, <1>0, <2>1, <2>2
  <1>10. CASE Life!HandleKeepAlive(e)
    BY <1>2, <1>10 DEF Life!HandleKeepAlive, Life!TypeOK
  <1> QED BY <1>3, <1>4, <1>5, <1>6, <1>7, <1>8, <1>9, <1>10 DEF Delivery

\* The message with the next number, from the other end or held.
NextFor(e, m) ==
  LET n == got[e] + 1 IN
  /\ state[e] # "None" /\ m \in Life!Messages /\ m \in Life!InHand(e)
  /\ \/ n \in DOMAIN sentBy[Life!Other(e)] /\ m = sentBy[Life!Other(e)][n]
     \/ n \in DOMAIN held[e] /\ m = held[e][n]
  /\ got' = [got EXCEPT ![e] = n] /\ UNCHANGED <<up, id, accepted, crashes>>
  /\ acked' \in [Life!End -> Nat] /\ acked'[Life!Other(e)] = acked[Life!Other(e)]
  /\ \A d \in Life!End : acked'[d] <= Len(sentBy[d])
  /\ DOMAIN held' = Life!End /\ held'[Life!Other(e)] = held[Life!Other(e)]
  /\ \A k \in DOMAIN held'[e] : k \in DOMAIN held[e] /\ held'[e][k] = held[e][k]
  /\ Delivery(e, m)

\* Every message that is delivered is such a one.
LEMMA NextIs ==
  ASSUME Life!TypeOK, Sides, NEW e \in Life!End, Life!DeliverNext(e)
  PROVE  \E m \in Life!Messages : NextFor(e, m)
  <1> DEFINE n == got[e] + 1
             s == sentBy[Life!Other(e)]
  <1>1. /\ s \in Seq(Life!Messages) /\ n \in Nat /\ state[e] # "None" /\ DOMAIN held = Life!End
        /\ \A d \in Life!End : Len(sentBy[d]) \in Nat /\ acked[d] <= Len(sentBy[d])
        /\ acked \in [Life!End -> Nat]
    <2>1. /\ sentBy \in [Life!End -> Seq(Life!Messages)] /\ got \in [Life!End -> Nat] /\ DOMAIN held = Life!End
          /\ acked \in [Life!End -> Nat] /\ \A d \in Life!End : acked[d] <= Len(sentBy[d])
      BY DEF Life!TypeOK
    <2>2. state[e] # "None"
      BY DEF Life!DeliverNext
    <2>3. Life!Other(e) \in Life!End /\ \A d \in Life!End : Len(sentBy[d]) \in Nat
      BY <2>1, EndsAre
    <2> QED BY <2>1, <2>2, <2>3
  <1>2. got' = [got EXCEPT ![e] = n] /\ UNCHANGED <<up, id, accepted, crashes>>
    BY DEF Life!DeliverNext
  <1>3. CASE /\ n \in DOMAIN s /\ Life!AckUpTo(e, s[n].esn)
             /\ Life!DeliverReliableMessage(e, s[n]) /\ UNCHANGED held
    <2>0. s[n] \in Life!Messages
      BY <1>1, <1>3
    <2>1. s[n] \in Life!Messages /\ s[n].esn \in Nat
      BY <2>0 DEF Life!Messages
    <2>2. Delivery(e, s[n])
      BY <1>1, <1>3, <2>1, DeliveryIs
    <2>3. s[n] \in Life!InHand(e)
      BY <1>3 DEF Life!InHand
    <2>4. /\ acked' \in [Life!End -> Nat] /\ acked'[Life!Other(e)] = acked[Life!Other(e)]
          /\ \A d \in Life!End : acked'[d] <= Len(sentBy[d])
      BY <1>3, <2>1, AckTypes
    <2> QED BY <1>1, <1>2, <1>3, <2>1, <2>2, <2>3, <2>4 DEF NextFor
  <1>4. CASE /\ n \in DOMAIN held[e] /\ Life!DeliverReliableMessage(e, held[e][n])
             /\ held' = [held EXCEPT ![e] = [k \in DOMAIN @ \ {n} |-> @[k]]] /\ UNCHANGED acked
    <2>1. held[e][n] \in Life!Messages
      BY <1>4 DEF Life!TypeOK
    <2>2. Delivery(e, held[e][n])
      BY <1>1, <1>4, <2>1, DeliveryIs
    <2>3. held[e][n] \in Life!InHand(e)
      BY <1>4 DEF Life!InHand
    <2>4. /\ DOMAIN held' = Life!End /\ held'[Life!Other(e)] = held[Life!Other(e)]
          /\ \A k \in DOMAIN held'[e] : k \in DOMAIN held[e] /\ held'[e][k] = held[e][k]
      BY <1>1, <1>4, EndsAre
    <2> QED BY <1>1, <1>2, <1>4, <2>1, <2>2, <2>3, <2>4 DEF NextFor
  <1> QED BY <1>3, <1>4 DEF Life!DeliverNext, Life!Arriving

\* Where a connection begins.
LEMMA Begun ==
  ASSUME Life!Init PROVE Life!TypeOK /\ Life!AuthInv
  <1>1. \A e \in Life!End : /\ state[e] = "None" /\ id[e] = 0 /\ partner[e] = 0 /\ sentBy[e] = <<>>
                            /\ DOMAIN held[e] = {}
    BY DEF Life!Init
  <1>2. Life!TypeOK
    <2>1. /\ may.objects \in Nat /\ may.crashes \in Nat /\ may \in Life!Possible
          /\ up \in [Life!End -> BOOLEAN] /\ state \in [Life!End -> {"None"}]
          /\ id \in [Life!End -> {0}] /\ partner = id /\ acked = id /\ got = id
      BY DEF Life!Init, Life!Possible
    <2>2. /\ sentBy \in [Life!End -> Seq(Life!Messages)] /\ told \in [Life!End -> Seq(Life!Notices)]
          /\ received \in [Life!End -> Seq(Nat)] /\ DOMAIN held = Life!End
          /\ closedMsg = {} /\ crashes = 0
      BY DEF Life!Init
    <2>3. \A e \in Life!End : Len(sentBy[e]) = 0 /\ acked[e] = 0
      BY <1>1, <2>1
    <2> QED BY <1>1, <2>1, <2>2, <2>3 DEF Life!TypeOK
  <1>3. Life!InHand("client") = {} /\ Life!InHand("server") = {} /\ "client" \in Life!End /\ "server" \in Life!End
    BY <1>1 DEF Life!InHand, Life!End, Life!Other
  <1> QED BY <1>1, <1>2, <1>3 DEF Life!AuthInv

\* A new object at an end.
LEMMA ObjectTypes ==
  ASSUME Life!TypeOK, NEW e \in Life!End, Life!NewObject(e)
  PROVE  /\ id' \in [Life!End -> 0 .. may.objects] /\ id' = [id EXCEPT ![e] = @ + 1] /\ id[e] \in Nat
         /\ partner' \in [Life!End -> Nat] /\ acked' \in [Life!End -> Nat]
         /\ partner'[e] = 0 /\ acked'[e] = 0 /\ told'[e] = <<>> /\ DOMAIN held'[e] = {}
         /\ partner'[Life!Other(e)] = partner[Life!Other(e)] /\ acked'[Life!Other(e)] = acked[Life!Other(e)]
         /\ told'[Life!Other(e)] = told[Life!Other(e)] /\ held'[Life!Other(e)] = held[Life!Other(e)]
         /\ told' \in [Life!End -> Seq(Life!Notices)] /\ received' \in [Life!End -> Seq(Nat)]
         /\ DOMAIN held' = Life!End
         /\ \A d \in Life!End : \A n \in DOMAIN held'[d] : n \in Nat /\ held'[d][n] \in Life!Messages
  <1>1. may.objects \in Nat
    BY DEF Life!TypeOK, Life!Possible
  <1>2. id' \in [Life!End -> 0 .. may.objects] /\ id' = [id EXCEPT ![e] = @ + 1] /\ id[e] \in Nat
    BY <1>1 DEF Life!TypeOK, Life!NewObject
  <1>o. Life!Other(e) \in Life!End /\ Life!Other(e) # e
    BY EndsAre
  <1>3. /\ partner' \in [Life!End -> Nat] /\ acked' \in [Life!End -> Nat]
        /\ partner'[e] = 0 /\ acked'[e] = 0
        /\ partner'[Life!Other(e)] = partner[Life!Other(e)] /\ acked'[Life!Other(e)] = acked[Life!Other(e)]
    <2>1. partner \in [Life!End -> Nat] /\ acked \in [Life!End -> Nat]
      BY DEF Life!TypeOK
    <2>2. partner' = [partner EXCEPT ![e] = 0] /\ acked' = [acked EXCEPT ![e] = 0]
      BY DEF Life!NewObject
    <2> QED BY <1>o, <2>1, <2>2
  <1>4. /\ told' \in [Life!End -> Seq(Life!Notices)] /\ received' \in [Life!End -> Seq(Nat)]
        /\ told'[e] = <<>> /\ told'[Life!Other(e)] = told[Life!Other(e)]
    <2>1. told \in [Life!End -> Seq(Life!Notices)] /\ received \in [Life!End -> Seq(Nat)]
      BY DEF Life!TypeOK
    <2>2. told' = [told EXCEPT ![e] = <<>>] /\ received' = [received EXCEPT ![e] = <<>>]
      BY DEF Life!NewObject
    <2>3. <<>> \in Seq(Life!Notices) /\ <<>> \in Seq(Nat)
      OBVIOUS
    <2> QED BY <1>o, <2>1, <2>2, <2>3
  <1>5. /\ DOMAIN held' = Life!End /\ DOMAIN held'[e] = {}
        /\ held'[Life!Other(e)] = held[Life!Other(e)]
    <2>1. DOMAIN held = Life!End
      BY DEF Life!TypeOK
    <2>2. held' = [held EXCEPT ![e] = [n \in {} |-> 0]]
      BY DEF Life!NewObject
    <2> QED BY <1>o, <2>1, <2>2
  <1>6. \A d \in Life!End : \A n \in DOMAIN held'[d] : n \in Nat /\ held'[d][n] \in Life!Messages
    BY <1>5, EndsAre DEF Life!TypeOK
  <1> QED BY <1>2, <1>3, <1>4, <1>5, <1>6

\* What a new object at either end is.
LEMMA NewObjectIs ==
  ASSUME Life!TypeOK
  PROVE  /\ Life!NewObject("server") =>
              /\ told'["server"] = <<>> /\ told'["client"] = told["client"] /\ id'["server"] = id["server"] + 1
              /\ id' = [id EXCEPT !["server"] = @ + 1] /\ id["server"] \in Nat
              /\ DOMAIN held'["server"] = {} /\ held'["client"] = held["client"]
         /\ Life!NewObject("client") =>
              /\ told'["client"] = <<>> /\ told'["server"] = told["server"] /\ id'["client"] = id["client"] + 1
              /\ id' = [id EXCEPT !["client"] = @ + 1] /\ id["client"] \in Nat
              /\ DOMAIN held'["client"] = {} /\ held'["server"] = held["server"]
  <1>1. /\ "client" \in Life!End /\ "server" \in Life!End
        /\ Life!Other("client") = "server" /\ Life!Other("server") = "client"
    BY DEF Life!End, Life!Other
  <1>2. \A e \in Life!End : Life!NewObject(e) =>
          /\ told'[e] = <<>> /\ told'[Life!Other(e)] = told[Life!Other(e)] /\ id'[e] = id[e] + 1
          /\ id' = [id EXCEPT ![e] = @ + 1] /\ id[e] \in Nat
          /\ DOMAIN held'[e] = {} /\ held'[Life!Other(e)] = held[Life!Other(e)]
    <2> SUFFICES ASSUME NEW e \in Life!End, Life!NewObject(e)
                 PROVE  /\ told'[e] = <<>> /\ told'[Life!Other(e)] = told[Life!Other(e)] /\ id'[e] = id[e] + 1
                        /\ id' = [id EXCEPT ![e] = @ + 1] /\ id[e] \in Nat
                        /\ DOMAIN held'[e] = {} /\ held'[Life!Other(e)] = held[Life!Other(e)]
      OBVIOUS
    <2>1. id \in [Life!End -> 0 .. may.objects]
      BY DEF Life!TypeOK
    <2>2. id' = [id EXCEPT ![e] = @ + 1]
      BY ObjectTypes
    <2>3. id'[e] = id[e] + 1
      BY <2>1, <2>2
    <2> QED BY <2>3, ObjectTypes
  <1> QED BY <1>1, <1>2

\* The types stay when an end says something and else only its state changes.
LEMMA SpokenTypes ==
  ASSUME Life!TypeOK, NEW e \in Life!End, NEW kind \in Life!Kinds, Life!Send(e, kind), may' = may,
         state' \in [Life!End -> Life!Negotiating \union {"None", "Connected", "Closing"}],
         told' \in [Life!End -> Seq(Life!Notices)], closedMsg' = closedMsg,
         UNCHANGED <<up, id, partner, acked, got, held, received, crashes>>
  PROVE  Life!TypeOK' /\ \E m \in Life!Messages : m.kind = kind /\ Says(e, m)
  <1>1. got[e] \in Nat
    BY DEF Life!TypeOK
  <1>2. PICK m \in Life!Messages : m.kind = kind /\ Says(e, m)
    BY <1>1, Speaks DEF Life!Send
  <1>3. sentBy' \in [Life!End -> Seq(Life!Messages)]
    BY <1>2, SaidTypes
  <1>4. \A d \in Life!End : Len(sentBy[d]) \in Nat /\ Len(sentBy'[d]) >= Len(sentBy[d])
    <2>1. Len(sentBy'[e]) = Len(sentBy[e]) + 1 /\ sentBy'[Life!Other(e)] = sentBy[Life!Other(e)]
      BY <1>2, SaidTypes
    <2>2. \A d \in Life!End : Len(sentBy[d]) \in Nat
      BY DEF Life!TypeOK
    <2> QED BY <2>1, <2>2, EndsAre
  <1>5. \A d \in Life!End : acked[d] \in Nat /\ acked[d] <= Len(sentBy'[d])
    <2>1. \A d \in Life!End : acked[d] \in Nat /\ acked[d] <= Len(sentBy[d])
      BY DEF Life!TypeOK
    <2> SUFFICES ASSUME NEW d \in Life!End PROVE acked[d] \in Nat /\ acked[d] <= Len(sentBy'[d])
      OBVIOUS
    <2> DEFINE a == acked[d]
               b == Len(sentBy[d])
               c == Len(sentBy'[d])
    <2>2. a \in Nat /\ a <= b /\ b \in Nat /\ c >= b
      BY <1>4, <2>1
    <2>3. c \in Nat
      BY <1>3
    <2> HIDE DEF a, b, c
    <2>4. a \in Nat /\ a <= c
      BY <2>2, <2>3
    <2> QED BY <2>4 DEF a, c
  <1>6. may \in Life!Possible /\ crashes' \in 0 .. may'.crashes /\ id' \in [Life!End -> 0 .. may'.objects]
    BY DEF Life!TypeOK
  <1>7. Life!TypeOK'
    <2>1. /\ up' \in [Life!End -> BOOLEAN] /\ partner' \in [Life!End -> Nat] /\ got' \in [Life!End -> Nat]
          /\ acked' \in [Life!End -> Nat] /\ \A d \in Life!End : acked'[d] <= Len(sentBy'[d])
          /\ received' \in [Life!End -> Seq(Nat)] /\ closedMsg' \subseteq Life!End
      BY <1>5 DEF Life!TypeOK
    <2>2. /\ DOMAIN held' = Life!End
          /\ \A d \in Life!End : \A n \in DOMAIN held'[d] : n \in Nat /\ held'[d][n] \in Life!Messages
      BY DEF Life!TypeOK
    <2>3. may' \in Life!Possible
      BY <1>6
    <2> QED BY <1>3, <1>6, <2>1, <2>2, <2>3 DEF Life!TypeOK
  <1> QED BY <1>2, <1>7

\* A delivery keeps the types.
LEMMA DeliveredTypes ==
  ASSUME Life!TypeOK, NEW e \in Life!End, NEW m \in Life!Messages, NextFor(e, m), may' = may
  PROVE  Life!TypeOK'
  <1>1. Delivery(e, m) /\ UNCHANGED <<up, id, accepted, crashes>>
    BY DEF NextFor
  <1>2. /\ up' \in [Life!End -> BOOLEAN] /\ crashes' \in 0 .. may'.crashes /\ may' \in Life!Possible
        /\ id' \in [Life!End -> 0 .. may'.objects]
    BY <1>1 DEF Life!TypeOK
  <1>3. got' \in [Life!End -> Nat]
    <2>1. got \in [Life!End -> Nat]
      BY DEF Life!TypeOK
    <2>2. got' = [got EXCEPT ![e] = got[e] + 1]
      BY DEF NextFor
    <2> QED BY <2>1, <2>2
  <1>4. /\ acked' \in [Life!End -> Nat] /\ \A d \in Life!End : acked'[d] <= Len(sentBy'[d])
    <2>1. \A d \in Life!End : /\ Len(sentBy[d]) <= Len(sentBy'[d]) /\ Len(sentBy[d]) \in Nat /\ Len(sentBy'[d]) \in Nat
      <3>1. sentBy' \in [Life!End -> Seq(Life!Messages)] /\ \A d \in Life!End : Len(sentBy[d]) <= Len(sentBy'[d])
        BY <1>1, DeliveryTypes
      <3>2. sentBy \in [Life!End -> Seq(Life!Messages)]
        BY DEF Life!TypeOK
      <3> QED BY <3>1, <3>2
    <2>2. \A d \in Life!End : acked' \in [Life!End -> Nat] /\ acked'[d] <= Len(sentBy[d])
      BY DEF NextFor
    <2>3. acked' \in [Life!End -> Nat]
      BY DEF NextFor
    <2> QED BY <2>1, <2>2, <2>3
  <1>5. /\ DOMAIN held' = Life!End
        /\ \A d \in Life!End : \A n \in DOMAIN held'[d] : n \in Nat /\ held'[d][n] \in Life!Messages
    <2>1. \A d \in Life!End : \A n \in DOMAIN held[d] : n \in Nat /\ held[d][n] \in Life!Messages
      BY DEF Life!TypeOK
    <2>2. /\ DOMAIN held' = Life!End /\ held'[Life!Other(e)] = held[Life!Other(e)]
          /\ \A k \in DOMAIN held'[e] : k \in DOMAIN held[e] /\ held'[e][k] = held[e][k]
      BY DEF NextFor
    <2> QED BY <2>1, <2>2, EndsAre
  <1> QED BY <1>1, <1>2, <1>3, <1>4, <1>5, DeliveryTypes DEF Life!TypeOK

States == Life!Negotiating \union {"None", "Connected", "Closing"}

\* The types stay when a step only changes states, what is told, and who is sent Closed.
LEMMA QuietTypes ==
  ASSUME Life!TypeOK, may' = may, state' \in [Life!End -> States], up' \in [Life!End -> BOOLEAN],
         told' \in [Life!End -> Seq(Life!Notices)], closedMsg' \subseteq Life!End, crashes' \in 0 .. may.crashes,
         UNCHANGED <<id, partner, sentBy, got, acked, held, received>>
  PROVE  Life!TypeOK'
  BY DEF Life!TypeOK, States

\* Every step keeps the types.
LEMMA LifeTypes ==
  ASSUME Life!TypeOK, Life!AuthInv, Life!Next
  PROVE  Life!TypeOK'
  <1> USE EndsAre
  <1>s. /\ "client" \in Life!End /\ "server" \in Life!End /\ may' = may /\ Life!Step
        /\ Life!Other("client") = "server" /\ Life!Other("server") = "client"
        /\ \A e \in Life!End : e = "client" \/ e = "server"
    BY DEF Life!End, Life!Next, Life!Other
  <1>t. /\ state \in [Life!End -> States] /\ told \in [Life!End -> Seq(Life!Notices)]
        /\ up \in [Life!End -> BOOLEAN] /\ crashes \in 0 .. may.crashes /\ closedMsg \subseteq Life!End
        /\ may.crashes \in Nat /\ may.objects \in Nat
        /\ sentBy \in [Life!End -> Seq(Life!Messages)] /\ got \in [Life!End -> Nat] /\ id \in [Life!End -> Nat]
        /\ \A e \in Life!End : acked[e] <= Len(sentBy[e])
    BY DEF Life!TypeOK, States, Life!Possible
  <1>u. \A e \in Life!End : Len(sentBy[e]) \in Nat /\ \A n \in DOMAIN sentBy[e] : sentBy[e][n] \in Life!Messages
    BY <1>t
  <1>1. CASE Life!Connect
    <2> DEFINE m == [kind |-> "ClientChallenge", from |-> id["client"] + 1, re |-> 0, esn |-> 0]
    <2>1. m \in Life!Messages
      BY <1>s, <1>t DEF Life!Messages, Life!Kinds
    <2>2. sentBy' = [sentBy EXCEPT !["client"] = <<m>>] /\ Life!NewObject("client")
      BY <1>1 DEF Life!Connect
    <2>3. sentBy' \in [Life!End -> Seq(Life!Messages)] /\ sentBy'["server"] = sentBy["server"]
      BY <1>s, <1>t, <2>1, <2>2
    <2>4. \A e \in Life!End : acked'[e] <= Len(sentBy'[e])
      <3>1. Len(sentBy'["client"]) \in Nat /\ acked'["client"] = 0
        BY <1>s, <2>2, <2>3, ObjectTypes
      <3>2. acked'["server"] = acked["server"]
        BY <1>s, <2>2, ObjectTypes
      <3>3. acked'["client"] <= Len(sentBy'["client"])
        BY <3>1
      <3>4. acked'["server"] <= Len(sentBy'["server"])
        BY <1>s, <1>t, <2>3, <3>2
      <3> QED BY <1>s, <3>3, <3>4
    <2>5. state' \in [Life!End -> States] /\ got' \in [Life!End -> Nat]
      BY <1>t, <1>1 DEF Life!Connect, States, Life!Negotiating
    <2>6. UNCHANGED <<up, closedMsg, crashes>>
      BY <1>1 DEF Life!Connect
    <2>7. /\ id' \in [Life!End -> 0 .. may'.objects] /\ partner' \in [Life!End -> Nat] /\ acked' \in [Life!End -> Nat]
          /\ told' \in [Life!End -> Seq(Life!Notices)] /\ received' \in [Life!End -> Seq(Nat)]
          /\ DOMAIN held' = Life!End
          /\ \A d \in Life!End : \A n \in DOMAIN held'[d] : n \in Nat /\ held'[d][n] \in Life!Messages
      BY <1>s, <2>2, ObjectTypes
    <2> QED BY <1>s, <1>t, <2>3, <2>4, <2>5, <2>6, <2>7 DEF Life!TypeOK, States
  <1>2. CASE Life!Accept
    <2>0. <<"accepted">> \in Seq(Life!Notices)
      BY DEF Life!Notices
    <2>1. state' \in [Life!End -> States] /\ told' \in [Life!End -> Seq(Life!Notices)]
      BY <1>t, <1>2, <2>0 DEF Life!Accept, States
    <2>2. Life!Send("server", "Accept") /\ UNCHANGED <<up, id, partner, acked, got, held, received, closedMsg, crashes>>
      BY <1>2 DEF Life!Accept
    <2> QED BY <1>s, <2>1, <2>2, SpokenTypes DEF States, Life!Kinds
  <1>3. CASE Life!Reject
    <2>1. state' \in [Life!End -> States] /\ told' \in [Life!End -> Seq(Life!Notices)]
      BY <1>t, <1>3 DEF Life!Reject, States
    <2>2. Life!Send("server", "Reject") /\ UNCHANGED <<up, id, partner, acked, got, held, received, closedMsg, crashes>>
      BY <1>3 DEF Life!Reject
    <2> QED BY <1>s, <2>1, <2>2, SpokenTypes DEF States, Life!Kinds
  <1>4. CASE Life!LoseClosed
    BY <1>s, <1>t, <1>4, QuietTypes DEF Life!LoseClosed
  <1>5. ASSUME NEW e \in Life!End, Life!DeliverNext(e) PROVE Life!TypeOK'
    <2>1. Sides
      BY DEF Life!AuthInv, Sides
    <2> QED BY <1>s, <1>5, <2>1, NextIs, DeliveredTypes
  <1>6. ASSUME NEW e \in Life!End, Life!Hold(e) PROVE Life!TypeOK'
    <2>1. UNCHANGED <<up, state, id, partner, sentBy, got, told, received, closedMsg, crashes>>
      BY <1>6 DEF Life!Hold
    <2>2. PICK n \in got[e] + 2 .. Len(sentBy[Life!Other(e)]) :
            /\ Life!AckUpTo(e, sentBy[Life!Other(e)][n].esn)
            /\ held' = [held EXCEPT ![e] =
                 [k \in DOMAIN @ \union {n} |-> IF k = n THEN sentBy[Life!Other(e)][n] ELSE @[k]]]
      BY <1>6 DEF Life!Hold
    <2>3. n \in Nat /\ sentBy[Life!Other(e)][n] \in Life!Messages
      BY <1>t, <1>u
    <2>4. sentBy[Life!Other(e)][n].esn \in Nat
      BY <2>3 DEF Life!Messages
    <2>5. acked' \in [Life!End -> Nat] /\ \A d \in Life!End : acked'[d] <= Len(sentBy'[d])
      BY <2>1, <2>2, <2>4, AckTypes
    <2>6. /\ DOMAIN held' = Life!End
          /\ \A d \in Life!End : \A k \in DOMAIN held'[d] : k \in Nat /\ held'[d][k] \in Life!Messages
      BY <2>2, <2>3 DEF Life!TypeOK
    <2> QED BY <1>s, <2>1, <2>5, <2>6 DEF Life!TypeOK
  <1>7. ASSUME NEW e \in Life!End, Life!NoConnection(e) PROVE Life!TypeOK'
    <2>1. PICK n \in 1 .. Len(sentBy[Life!Other(e)]) :
            LET m == sentBy[Life!Other(e)][n] IN
            \/ /\ e = "server" /\ m.kind = "ClientChallenge" /\ Life!NewObject(e)
               /\ state' = [state EXCEPT ![e] = "AwaitingClientResponse"]
               /\ got' = [got EXCEPT ![e] = 1]
               /\ sentBy' = [sentBy EXCEPT ![e] =
                    <<[kind |-> "ServerChallenge", from |-> id[e] + 1, re |-> m.from, esn |-> 1]>>]
               /\ UNCHANGED closedMsg
            \/ /\ Life!SendClosed(e)
               /\ UNCHANGED <<state, id, partner, sentBy, acked, got, held, told, received>>
      BY <1>7 DEF Life!NoConnection
    <2>2. sentBy[Life!Other(e)][n] \in Life!Messages /\ UNCHANGED <<up, crashes>>
      BY <1>u, <1>7 DEF Life!NoConnection
    <2>3. CASE Life!SendClosed(e) /\ UNCHANGED <<state, id, partner, sentBy, acked, got, held, told, received>>
      <3>1. closedMsg' \subseteq Life!End
        BY <1>t, <2>3 DEF Life!SendClosed
      <3> QED BY <1>s, <1>t, <2>2, <2>3, <3>1, QuietTypes
    <2>4. CASE Life!NewObject(e) /\ state' = [state EXCEPT ![e] = "AwaitingClientResponse"]
               /\ got' = [got EXCEPT ![e] = 1] /\ UNCHANGED closedMsg
               /\ sentBy' = [sentBy EXCEPT ![e] =
                    <<[kind |-> "ServerChallenge", from |-> id[e] + 1, re |-> sentBy[Life!Other(e)][n].from, esn |-> 1]>>]
      <3> DEFINE m == [kind |-> "ServerChallenge", from |-> id[e] + 1, re |-> sentBy[Life!Other(e)][n].from, esn |-> 1]
      <3> DEFINE c == sentBy[Life!Other(e)][n]
      <3>a. c \in Life!Messages
        BY <2>2
      <3> HIDE DEF c
      <3>b. c.from \in Nat
        BY <3>a DEF Life!Messages
      <3>0. sentBy[Life!Other(e)][n].from \in Nat /\ id[e] + 1 \in Nat
        BY <1>t, <3>b DEF c
      <3>1. m \in Life!Messages
        BY <3>0 DEF Life!Messages, Life!Kinds
      <3>3. sentBy' \in [Life!End -> Seq(Life!Messages)] /\ sentBy'[Life!Other(e)] = sentBy[Life!Other(e)]
        BY <1>t, <2>4, <3>1
      <3>4. \A d \in Life!End : acked'[d] <= Len(sentBy'[d])
        <4>1. Len(sentBy'[e]) \in Nat /\ acked'[e] = 0
          BY <2>4, <3>3, ObjectTypes
        <4>2. acked'[Life!Other(e)] = acked[Life!Other(e)]
          BY <2>4, ObjectTypes
        <4>3. acked'[e] <= Len(sentBy'[e])
          BY <4>1
        <4>4. acked'[Life!Other(e)] <= Len(sentBy'[Life!Other(e)])
          BY <1>t, <3>3, <4>2
        <4> QED BY <4>3, <4>4
      <3>5. state' \in [Life!End -> States] /\ got' \in [Life!End -> Nat]
        BY <1>t, <2>4 DEF States, Life!Negotiating
      <3>7. /\ id' \in [Life!End -> 0 .. may'.objects] /\ partner' \in [Life!End -> Nat] /\ acked' \in [Life!End -> Nat]
            /\ told' \in [Life!End -> Seq(Life!Notices)] /\ received' \in [Life!End -> Seq(Nat)]
            /\ DOMAIN held' = Life!End
            /\ \A d \in Life!End : \A k \in DOMAIN held'[d] : k \in Nat /\ held'[d][k] \in Life!Messages
        BY <1>s, <2>4, ObjectTypes
      <3> QED BY <1>s, <1>t, <2>2, <2>4, <3>3, <3>4, <3>5, <3>7 DEF Life!TypeOK, States
    <2> QED BY <2>1, <2>3, <2>4
  <1>8. ASSUME NEW e \in Life!End, Life!HandleClosed(e) PROVE Life!TypeOK'
    <2>1. state' \in [Life!End -> States] /\ told' \in [Life!End -> Seq(Life!Notices)]
      <3>1. CASE Life!ConnectionError(e)
        <4>1. state' = [state EXCEPT ![e] = "None"] /\ told' \in [Life!End -> Seq(Life!Notices)]
          BY <3>1, ErrorTypes
        <4> QED BY <1>t, <4>1 DEF States
      <3>2. CASE UNCHANGED <<state, told>>
        BY <1>t, <3>2 DEF States
      <3> QED BY <1>8, <3>1, <3>2 DEF Life!HandleClosed
    <2> QED BY <1>s, <1>t, <1>8, <2>1, QuietTypes DEF Life!HandleClosed
  <1>9. ASSUME NEW e \in Life!End, Life!Ack(e) PROVE Life!TypeOK'
    <2>1. acked' \in [Life!End -> Nat] /\ \A d \in Life!End : acked'[d] <= Len(sentBy[d])
      BY <1>t, <1>9, AckTypes DEF Life!Ack
    <2> QED BY <1>s, <1>9, <2>1 DEF Life!TypeOK, Life!Ack
  <1>10. ASSUME NEW e \in Life!End, Life!CheckTimeout(e) PROVE Life!TypeOK'
    <2>1. told' \in [Life!End -> Seq(Life!Notices)]
      BY <1>10, TellTypes DEF Life!CheckTimeout, Life!Notices
    <2>2. state' \in [Life!End -> States] /\ closedMsg' \subseteq Life!End
      BY <1>t, <1>10 DEF Life!CheckTimeout, States, Life!SendClosed
    <2> QED BY <1>s, <1>t, <1>10, <2>1, <2>2, QuietTypes DEF Life!CheckTimeout
  <1>11. ASSUME NEW e \in Life!End, Life!CheckKeepAlive(e) PROVE Life!TypeOK'
    BY <1>s, <1>t, <1>11, SpokenTypes DEF Life!CheckKeepAlive, States, Life!Kinds
  <1>12. ASSUME NEW e \in Life!End, Life!SendData(e) PROVE Life!TypeOK'
    BY <1>s, <1>t, <1>12, SpokenTypes DEF Life!SendData, States, Life!Kinds
  <1>13. ASSUME NEW e \in Life!End, Life!CloseSoft(e) PROVE Life!TypeOK'
    <2>1. state' \in [Life!End -> States]
      BY <1>t, <1>13 DEF Life!CloseSoft, States
    <2>2. Life!Send(e, "Close") /\ UNCHANGED <<up, id, partner, acked, got, held, told, received, closedMsg, crashes>>
      BY <1>13 DEF Life!CloseSoft, Life!SendClose
    <2> QED BY <1>s, <1>t, <2>1, <2>2, SpokenTypes DEF States, Life!Kinds
  <1>14. ASSUME NEW e \in Life!End, Life!CloseHard(e) PROVE Life!TypeOK'
    <2>1. told' \in [Life!End -> Seq(Life!Notices)]
      BY <1>14, TellTypes DEF Life!CloseHard, Life!Notices
    <2>2. state' \in [Life!End -> States] /\ closedMsg' \subseteq Life!End
      BY <1>t, <1>14 DEF Life!CloseHard, States, Life!SendClosed
    <2> QED BY <1>s, <1>t, <1>14, <2>1, <2>2, QuietTypes DEF Life!CloseHard
  <1>15. ASSUME NEW e \in Life!End, Life!Crash(e) PROVE Life!TypeOK'
    <2>1. state' \in [Life!End -> States] /\ told' \in [Life!End -> Seq(Life!Notices)] /\ up' \in [Life!End -> BOOLEAN]
      BY <1>t, <1>15 DEF Life!Crash, States
    <2>2. crashes' \in 0 .. may.crashes
      BY <1>t, <1>15 DEF Life!Crash
    <2> QED BY <1>s, <1>t, <1>15, <2>1, <2>2, QuietTypes DEF Life!Crash
  <1>16. ASSUME NEW e \in Life!End, Life!Restart(e) PROVE Life!TypeOK'
    <2>1. up' \in [Life!End -> BOOLEAN]
      BY <1>t, <1>16 DEF Life!Restart
    <2> QED BY <1>s, <1>t, <1>16, <2>1, QuietTypes DEF Life!Restart
  <1> QED BY <1>s, <1>1, <1>2, <1>3, <1>4, <1>5, <1>6, <1>7, <1>8, <1>9, <1>10, <1>11, <1>12, <1>13, <1>14,
             <1>15, <1>16 DEF Life!Step, Life!ReceiveMessages
-----------------------------------------------------------------------------
(***************************************************************************)
(* Connections: the challenges                                             *)
(***************************************************************************)

\* An end holds only what it could have got.
HeldKept == \A d \in Life!End : \A k \in DOMAIN held'[d] : held'[d][k] \in Life!InHand(d)

\* What an end may still get when nothing is said.
LEMMA HandsSame ==
  ASSUME Life!TypeOK, sentBy' = sentBy, HeldKept, NEW d \in Life!End
  PROVE  Life!InHand(d)' \subseteq Life!InHand(d)
  BY DEF HeldKept, Life!InHand

\* What an end may still get when the other says something.
LEMMA HandsGrow ==
  ASSUME Life!TypeOK, NEW e \in Life!End, NEW m \in Life!Messages, Says(e, m), HeldKept
  PROVE  /\ Life!InHand(e)' \subseteq Life!InHand(e)
         /\ Life!InHand(Life!Other(e))' \subseteq Life!InHand(Life!Other(e)) \union {m}
  <1>1. /\ Life!Other(Life!Other(e)) = e /\ Life!Other(e) \in Life!End
        /\ sentBy'[Life!Other(e)] = sentBy[Life!Other(e)]
        /\ DOMAIN sentBy[e] = 1 .. Len(sentBy[e]) /\ DOMAIN sentBy'[e] = 1 .. (Len(sentBy[e]) + 1)
        /\ Len(sentBy[e]) \in Nat
        /\ \A k \in 1 .. Len(sentBy[e]) : sentBy'[e][k] = sentBy[e][k]
        /\ sentBy'[e][Len(sentBy[e]) + 1] = m
    BY EndsAre, SaidTypes
  <1>2. Life!InHand(e)' \subseteq Life!InHand(e)
    BY <1>1 DEF HeldKept, Life!InHand
  <1>3. \A k \in DOMAIN sentBy'[e] : sentBy'[e][k] = m \/ (k \in DOMAIN sentBy[e] /\ sentBy'[e][k] = sentBy[e][k])
    <2> TAKE k \in DOMAIN sentBy'[e]
    <2>1. k \in 1 .. Len(sentBy[e]) \/ k = Len(sentBy[e]) + 1
      BY <1>1
    <2>2. CASE k \in 1 .. Len(sentBy[e])
      BY <1>1, <2>2
    <2>3. CASE k = Len(sentBy[e]) + 1
      BY <1>1, <2>3
    <2> QED BY <2>1, <2>2, <2>3
  <1>4. Life!InHand(Life!Other(e))' \subseteq Life!InHand(Life!Other(e)) \union {m}
    <2> SUFFICES ASSUME NEW x \in Life!InHand(Life!Other(e))', x # m PROVE x \in Life!InHand(Life!Other(e))
      OBVIOUS
    <2>1. CASE \E k \in DOMAIN sentBy'[e] : x = sentBy'[e][k]
      BY <1>1, <1>3, <2>1 DEF Life!InHand
    <2>2. CASE \E k \in DOMAIN held'[Life!Other(e)] : x = held'[Life!Other(e)][k]
      BY <1>1, <2>2 DEF HeldKept
    <2> QED BY <1>1, <2>1, <2>2 DEF Life!InHand
  <1> QED BY <1>2, <1>4

\* A step that makes no object: what is said, and what the ends have authenticated after it.
Utters ==
  \/ sentBy' = sentBy
  \/ \E e \in Life!End, m \in Life!Messages :
       /\ m.kind # "ServerChallenge" /\ state[e] # "None" /\ Says(e, m)
       /\ m.kind = "ClientResponse" => m.re \in 1 .. id["server"] /\ (m.re = id["server"] => m.from = Life!Answered)
Authentic ==
  /\ id' = id /\ Utters /\ HeldKept
  /\ state'["client"] \notin {"AwaitingClientChallenge", "AwaitingClientResponse", "AwaitingAcceptReject"}
  /\ state'["server"] \notin {"AwaitingServerChallenge", "AwaitingAcceptance", "AwaitingClientChallenge"}
  /\ \A e \in Life!End : state'[e] # "None" => state[e] # "None"
  /\ partner'["client"] <= id["server"] /\ (state'["client"] = "AwaitingAcceptance" => partner'["client"] > 0)
  /\ state'["client"] = "AwaitingAcceptance" /\ partner'["client"] = id["server"] => Life!Answered = id["client"]
  /\ state'["server"] = "AwaitingAcceptReject" => Life!Answered = partner'["server"]

\* Such a step leaves the first message of the server.
LEMMA FirstStays ==
  ASSUME Life!TypeOK, Life!AuthInv, Utters, id["server"] > 0
  PROVE  sentBy'["server"] # <<>> /\ sentBy'["server"][1] = sentBy["server"][1]
  <1>1. sentBy["server"] # <<>> /\ sentBy["server"] \in Seq(Life!Messages) /\ "server" \in Life!End
    BY DEF Life!AuthInv, Life!TypeOK, Life!End
  <1>2. ASSUME NEW e \in Life!End, NEW m \in Life!Messages, Says(e, m)
        PROVE  sentBy'["server"] # <<>> /\ sentBy'["server"][1] = sentBy["server"][1]
    <2>1. CASE e = "server"
      <3>1. Len(sentBy["server"]) > 0
        BY <1>1
      <3> QED BY <1>1, <1>2, <2>1, <3>1, SaidTypes
    <2>2. CASE e # "server"
      <3>1. Life!Other(e) = "server"
        BY <2>2 DEF Life!Other, Life!End
      <3> QED BY <1>1, <1>2, <3>1, SaidTypes
    <2> QED BY <2>1, <2>2
  <1> QED BY <1>1, <1>2 DEF Utters

\* The ends and their objects.
LEMMA SidesAre ==
  ASSUME Life!TypeOK
  PROVE  /\ "client" \in Life!End /\ "server" \in Life!End
         /\ Life!Other("client") = "server" /\ Life!Other("server") = "client"
         /\ \A e \in Life!End : id[e] \in Nat /\ (e = "client" \/ e = "server")
  <1>1. id \in [Life!End -> 0 .. may.objects] /\ may.objects \in Nat
    BY DEF Life!TypeOK, Life!Possible
  <1> QED BY <1>1 DEF Life!End, Life!Other

\* Such a step keeps what the challenges show.
LEMMA AuthenticStep ==
  ASSUME Life!TypeOK, Life!AuthInv, Authentic
  PROVE  Life!AuthInv'
  <1> USE SidesAre
  <1>1. id' = id
    BY DEF Authentic
  <1>2. id["server"] > 0 => sentBy'["server"] # <<>> /\ sentBy'["server"][1] = sentBy["server"][1]
    BY FirstStays DEF Authentic
  <1>3. ASSUME NEW d \in Life!End, NEW x \in Life!InHand(d)'
        PROVE  \/ x \in Life!InHand(d)
               \/ /\ x.kind # "ServerChallenge"
                  /\ x.kind = "ClientResponse" => x.re \in 1 .. id["server"] /\ (x.re = id["server"] => x.from = Life!Answered)
    <2>1. CASE sentBy' = sentBy
      BY <1>3, <2>1, HandsSame DEF Authentic
    <2>2. ASSUME NEW e \in Life!End, NEW m \in Life!Messages, Says(e, m), x # m
          PROVE  x \in Life!InHand(d)
      BY <1>3, <2>2, HandsGrow, EndsAre DEF Authentic
    <2> QED BY <2>1, <2>2 DEF Authentic, Utters
  <1>4. \A m \in Life!InHand("client")' : m.kind = "ServerChallenge" =>
          m.from \in 1 .. id'["server"] /\ (m.from = id'["server"] => m.re = Life!Answered')
    <2> SUFFICES ASSUME NEW m \in Life!InHand("client")', m.kind = "ServerChallenge"
                 PROVE  m.from \in 1 .. id["server"] /\ (m.from = id["server"] => m.re = Life!Answered')
      BY <1>1
    <2>1. m \in Life!InHand("client")
      BY <1>3
    <2>2. m.from \in 1 .. id["server"] /\ (m.from = id["server"] => m.re = Life!Answered)
      BY <2>1 DEF Life!AuthInv
    <2>3. id["server"] > 0
      BY <2>2
    <2> QED BY <1>2, <2>2, <2>3 DEF Life!Answered
  <1>5. \A m \in Life!InHand("server")' : m.kind = "ClientResponse" =>
          m.re \in 1 .. id'["server"] /\ (m.re = id'["server"] => m.from = Life!Answered')
    <2> SUFFICES ASSUME NEW m \in Life!InHand("server")', m.kind = "ClientResponse"
                 PROVE  m.re \in 1 .. id["server"] /\ (m.re = id["server"] => m.from = Life!Answered')
      BY <1>1
    <2>1. m.re \in 1 .. id["server"] /\ (m.re = id["server"] => m.from = Life!Answered)
      <3>1. CASE m \in Life!InHand("server")
        BY <3>1 DEF Life!AuthInv
      <3> QED BY <1>3, <3>1
    <2>2. id["server"] > 0
      BY <2>1
    <2> QED BY <1>2, <2>1, <2>2 DEF Life!Answered
  <1>6. /\ state'["client"] = "AwaitingAcceptance" /\ partner'["client"] = id'["server"] => Life!Answered' = id'["client"]
        /\ state'["server"] = "AwaitingAcceptReject" => Life!Answered' = partner'["server"]
    <2>1. state'["server"] = "AwaitingAcceptReject" => id["server"] > 0
      BY DEF Authentic, Life!AuthInv
    <2> QED BY <1>1, <1>2, <2>1 DEF Authentic, Life!Answered
  <1>7. id'["server"] > 0 => /\ sentBy'["server"] # <<>> /\ sentBy'["server"][1].kind = "ServerChallenge"
                             /\ sentBy'["server"][1].from = id'["server"]
    BY <1>1, <1>2 DEF Life!AuthInv
  <1>8. /\ partner'["client"] <= id'["server"] /\ (state'["client"] = "AwaitingAcceptance" => partner'["client"] > 0)
        /\ state'["client"] \notin {"AwaitingClientChallenge", "AwaitingClientResponse", "AwaitingAcceptReject"}
        /\ state'["server"] \notin {"AwaitingServerChallenge", "AwaitingAcceptance", "AwaitingClientChallenge"}
        /\ \A e \in Life!End : state'[e] # "None" => id'[e] > 0
    BY <1>1 DEF Life!AuthInv, Authentic
  <1> QED BY <1>4, <1>5, <1>6, <1>7, <1>8 DEF Life!AuthInv

\* A step that authenticates nobody.
Ordinary ==
  /\ UNCHANGED <<id, partner>> /\ HeldKept
  /\ \/ sentBy' = sentBy
     \/ \E e \in Life!End, m \in Life!Messages :
          m.kind \notin {"ServerChallenge", "ClientResponse"} /\ state[e] # "None" /\ Says(e, m)
  /\ \A e \in Life!End : /\ state'[e] \in {state[e], "None", "Connected", "Closing"}
                         /\ state'[e] # "None" => state[e] # "None"

\* Such a step is authentic.
LEMMA OrdinaryIs ==
  ASSUME Life!TypeOK, Life!AuthInv, Ordinary
  PROVE  Authentic
  <1>1. Utters /\ HeldKept
    BY DEF Ordinary, Utters
  <1>2. /\ state'["client"] \in {state["client"], "None", "Connected", "Closing"}
        /\ state'["server"] \in {state["server"], "None", "Connected", "Closing"}
        /\ UNCHANGED <<id, partner>> /\ \A e \in Life!End : state'[e] # "None" => state[e] # "None"
    BY SidesAre DEF Ordinary
  <1> QED BY <1>1, <1>2 DEF Authentic, Life!AuthInv

\* A delivery makes no object.
LEMMA DeliveryAuthentic ==
  ASSUME Life!TypeOK, Life!AuthInv, NEW e \in Life!End, NEW m \in Life!Messages, NextFor(e, m)
  PROVE  Authentic
  <1> USE SidesAre
  <1>1. HeldKept
    <2> SUFFICES ASSUME NEW d \in Life!End, NEW k \in DOMAIN held'[d] PROVE held'[d][k] \in Life!InHand(d)
      BY DEF HeldKept
    <2>1. k \in DOMAIN held[d] /\ held'[d][k] = held[d][k]
      BY EndsAre DEF NextFor
    <2> QED BY <2>1 DEF Life!InHand
  <1>2. Delivery(e, m) /\ id' = id /\ state[e] # "None" /\ m \in Life!InHand(e)
        /\ state \in [Life!End -> States] /\ partner \in [Life!End -> Nat]
    BY DEF NextFor, Life!TypeOK, States
  <1>3. CASE Greets(e, m)
    <2>1. e = "client" /\ m.from \in 1 .. id["server"] /\ (m.from = id["server"] => id["client"] = Life!Answered)
      BY <1>2, <1>3 DEF Greets, Life!AuthInv
    <2>2. Utters
      BY <1>2, <1>3, <2>1 DEF Greets, Utters
    <2>3. /\ state'["client"] = "AwaitingAcceptance" /\ partner'["client"] = m.from
          /\ state'["server"] = state["server"] /\ partner'["server"] = partner["server"]
      BY <1>2, <1>3, <2>1 DEF Greets
    <2> QED BY <1>1, <1>2, <2>1, <2>2, <2>3 DEF Authentic, Life!AuthInv
  <1>4. CASE Responds(e, m)
    <2>1. e = "server" /\ m.from = Life!Answered /\ sentBy' = sentBy
      BY <1>2, <1>4 DEF Responds, Life!AuthInv
    <2>2. /\ state'["server"] = "AwaitingAcceptReject" /\ partner'["server"] = m.from
          /\ state'["client"] = state["client"] /\ partner'["client"] = partner["client"]
      BY <1>2, <1>4, <2>1 DEF Responds
    <2> QED BY <1>1, <1>2, <2>1, <2>2 DEF Authentic, Utters, Life!AuthInv
  <1>5. CASE ~Greets(e, m) /\ ~Responds(e, m)
    <2>1. /\ sentBy' = sentBy /\ partner' = partner
          /\ state' = state \/ state' = [state EXCEPT ![e] = "None"] \/ state' = [state EXCEPT ![e] = "Connected"]
      BY <1>2, <1>5 DEF Delivery, Life!CommunicationError, Life!ConnectionError, Life!HandleClose,
                        Life!HandleKeepAlive, Accepts, Rejects, Takes
    <2>2. Ordinary
      BY <1>1, <1>2, <2>1 DEF Ordinary
    <2> QED BY <2>2, OrdinaryIs
  <1> QED BY <1>3, <1>4, <1>5

\* The client begins anew.
LEMMA ConnectAuth ==
  ASSUME Life!TypeOK, Life!AuthInv, Life!Connect
  PROVE  Life!AuthInv'
  <1> DEFINE m == [kind |-> "ClientChallenge", from |-> id["client"] + 1, re |-> 0, esn |-> 0]
  <1> USE SidesAre
  <1>1. /\ id' = [id EXCEPT !["client"] = @ + 1] /\ DOMAIN held'["client"] = {} /\ held'["server"] = held["server"]
        /\ partner'["client"] = 0 /\ partner'["server"] = partner["server"]
    BY ObjectTypes DEF Life!Connect
  <1>2. /\ sentBy \in [Life!End -> Seq(Life!Messages)] /\ state \in [Life!End -> States]
        /\ id \in [Life!End -> Nat]
    BY DEF Life!TypeOK, Life!Possible, States
  <1>3. sentBy'["client"] = <<m>> /\ sentBy'["server"] = sentBy["server"]
    BY <1>2 DEF Life!Connect
  <1>4. state'["client"] = "AwaitingServerChallenge" /\ state'["server"] = state["server"]
    BY <1>2 DEF Life!Connect
  <1>5. id'["client"] = id["client"] + 1 /\ id'["server"] = id["server"]
    BY <1>1, <1>2
  <1> HIDE DEF m
  <1>6. Life!InHand("client")' \subseteq Life!InHand("client")
    BY <1>1, <1>3 DEF Life!InHand
  <1>7. Life!InHand("server")' \subseteq Life!InHand("server") \union {m}
    BY <1>1, <1>3 DEF Life!InHand
  <1>8. m.kind = "ClientChallenge"
    BY DEF m
  <1> QED BY <1>1, <1>3, <1>4, <1>5, <1>6, <1>7, <1>8 DEF Life!AuthInv, Life!Answered

\* A challenge makes an object at the server.
Arises(m) ==
  /\ Life!NewObject("server") /\ state' = [state EXCEPT !["server"] = "AwaitingClientResponse"]
  /\ got' = [got EXCEPT !["server"] = 1] /\ UNCHANGED closedMsg
  /\ sentBy' = [sentBy EXCEPT !["server"] = <<m>>]
  /\ m.kind = "ServerChallenge" /\ m.from = id["server"] + 1

\* A new object at the server keeps what the challenges show.
LEMMA ArisesAuth ==
  ASSUME Life!TypeOK, Life!AuthInv, NEW m \in Life!Messages, Arises(m)
  PROVE  Life!AuthInv'
  <1> USE SidesAre
  <1>1. /\ id' = [id EXCEPT !["server"] = @ + 1] /\ DOMAIN held'["server"] = {} /\ held'["client"] = held["client"]
        /\ partner'["server"] = 0 /\ partner'["client"] = partner["client"]
    BY ObjectTypes DEF Arises
  <1>2. /\ sentBy \in [Life!End -> Seq(Life!Messages)] /\ state \in [Life!End -> States]
        /\ id \in [Life!End -> Nat] /\ partner \in [Life!End -> Nat]
    BY DEF Life!TypeOK, Life!Possible, States
  <1>3. sentBy'["server"] = <<m>> /\ sentBy'["client"] = sentBy["client"]
    BY <1>2 DEF Arises
  <1>4. state'["server"] = "AwaitingClientResponse" /\ state'["client"] = state["client"]
    BY <1>2 DEF Arises
  <1>5. id'["server"] = id["server"] + 1 /\ id'["client"] = id["client"]
    BY <1>1, <1>2
  <1>6. Life!InHand("client")' \subseteq Life!InHand("client") \union {m}
    BY <1>1, <1>3 DEF Life!InHand
  <1>7. Life!InHand("server")' \subseteq Life!InHand("server")
    BY <1>1, <1>3 DEF Life!InHand
  <1>8. m.kind = "ServerChallenge" /\ m.from = id["server"] + 1 /\ Life!Answered' = m.re
    BY <1>3 DEF Arises, Life!Answered
  <1>9. \A x \in Life!InHand("client")' : x.kind = "ServerChallenge" =>
          x.from \in 1 .. id'["server"] /\ (x.from = id'["server"] => x.re = Life!Answered')
    <2> SUFFICES ASSUME NEW x \in Life!InHand("client")', x.kind = "ServerChallenge"
                 PROVE  x.from \in 1 .. id'["server"] /\ (x.from = id'["server"] => x.re = Life!Answered')
      OBVIOUS
    <2>1. CASE x = m
      BY <1>5, <1>8, <2>1
    <2>2. CASE x \in Life!InHand("client")
      <3>1. x.from \in 1 .. id["server"]
        BY <2>2 DEF Life!AuthInv
      <3> QED BY <1>5, <3>1
    <2> QED BY <1>6, <2>1, <2>2
  <1>10. \A x \in Life!InHand("server")' : x.kind = "ClientResponse" =>
          x.re \in 1 .. id'["server"] /\ (x.re = id'["server"] => x.from = Life!Answered')
    <2> SUFFICES ASSUME NEW x \in Life!InHand("server")', x.kind = "ClientResponse"
                 PROVE  x.re \in 1 .. id'["server"] /\ (x.re = id'["server"] => x.from = Life!Answered')
      OBVIOUS
    <2>1. x.re \in 1 .. id["server"]
      BY <1>7 DEF Life!AuthInv
    <2> QED BY <1>5, <2>1
  <1>11. id'["server"] > 0 => /\ sentBy'["server"] # <<>> /\ sentBy'["server"][1].kind = "ServerChallenge"
                              /\ sentBy'["server"][1].from = id'["server"]
    BY <1>3, <1>5, <1>8
  <1>12. /\ partner'["client"] < id'["server"] /\ (state'["client"] = "AwaitingAcceptance" => partner'["client"] > 0)
         /\ state'["client"] \notin {"AwaitingClientChallenge", "AwaitingClientResponse", "AwaitingAcceptReject"}
         /\ \A e \in Life!End : state'[e] # "None" => id'[e] > 0
    BY <1>1, <1>2, <1>4, <1>5 DEF Life!AuthInv
  <1>13. /\ partner'["client"] # id'["server"] /\ partner'["client"] <= id'["server"]
         /\ state'["server"] = "AwaitingClientResponse"
    BY <1>1, <1>2, <1>4, <1>5, <1>12
  <1> QED BY <1>9, <1>10, <1>11, <1>12, <1>13 DEF Life!AuthInv

\* What a message without a connection does.
LEMMA NoConnectionIs ==
  ASSUME Life!TypeOK, NEW e \in Life!End, Life!NoConnection(e)
  PROVE  /\ state[e] = "None" /\ UNCHANGED <<up, accepted, crashes>>
         /\ \E n \in DOMAIN sentBy[Life!Other(e)] :
              \/ /\ e = "server" /\ sentBy[Life!Other(e)][n].kind = "ClientChallenge"
                 /\ \E m \in Life!Messages : Arises(m)
              \/ /\ Life!AnsweredClosed(e, sentBy[Life!Other(e)][n]) /\ Life!SendClosed(e)
                 /\ UNCHANGED <<state, id, partner, sentBy, acked, got, held, told, received>>
  <1> DEFINE s == sentBy[Life!Other(e)]
             r(n) == [kind |-> "ServerChallenge", from |-> id[e] + 1, re |-> s[n].from, esn |-> 1]
  <1>1. s \in Seq(Life!Messages) /\ id[e] \in Nat /\ DOMAIN s = 1 .. Len(s)
    <2>1. s \in Seq(Life!Messages)
      BY EndsAre DEF Life!TypeOK
    <2> QED BY <2>1, SidesAre
  <1>2. PICK n \in DOMAIN s :
          \/ /\ e = "server" /\ s[n].kind = "ClientChallenge" /\ Life!NewObject(e)
             /\ state' = [state EXCEPT ![e] = "AwaitingClientResponse"]
             /\ got' = [got EXCEPT ![e] = 1]
             /\ sentBy' = [sentBy EXCEPT ![e] = <<r(n)>>]
             /\ UNCHANGED closedMsg
          \/ /\ Life!AnsweredClosed(e, s[n]) /\ Life!SendClosed(e)
             /\ UNCHANGED <<state, id, partner, sentBy, acked, got, held, told, received>>
    BY DEF Life!NoConnection, Life!Arriving
  <1>3. s[n] \in Life!Messages
    BY <1>1
  <1>4. s[n].from \in Nat
    BY <1>3 DEF Life!Messages
  <1>5. r(n) \in Life!Messages /\ r(n).kind = "ServerChallenge" /\ r(n).from = id[e] + 1
    <2>1. "ServerChallenge" \in Life!Kinds /\ id[e] + 1 \in Nat
      BY <1>1 DEF Life!Kinds
    <2>2. r(n).kind = "ServerChallenge" /\ r(n).from = id[e] + 1
      OBVIOUS
    <2> HIDE DEF s
    <2>3. r(n) \in [kind : Life!Kinds, from : Nat, re : Nat, esn : Nat]
      BY <1>4, <2>1
    <2> QED BY <2>2, <2>3 DEF Life!Messages
  <1> HIDE DEF r, s
  <1>6. CASE /\ e = "server" /\ s[n].kind = "ClientChallenge" /\ Life!NewObject(e)
             /\ state' = [state EXCEPT ![e] = "AwaitingClientResponse"]
             /\ got' = [got EXCEPT ![e] = 1]
             /\ sentBy' = [sentBy EXCEPT ![e] = <<r(n)>>]
             /\ UNCHANGED closedMsg
    <2>1. Arises(r(n))
      BY <1>5, <1>6 DEF Arises
    <2> QED BY <1>2, <1>5, <1>6, <2>1 DEF s, Life!NoConnection
  <1>7. CASE /\ Life!AnsweredClosed(e, s[n]) /\ Life!SendClosed(e)
             /\ UNCHANGED <<state, id, partner, sentBy, acked, got, held, told, received>>
    BY <1>2, <1>7 DEF s, Life!NoConnection
  <1> QED BY <1>2, <1>6, <1>7

\* An end says something of its own.
Speech(e, m) ==
  /\ Says(e, m) /\ state[e] # "None"
  /\ UNCHANGED <<id, partner, acked, got, held, received, closedMsg, crashes>>
  /\ \/ /\ e = "server" /\ m.kind = "Accept" /\ state[e] = "AwaitingAcceptReject"
        /\ state' = [state EXCEPT ![e] = "Connected"] /\ told' = [told EXCEPT ![e] = <<"accepted">>]
     \/ /\ e = "server" /\ m.kind = "Reject" /\ state[e] = "AwaitingAcceptReject"
        /\ state' = [state EXCEPT ![e] = "Closing"] /\ told' = told
     \/ m.kind = "Data" /\ state[e] = "Connected" /\ UNCHANGED <<state, told>>
     \/ m.kind = "KeepAlive" /\ acked[e] = Len(sentBy[e]) /\ UNCHANGED <<state, told>>
     \/ /\ m.kind = "Close" /\ e \in may.closers /\ state[e] # "Closing"
        /\ state' = [state EXCEPT ![e] = "Closing"] /\ told' = told

\* What an end sends of its own accord.
Speaking(e) ==
  \/ e = "server" /\ (Life!Accept \/ Life!Reject)
  \/ Life!CheckKeepAlive(e) \/ Life!SendData(e) \/ Life!CloseSoft(e)

\* Whatever it sends is such a message.
LEMMA SpeechIs ==
  ASSUME Life!TypeOK, NEW e \in Life!End, Speaking(e)
  PROVE  \E m \in Life!Messages : Speech(e, m)
  <1> DEFINE Others == UNCHANGED <<id, partner, acked, got, held, received, closedMsg, crashes>>
  <1>1. ASSUME NEW kind \in Life!Kinds, Life!Send(e, kind)
        PROVE  \E m \in Life!Messages : m.kind = kind /\ Says(e, m)
    <2>1. got[e] \in Nat
      BY DEF Life!TypeOK
    <2> QED BY <1>1, <2>1, Speaks DEF Life!Send
  <1>2. CASE e = "server" /\ Life!Accept
    <2>1. Life!Send("server", "Accept") /\ Others
      BY <1>2 DEF Life!Accept
    <2>2. \E m \in Life!Messages : m.kind = "Accept" /\ Says(e, m)
      BY <1>1, <1>2, <2>1 DEF Life!Kinds
    <2> QED BY <1>2, <2>1, <2>2 DEF Life!Accept, Speech
  <1>3. CASE e = "server" /\ Life!Reject
    <2>1. Life!Send("server", "Reject") /\ Others
      BY <1>3 DEF Life!Reject
    <2>2. \E m \in Life!Messages : m.kind = "Reject" /\ Says(e, m)
      BY <1>1, <1>3, <2>1 DEF Life!Kinds
    <2> QED BY <1>3, <2>1, <2>2 DEF Life!Reject, Speech
  <1>4. CASE Life!CheckKeepAlive(e)
    <2>1. Life!Send(e, "KeepAlive") /\ Others
      BY <1>4 DEF Life!CheckKeepAlive
    <2>2. \E m \in Life!Messages : m.kind = "KeepAlive" /\ Says(e, m)
      BY <1>1, <2>1 DEF Life!Kinds
    <2> QED BY <1>4, <2>1, <2>2 DEF Life!CheckKeepAlive, Speech
  <1>5. CASE Life!SendData(e)
    <2>1. Life!Send(e, "Data") /\ Others
      BY <1>5 DEF Life!SendData
    <2>2. \E m \in Life!Messages : m.kind = "Data" /\ Says(e, m)
      BY <1>1, <2>1 DEF Life!Kinds
    <2> QED BY <1>5, <2>1, <2>2 DEF Life!SendData, Speech
  <1>6. CASE Life!CloseSoft(e)
    <2>1. Life!Send(e, "Close") /\ Others
      BY <1>6 DEF Life!CloseSoft, Life!SendClose
    <2>2. \E m \in Life!Messages : m.kind = "Close" /\ Says(e, m)
      BY <1>1, <2>1 DEF Life!Kinds
    <2> QED BY <1>6, <2>1, <2>2 DEF Life!CloseSoft, Speech
  <1> QED BY <1>2, <1>3, <1>4, <1>5, <1>6 DEF Speaking

\* Whatever ends, an object at an end stays the same.
Quits(e) == Life!HandleClosed(e) \/ Life!CheckTimeout(e) \/ Life!CloseHard(e)

\* Every step is one of these.
LEMMA StepIs ==
  ASSUME Life!TypeOK, Life!AuthInv, Life!Next
  PROVE  /\ may' = may
         /\ \/ Life!Connect \/ Life!LoseClosed
            \/ \E e \in Life!End :
                 \/ \E m \in Life!Messages : NextFor(e, m) \/ Speech(e, m)
                 \/ Life!Hold(e) \/ Life!NoConnection(e) \/ Life!Ack(e) \/ Quits(e)
                 \/ Life!Crash(e) \/ Life!Restart(e)
  <1>1. Sides /\ may' = may /\ Life!Step
    BY DEF Life!AuthInv, Sides, Life!Next
  <1>2. CASE Life!Connect \/ Life!LoseClosed
    BY <1>1, <1>2
  <1>3. CASE Life!Accept \/ Life!Reject
    BY <1>1, <1>3, SpeechIs, SidesAre DEF Speaking
  <1>4. ASSUME NEW e \in Life!End, Life!DeliverNext(e)
        PROVE  \E m \in Life!Messages : NextFor(e, m)
    BY <1>1, <1>4, NextIs
  <1>5. ASSUME NEW e \in Life!End, Life!CheckKeepAlive(e) \/ Life!SendData(e) \/ Life!CloseSoft(e)
        PROVE  \E m \in Life!Messages : Speech(e, m)
    BY <1>5, SpeechIs DEF Speaking
  <1> QED BY <1>1, <1>2, <1>3, <1>4, <1>5 DEF Life!Step, Life!ReceiveMessages, Quits

\* Every step keeps what the challenges show.
LEMMA LifeAuth ==
  ASSUME Life!TypeOK, Life!AuthInv, Life!Next
  PROVE  Life!AuthInv'
  <1> USE SidesAre
  <1>1. state \in [Life!End -> States]
    BY DEF Life!TypeOK, States
  <1>2. held' = held => HeldKept
    BY DEF HeldKept, Life!InHand
  <1>3. ASSUME UNCHANGED <<id, partner, held>>,
               \/ sentBy' = sentBy
               \/ \E e \in Life!End, m \in Life!Messages :
                    m.kind \notin {"ServerChallenge", "ClientResponse"} /\ state[e] # "None" /\ Says(e, m),
               NEW e \in Life!End, NEW to \in {"None", "Connected", "Closing"},
               state' = state \/ (state' = [state EXCEPT ![e] = to] /\ (to # "None" => state[e] # "None"))
        PROVE  Life!AuthInv'
    <2>1. \A d \in Life!End : /\ state'[d] \in {state[d], "None", "Connected", "Closing"}
                              /\ state'[d] # "None" => state[d] # "None"
      BY <1>1, <1>3
    <2>2. Ordinary
      BY <1>2, <1>3, <2>1 DEF Ordinary
    <2> QED BY <2>2, OrdinaryIs, AuthenticStep
  <1>4. CASE Life!Connect
    BY <1>4, ConnectAuth
  <1>5. CASE Life!LoseClosed
    BY <1>3, <1>5 DEF Life!LoseClosed
  <1>6. ASSUME NEW e \in Life!End, NEW m \in Life!Messages, NextFor(e, m) PROVE Life!AuthInv'
    BY <1>6, DeliveryAuthentic, AuthenticStep
  <1>7. ASSUME NEW e \in Life!End, NEW m \in Life!Messages, Speech(e, m) PROVE Life!AuthInv'
    <2>1. \E to \in {"None", "Connected", "Closing"} :
            state' = state \/ (state' = [state EXCEPT ![e] = to] /\ (to # "None" => state[e] # "None"))
      BY <1>7 DEF Speech
    <2>2. UNCHANGED <<id, partner, held>> /\ state[e] # "None" /\ Says(e, m) /\ m.kind \notin {"ServerChallenge", "ClientResponse"}
      BY <1>7 DEF Speech
    <2> QED BY <1>3, <2>1, <2>2
  <1>8. ASSUME NEW e \in Life!End, Life!Hold(e) PROVE Life!AuthInv'
    <2>1. UNCHANGED <<state, id, partner, sentBy>>
      BY <1>8 DEF Life!Hold
    <2>2. HeldKept
      <3> SUFFICES ASSUME NEW d \in Life!End, NEW k \in DOMAIN held'[d] PROVE held'[d][k] \in Life!InHand(d)
        BY DEF HeldKept
      <3>1. PICK n \in DOMAIN sentBy[Life!Other(e)] :
              held' = [held EXCEPT ![e] =
                [j \in DOMAIN @ \union {n} |-> IF j = n THEN sentBy[Life!Other(e)][n] ELSE @[j]]]
        BY <1>8 DEF Life!Hold, Life!Arriving
      <3>2. DOMAIN held = Life!End
        BY DEF Life!TypeOK
      <3>3. \/ k \in DOMAIN held[d] /\ held'[d][k] = held[d][k]
            \/ d = e /\ held'[d][k] = sentBy[Life!Other(e)][n]
        BY <3>1, <3>2
      <3> QED BY <3>1, <3>3 DEF Life!InHand
    <2>3. Ordinary
      BY <1>1, <2>1, <2>2 DEF Ordinary
    <2> QED BY <2>3, OrdinaryIs, AuthenticStep
  <1>9. ASSUME NEW e \in Life!End, Life!NoConnection(e) PROVE Life!AuthInv'
    <2>1. CASE \E m \in Life!Messages : Arises(m)
      BY <2>1, ArisesAuth
    <2>2. CASE UNCHANGED <<state, id, partner, sentBy, acked, got, held, told, received>>
      BY <1>3, <2>2
    <2> QED BY <1>9, <2>1, <2>2, NoConnectionIs
  <1>10. ASSUME NEW e \in Life!End, Life!Ack(e) PROVE Life!AuthInv'
    BY <1>3, <1>10 DEF Life!Ack
  <1>11. ASSUME NEW e \in Life!End, Quits(e) PROVE Life!AuthInv'
    BY <1>3, <1>11 DEF Quits, Life!HandleClosed, Life!CheckTimeout, Life!CloseHard, Life!ConnectionError
  <1>12. ASSUME NEW e \in Life!End, Life!Crash(e) PROVE Life!AuthInv'
    BY <1>3, <1>12 DEF Life!Crash
  <1>13. ASSUME NEW e \in Life!End, Life!Restart(e) PROVE Life!AuthInv'
    BY <1>3, <1>13 DEF Life!Restart
  <1> QED BY <1>4, <1>5, <1>6, <1>7, <1>8, <1>9, <1>10, <1>11, <1>12, <1>13, StepIs

-----------------------------------------------------------------------------
(***************************************************************************)
(* Connections: what an end is told                                        *)
(***************************************************************************)

\* Who is told nothing, accepted, and closed after it.
LEMMA Telling ==
  /\ Append(<<>>, "failed") = <<"failed">> /\ Append(<<>>, "connected") = <<"connected">>
  /\ Append(<<"connected">>, "closed") = <<"connected", "closed">>
  /\ Append(<<"accepted">>, "closed") = <<"accepted", "closed">>
  <1>1. ASSUME NEW x \in Life!Notices PROVE Append(<<>>, x) = <<x>>
    <2>1. <<>> \in Seq(Life!Notices) /\ Len(<<>>) = 0
      OBVIOUS
    <2>2. Append(<<>>, x) \in Seq(Life!Notices) /\ Len(Append(<<>>, x)) = 1 /\ Append(<<>>, x)[1] = x
      BY <2>1, Said
    <2>3. <<x>> \in Seq(Life!Notices) /\ Len(<<x>>) = 1 /\ <<x>>[1] = x
      OBVIOUS
    <2>4. \A k \in 1 .. 1 : Append(<<>>, x)[k] = <<x>>[k]
      BY <2>2, <2>3
    <2> QED BY <2>2, <2>3, <2>4, SeqEqual
  <1>2. ASSUME NEW x \in Life!Notices, NEW y \in Life!Notices PROVE Append(<<x>>, y) = <<x, y>>
    <2>1. <<x>> \in Seq(Life!Notices) /\ Len(<<x>>) = 1 /\ <<x>>[1] = x
      OBVIOUS
    <2>2. /\ Append(<<x>>, y) \in Seq(Life!Notices) /\ Len(Append(<<x>>, y)) = 2
          /\ Append(<<x>>, y)[1] = x /\ Append(<<x>>, y)[2] = y
      BY <2>1, Said
    <2>3. <<x, y>> \in Seq(Life!Notices) /\ Len(<<x, y>>) = 2 /\ <<x, y>>[1] = x /\ <<x, y>>[2] = y
      OBVIOUS
    <2>4. \A k \in 1 .. 2 : Append(<<x>>, y)[k] = <<x, y>>[k]
      BY <2>2, <2>3
    <2> QED BY <2>2, <2>3, <2>4, SeqEqual
  <1> QED BY <1>1, <1>2 DEF Life!Notices

\* The client has its callbacks from the start, the server's from Accept on.
LEMMA HasThem ==
  /\ told["server"] = <<>> => ~Life!HasCallbacks("server")
  /\ told["server"] = <<"accepted">> => Life!HasCallbacks("server")
  /\ Life!HasCallbacks("client")
  <1>1. ASSUME told["server"] = <<>> PROVE ~Life!HasCallbacks("server")
    <2>1. DOMAIN told["server"] = {}
      BY <1>1
    <2> QED BY <2>1 DEF Life!HasCallbacks
  <1>2. ASSUME told["server"] = <<"accepted">> PROVE Life!HasCallbacks("server")
    <2>1. 1 \in DOMAIN told["server"] /\ told["server"][1] = "accepted"
      BY <1>2
    <2> QED BY <2>1 DEF Life!HasCallbacks
  <1> QED BY <1>1, <1>2 DEF Life!HasCallbacks

\* ToldInv at an end.
ToldAt(e) ==
  /\ state[e] \in Life!Negotiating => told[e] = <<>>
  /\ state[e] = "Connected" => told[e] = IF e = "client" THEN <<"connected">> ELSE <<"accepted">>
  /\ state[e] = "Closing" => e = "server" /\ told[e] \in {<<>>, <<"accepted">>}
  /\ e = "client" => told[e] \in {<<>>, <<"connected">>, <<"failed">>, <<"connected", "closed">>}
  /\ e = "server" => told[e] \in {<<>>, <<"accepted">>, <<"accepted", "closed">>}

\* What a step does to the state of an end and to what it has been told.
Stays(e) == state'[e] = state[e] /\ told'[e] = told[e]
Advances(e) ==
  /\ state[e] \in Life!Negotiating /\ state'[e] \in {"AwaitingAcceptance", "AwaitingAcceptReject"}
  /\ told'[e] = told[e]
Welcomes(e) ==
  \/ e = "client" /\ state[e] \in Life!Negotiating /\ told'[e] = Append(told[e], "connected")
  \/ e = "server" /\ state[e] = "AwaitingAcceptReject" /\ told'[e] = <<"accepted">>
Retires(e) == e = "server" /\ state[e] \in Life!Negotiating \union {"Connected"} /\ told'[e] = told[e]
Fails(e) ==
  /\ state[e] \in Life!Negotiating
  /\ \/ e = "client" /\ told'[e] = Append(told[e], "failed")
     \/ e = "server" /\ told'[e] = IF Life!HasCallbacks(e) THEN Append(told[e], "failed") ELSE told[e]
     \/ e = "server" /\ told'[e] = told[e]
Finishes(e) ==
  /\ state[e] \in {"Connected", "Closing"}
  /\ told'[e] = IF Life!HasCallbacks(e) THEN Append(told[e], "closed") ELSE told[e]
Resets(e) ==
  /\ told'[e] = <<>> /\ state'[e] \in Life!Negotiating \union {"None"}
  /\ crashes' = crashes + 1 \/ id'[e] = id[e] + 1
Turns(e) ==
  \/ Stays(e) \/ Advances(e)
  \/ Welcomes(e) /\ state'[e] = "Connected"
  \/ Retires(e) /\ state'[e] = "Closing"
  \/ (Fails(e) \/ Finishes(e)) /\ state'[e] = "None"
  \/ Resets(e)

\* Such a turn keeps what an end has been told.
LEMMA ToldTurns ==
  ASSUME NEW e \in Life!End, state[e] \in States, ToldAt(e), Turns(e)
  PROVE  ToldAt(e)'
  <1> USE DEF ToldAt, States, Life!Negotiating, Life!End
  <1>1. CASE Stays(e)
    BY <1>1 DEF Stays
  <1>2. CASE Advances(e)
    BY <1>2 DEF Advances
  <1>3. CASE Welcomes(e) /\ state'[e] = "Connected"
    BY <1>3, Telling DEF Welcomes
  <1>4. CASE Retires(e) /\ state'[e] = "Closing"
    BY <1>4 DEF Retires
  <1>5. CASE Fails(e) /\ state'[e] = "None"
    BY <1>5, Telling, HasThem DEF Fails
  <1>6. CASE Finishes(e) /\ state'[e] = "None"
    BY <1>6, Telling, HasThem DEF Finishes
  <1>7. CASE Resets(e)
    BY <1>7 DEF Resets
  <1> QED BY <1>1, <1>2, <1>3, <1>4, <1>5, <1>6, <1>7 DEF Turns

\* What the client says when it does not close.
ClientKinds == {"ClientChallenge", "ClientResponse", "Data", "KeepAlive"}
ClientSays == \A i \in DOMAIN sentBy["client"] : sentBy["client"][i].kind \in ClientKinds

\* It says more of the same.
LEMMA ClientSaysMore ==
  ASSUME Life!TypeOK, ClientSays, NEW e \in Life!End, NEW m \in Life!Messages, Says(e, m),
         e = "client" => m.kind \in ClientKinds
  PROVE  ClientSays'
  <1> USE SidesAre, EndsAre
  <1>1. CASE e = "client"
    <2> DEFINE n == Len(sentBy["client"])
    <2>1. /\ n \in Nat /\ DOMAIN sentBy["client"] = 1 .. n /\ DOMAIN sentBy'["client"] = 1 .. (n + 1)
          /\ \A k \in 1 .. n : sentBy'["client"][k] = sentBy["client"][k]
          /\ sentBy'["client"][n + 1] = m
      BY <1>1, SaidTypes
    <2> SUFFICES ASSUME NEW i \in DOMAIN sentBy'["client"] PROVE sentBy'["client"][i].kind \in ClientKinds
      BY DEF ClientSays
    <2>2. i \in 1 .. n \/ i = n + 1
      BY <2>1
    <2> QED BY <1>1, <2>1, <2>2 DEF ClientSays
  <1>2. CASE e = "server"
    <2>1. sentBy'["client"] = sentBy["client"]
      BY <1>2, SaidTypes
    <2> QED BY <2>1 DEF ClientSays
  <1> QED BY <1>1, <1>2

\* ToldInv, end by end.
LEMMA ToldInvIs ==
  ASSUME Life!ServerCloses
  PROVE  Life!ToldInv <=> (\A e \in Life!End : ToldAt(e)) /\ ClientSays
  BY SidesAre DEF Life!ToldInv, ToldAt, ClientSays, ClientKinds, Life!End

\* What a delivery does to both ends.
LEMMA DeliveryTurns ==
  ASSUME Life!TypeOK, Life!AuthInv, NEW e \in Life!End, NEW m \in Life!Messages, NextFor(e, m)
  PROVE  /\ \A d \in Life!End : Turns(d)
         /\ sentBy' = sentBy \/ \E r \in Life!Messages : r.kind = "ClientResponse" /\ Says(e, r)
  <1>1. /\ Delivery(e, m) /\ state[e] # "None"
        /\ state \in [Life!End -> States] /\ told \in [Life!End -> Seq(Life!Notices)]
    BY DEF NextFor, Life!TypeOK, States
  <1>2. ASSUME Life!ConnectionError(e) PROVE \A d \in Life!End : Turns(d)
    <2>1. Stays(Life!Other(e))
      BY <1>1, <1>2, ErrorTypes, EndsAre DEF Stays
    <2>2. (Fails(e) \/ Finishes(e)) /\ state'[e] = "None"
      BY <1>1, <1>2, ErrorTypes DEF Fails, Finishes, States
    <2> QED BY <2>1, <2>2, EndsAre DEF Turns
  <1>3. CASE Life!CommunicationError(e) \/ Life!HandleClose(e)
    BY <1>2, <1>3 DEF Life!CommunicationError, Life!HandleClose
  <1>4. CASE Greets(e, m) \/ Responds(e, m)
    <2>1. Stays(Life!Other(e)) /\ Advances(e)
      BY <1>1, <1>4, EndsAre DEF Stays, Advances, Greets, Responds, Life!Negotiating
    <2>2. sentBy' = sentBy \/ \E r \in Life!Messages : r.kind = "ClientResponse" /\ Says(e, r)
      BY <1>4 DEF Greets, Responds
    <2> QED BY <2>1, <2>2, EndsAre DEF Turns
  <1>5. CASE Accepts(e, m)
    <2>1. Stays(Life!Other(e)) /\ Welcomes(e) /\ state'[e] = "Connected"
      BY <1>1, <1>5, EndsAre DEF Stays, Welcomes, Accepts, Life!Negotiating
    <2> QED BY <1>5, <2>1, EndsAre DEF Turns, Accepts
  <1>6. CASE Rejects(e, m)
    <2>1. Stays(Life!Other(e)) /\ Fails(e) /\ state'[e] = "None"
      BY <1>1, <1>6, EndsAre DEF Stays, Fails, Rejects, Life!Negotiating
    <2> QED BY <1>6, <2>1, EndsAre DEF Turns, Rejects
  <1>7. CASE Takes(e, m) \/ Life!HandleKeepAlive(e)
    BY <1>7 DEF Takes, Life!HandleKeepAlive, Turns, Stays
  <1> QED BY <1>1, <1>3, <1>4, <1>5, <1>6, <1>7 DEF Delivery

\* What a step does to both ends.
LEMMA StepTurns ==
  ASSUME Life!TypeOK, Life!AuthInv, Life!ToldInv, Life!ServerCloses, Life!Next
  PROVE  (\A d \in Life!End : Turns(d)) /\ ClientSays'
  <1> DEFINE goal == (\A d \in Life!End : Turns(d)) /\ ClientSays'
  <1> USE SidesAre, EndsAre
  <1>1. /\ state \in [Life!End -> States] /\ told \in [Life!End -> Seq(Life!Notices)]
        /\ sentBy \in [Life!End -> Seq(Life!Messages)]
        /\ may' = may /\ "client" \notin may.closers /\ ~may.hard
        /\ (\A e \in Life!End : ToldAt(e)) /\ ClientSays /\ Life!ServerCloses'
    BY ToldInvIs DEF Life!TypeOK, States, Life!Next, Life!ServerCloses
  <1>2. (\A d \in Life!End : Turns(d)) /\ ClientSays' => goal
    OBVIOUS
  <1> HIDE DEF goal
  <1>3. sentBy' = sentBy => ClientSays'
    BY <1>1 DEF ClientSays
  <1>4. UNCHANGED <<state, told>> => \A d \in Life!End : Turns(d)
    BY DEF Turns, Stays
  <1>5. CASE Life!Connect
    <2>1. state'["client"] = "AwaitingServerChallenge" /\ state'["server"] = state["server"]
      BY <1>1, <1>5 DEF Life!Connect
    <2>2. /\ told'["client"] = <<>> /\ told'["server"] = told["server"]
          /\ id'["client"] = id["client"] + 1
      BY <1>5, NewObjectIs DEF Life!Connect
    <2>3. ClientSays'
      <3>1. sentBy'["client"] = <<[kind |-> "ClientChallenge", from |-> id["client"] + 1, re |-> 0, esn |-> 0]>>
        BY <1>1, <1>5 DEF Life!Connect
      <3> QED BY <3>1 DEF ClientSays, ClientKinds
    <2> QED BY <1>2, <2>1, <2>2, <2>3 DEF Turns, Stays, Resets, Life!Negotiating
  <1>6. CASE Life!LoseClosed
    BY <1>2, <1>3, <1>4, <1>6 DEF Life!LoseClosed
  <1>7. ASSUME NEW e \in Life!End, NEW m \in Life!Messages, NextFor(e, m) PROVE goal
    <2>1. ClientSays'
      BY <1>1, <1>3, <1>7, DeliveryTurns, ClientSaysMore DEF ClientKinds
    <2> QED BY <1>2, <1>7, <2>1, DeliveryTurns
  <1>8. ASSUME NEW e \in Life!End, NEW m \in Life!Messages, Speech(e, m) PROVE goal
    <2>1. Says(e, m) /\ (e = "client" => m.kind \in ClientKinds)
      BY <1>1, <1>8 DEF Speech, ClientKinds
    <2>2. ClientSays'
      BY <1>1, <2>1, ClientSaysMore
    <2>3. \A d \in Life!End : Turns(d)
      <3>1. Stays(Life!Other(e))
        BY <1>1, <1>8 DEF Speech, Stays
      <3>2. Turns(e)
        BY <1>1, <1>8 DEF Speech, Turns, Stays, Welcomes, Retires, States, Life!Negotiating
      <3> QED BY <3>1, <3>2 DEF Turns
    <2> QED BY <1>2, <2>2, <2>3
  <1>9. ASSUME NEW e \in Life!End, Life!Hold(e) PROVE goal
    BY <1>2, <1>3, <1>4, <1>9 DEF Life!Hold
  <1>10. ASSUME NEW e \in Life!End, Life!NoConnection(e) PROVE goal
    <2>1. CASE \E m \in Life!Messages : Arises(m)
      <3>1. PICK m \in Life!Messages : Arises(m)
        BY <2>1
      <3>2. state'["server"] = "AwaitingClientResponse" /\ state'["client"] = state["client"]
        BY <1>1, <3>1 DEF Arises
      <3>3. told'["server"] = <<>> /\ told'["client"] = told["client"] /\ id'["server"] = id["server"] + 1
        BY <3>1, NewObjectIs DEF Arises
      <3>4. sentBy'["client"] = sentBy["client"]
        BY <1>1, <3>1 DEF Arises
      <3>5. ClientSays'
        BY <1>1, <3>4 DEF ClientSays
      <3> QED BY <1>2, <3>2, <3>3, <3>5 DEF Turns, Stays, Resets, Life!Negotiating
    <2>2. CASE UNCHANGED <<state, id, partner, sentBy, acked, got, held, told, received>>
      BY <1>2, <1>3, <1>4, <2>2
    <2> QED BY <1>10, <2>1, <2>2, NoConnectionIs
  <1>11. ASSUME NEW e \in Life!End, Life!Ack(e) PROVE goal
    BY <1>2, <1>3, <1>4, <1>11 DEF Life!Ack
  <1>12. ASSUME NEW e \in Life!End, Quits(e) PROVE goal
    <2>1. sentBy' = sentBy
      BY <1>12 DEF Quits, Life!HandleClosed, Life!CheckTimeout, Life!CloseHard
    <2>2. CASE state[e] # "None" /\ Life!ConnectionError(e)
      <3>1. Stays(Life!Other(e))
        BY <1>1, <2>2, ErrorTypes DEF Stays
      <3>2. (Fails(e) \/ Finishes(e)) /\ state'[e] = "None"
        BY <1>1, <2>2, ErrorTypes DEF Fails, Finishes, States
      <3> QED BY <1>2, <1>3, <2>1, <3>1, <3>2 DEF Turns
    <2>3. CASE Life!CheckTimeout(e)
      <3>0. state[e] \in Life!Negotiating /\ state' = [state EXCEPT ![e] = "None"] /\ Life!Tell(e, "failed")
        BY <2>3 DEF Life!CheckTimeout, Life!TimesOut
      <3>1. Stays(Life!Other(e))
        BY <1>1, <3>0, TellTypes DEF Stays, Life!Notices
      <3>2. Fails(e) /\ state'[e] = "None"
        BY <1>1, <3>0, TellTypes, HasThem DEF Fails, Life!Notices, Life!End
      <3> QED BY <1>2, <1>3, <2>1, <3>1, <3>2 DEF Turns
    <2>4. CASE UNCHANGED <<state, told>>
      BY <1>2, <1>3, <1>4, <2>1, <2>4
    <2> QED BY <1>1, <1>12, <2>2, <2>3, <2>4 DEF Quits, Life!HandleClosed, Life!CloseHard
  <1>13. ASSUME NEW e \in Life!End, Life!Crash(e) PROVE goal
    <2>1. /\ state'[e] = "None" /\ told'[e] = <<>> /\ sentBy' = sentBy
          /\ state'[Life!Other(e)] = state[Life!Other(e)] /\ told'[Life!Other(e)] = told[Life!Other(e)]
          /\ crashes' = crashes + 1
      BY <1>1, <1>13 DEF Life!Crash
    <2> QED BY <1>2, <1>3, <2>1 DEF Turns, Stays, Resets
  <1>14. ASSUME NEW e \in Life!End, Life!Restart(e) PROVE goal
    BY <1>2, <1>3, <1>4, <1>14 DEF Life!Restart
  <1> QED BY <1>5, <1>6, <1>7, <1>8, <1>9, <1>10, <1>11, <1>12, <1>13, <1>14, StepIs DEF goal

\* Every step keeps what an end has been told.
LEMMA LifeTold ==
  ASSUME Life!TypeOK, Life!AuthInv, Life!ToldInv, Life!Next
  PROVE  Life!ToldInv'
  <1> SUFFICES ASSUME Life!ServerCloses PROVE Life!ToldInv'
    BY DEF Life!Next, Life!ServerCloses, Life!ToldInv
  <1>1. state \in [Life!End -> States] /\ (\A e \in Life!End : ToldAt(e)) /\ Life!ServerCloses'
    BY ToldInvIs DEF Life!TypeOK, States, Life!Next, Life!ServerCloses
  <1>2. \A e \in Life!End : ToldAt(e)'
    BY <1>1, StepTurns, ToldTurns
  <1>3. ClientSays'
    BY StepTurns
  <1> QED BY <1>1, <1>2, <1>3, SidesAre DEF Life!ToldInv, ToldAt, ClientSays, ClientKinds

-----------------------------------------------------------------------------
(***************************************************************************)
(* Connections: the first one, and the order of its messages               *)
(***************************************************************************)

\* A step after which the connection is still the first was taken in the first.
LEMMA FirstBefore ==
  ASSUME Life!TypeOK, Life!AuthInv, Life!Next, Life!First'
  PROVE  /\ Life!First /\ crashes' = 0 /\ crashes = 0
         /\ \A e \in Life!End : id[e] \in {0, 1} /\ id'[e] \in {0, 1} /\ (id'[e] # id[e] => id[e] = 0)
  <1> USE SidesAre, EndsAre
  <1>1. id \in [Life!End -> Nat] /\ crashes \in Nat
    BY DEF Life!TypeOK, Life!Possible
  <1>2. /\ crashes' \in {crashes, crashes + 1}
        /\ \A e \in Life!End : id'[e] \in {id[e], id[e] + 1}
    <2>1. CASE Life!Connect
      BY <1>1, <2>1, NewObjectIs DEF Life!Connect
    <2>2. CASE Life!LoseClosed
      BY <2>2 DEF Life!LoseClosed
    <2>3. ASSUME NEW e \in Life!End, NEW m \in Life!Messages, NextFor(e, m) \/ Speech(e, m)
          PROVE  UNCHANGED <<id, crashes>>
      BY <2>3 DEF NextFor, Speech
    <2>4. ASSUME NEW e \in Life!End, Life!NoConnection(e)
          PROVE  crashes' = crashes /\ \A d \in Life!End : id'[d] \in {id[d], id[d] + 1}
      <3>1. crashes' = crashes /\ (id' = id \/ \E m \in Life!Messages : Arises(m))
        BY <2>4, NoConnectionIs
      <3> QED BY <1>1, <3>1, NewObjectIs DEF Arises
    <2>5. ASSUME NEW e \in Life!End, Life!Hold(e) \/ Life!Ack(e) \/ Quits(e) \/ Life!Restart(e)
          PROVE  UNCHANGED <<id, crashes>>
      BY <2>5 DEF Life!Hold, Life!Ack, Quits, Life!Restart, Life!HandleClosed, Life!CheckTimeout, Life!CloseHard
    <2>6. ASSUME NEW e \in Life!End, Life!Crash(e) PROVE id' = id /\ crashes' = crashes + 1
      BY <2>6 DEF Life!Crash
    <2> QED BY <2>1, <2>2, <2>3, <2>4, <2>5, <2>6, StepIs
  <1>3. crashes' = 0 /\ \A e \in Life!End : id'[e] <= 1
    BY DEF Life!First
  <1>4. crashes = 0
    BY <1>1, <1>2, <1>3
  <1>5. \A e \in Life!End : id[e] \in {0, 1} /\ id'[e] \in {0, 1} /\ (id'[e] # id[e] => id[e] = 0)
    <2> TAKE e \in Life!End
    <2>1. id[e] \in Nat /\ id'[e] \in {id[e], id[e] + 1} /\ id'[e] <= 1
      BY <1>1, <1>2, <1>3
    <2> QED BY <2>1
  <1> QED BY <1>3, <1>4, <1>5 DEF Life!First

\* A message is put at the end of what an end has said.
Adds(e, m) ==
  /\ sentBy'[Life!Other(e)] = sentBy[Life!Other(e)]
  /\ Len(sentBy[e]) \in Nat /\ DOMAIN sentBy[e] = 1 .. Len(sentBy[e])
  /\ Len(sentBy'[e]) = Len(sentBy[e]) + 1 /\ DOMAIN sentBy'[e] = 1 .. (Len(sentBy[e]) + 1)
  /\ \A k \in 1 .. Len(sentBy[e]) : sentBy'[e][k] = sentBy[e][k]
  /\ sentBy'[e][Len(sentBy[e]) + 1] = m

\* What was there stays there.
LEMMA AddsLonger ==
  ASSUME NEW e, NEW m, Adds(e, m)
  PROVE  /\ Len(sentBy[e]) <= Len(sentBy'[e])
         /\ \A k \in DOMAIN sentBy[e] : k \in DOMAIN sentBy'[e] /\ sentBy'[e][k] = sentBy[e][k]
  <1>1. \A n \in Nat : n <= n + 1 /\ \A k \in 1 .. n : k \in 1 .. (n + 1)
    OBVIOUS
  <1> QED BY <1>1 DEF Adds

\* Whatever an end says is put there.
LEMMA AddsIs ==
  ASSUME Life!TypeOK, NEW e \in Life!End, NEW m \in Life!Messages, Says(e, m)
  PROVE  Adds(e, m)
  BY SaidTypes DEF Adds

\* The kinds of the messages of an end after one more.
LEMMA AddsSent ==
  ASSUME NEW e \in Life!End, NEW m, Adds(e, m), NEW k
  PROVE  /\ Life!Sent(e, k)' <=> Life!Sent(e, k) \/ m.kind = k
         /\ Life!Sent(Life!Other(e), k)' <=> Life!Sent(Life!Other(e), k)
  <1> DEFINE n == Len(sentBy[e])
  <1>1. /\ n \in Nat /\ DOMAIN sentBy[e] = 1 .. n /\ DOMAIN sentBy'[e] = 1 .. (n + 1)
        /\ \A j \in 1 .. n : sentBy'[e][j] = sentBy[e][j]
        /\ sentBy'[e][n + 1] = m /\ sentBy'[Life!Other(e)] = sentBy[Life!Other(e)]
    BY DEF Adds
  <1> HIDE DEF n
  <1>2. \A j \in 1 .. (n + 1) : j \in 1 .. n \/ j = n + 1
    BY <1>1
  <1>3. n + 1 \in 1 .. (n + 1) /\ \A j \in 1 .. n : j \in 1 .. (n + 1)
    BY <1>1
  <1>4. Life!Sent(e, k)' <=> Life!Sent(e, k) \/ m.kind = k
    BY <1>1, <1>2, <1>3 DEF Life!Sent
  <1> QED BY <1>1, <1>4 DEF Life!Sent

\* The order of the messages of an end after one more.
LEMMA AddsAfter ==
  ASSUME NEW e \in Life!End, NEW m, Adds(e, m), NEW k, NEW S
  PROVE  /\ Life!After(e, k, S) /\ (Life!Sent(e, k) => m.kind \in S) => Life!After(e, k, S)'
         /\ Life!After(Life!Other(e), k, S) => Life!After(Life!Other(e), k, S)'
  <1> DEFINE n == Len(sentBy[e])
  <1>1. /\ n \in Nat /\ DOMAIN sentBy[e] = 1 .. n /\ DOMAIN sentBy'[e] = 1 .. (n + 1)
        /\ \A j \in 1 .. n : sentBy'[e][j] = sentBy[e][j]
        /\ sentBy'[e][n + 1] = m /\ sentBy'[Life!Other(e)] = sentBy[Life!Other(e)]
    BY DEF Adds
  <1> HIDE DEF n
  <1>2. ASSUME Life!After(e, k, S), Life!Sent(e, k) => m.kind \in S,
               NEW i \in 1 .. (n + 1), NEW j \in 1 .. (n + 1), i < j, sentBy'[e][i].kind = k
        PROVE  sentBy'[e][j].kind \in S
    <2>1. i \in 1 .. n /\ sentBy[e][i].kind = k
      BY <1>1, <1>2
    <2>2. CASE j \in 1 .. n
      BY <1>1, <1>2, <2>1, <2>2 DEF Life!After
    <2>3. CASE j = n + 1
      BY <1>1, <1>2, <2>1, <2>3 DEF Life!Sent
    <2> QED BY <1>1, <2>2, <2>3
  <1>3. Life!After(Life!Other(e), k, S) => Life!After(Life!Other(e), k, S)'
    BY <1>1 DEF Life!After
  <1>4. Life!After(e, k, S) /\ (Life!Sent(e, k) => m.kind \in S) => Life!After(e, k, S)'
    BY <1>1, <1>2 DEF Life!After
  <1> QED BY <1>3, <1>4

\* What a step of the first connection begins with.
Early == /\ Life!TypeOK /\ Life!AuthInv /\ Life!ToldInv /\ Life!ServerCloses /\ Life!OrderInv
         /\ Life!Next /\ Life!First'

\* What holds around such a step.
LEMMA EarlyIs ==
  ASSUME Early
  PROVE  /\ Life!First /\ Life!TypeOK' /\ Life!AuthInv' /\ Life!ToldInv' /\ Life!ServerCloses' /\ crashes' = 0 /\ crashes = 0
         /\ "client" \in Life!End /\ "server" \in Life!End
         /\ Life!Other("client") = "server" /\ Life!Other("server") = "client"
         /\ \A e \in Life!End : /\ e = "client" \/ e = "server"
                                /\ id[e] \in {0, 1} /\ id'[e] \in {0, 1} /\ (id'[e] # id[e] => id[e] = 0)
                                /\ Life!Other(e) \in Life!End /\ Life!Other(Life!Other(e)) = e /\ Life!Other(e) # e
         /\ state \in [Life!End -> States] /\ got \in [Life!End -> Nat] /\ got' \in [Life!End -> Nat]
         /\ sentBy \in [Life!End -> Seq(Life!Messages)] /\ sentBy' \in [Life!End -> Seq(Life!Messages)]
         /\ \A e \in Life!End : /\ Len(sentBy[e]) \in Nat /\ DOMAIN sentBy[e] = 1 .. Len(sentBy[e])
                                /\ Len(sentBy'[e]) \in Nat /\ DOMAIN sentBy'[e] = 1 .. Len(sentBy'[e])
  <1>1. Life!TypeOK' /\ Life!AuthInv' /\ Life!ToldInv' /\ Life!ServerCloses'
    BY LifeTypes, LifeAuth, LifeTold DEF Early, Life!Next, Life!ServerCloses
  <1>2. /\ state \in [Life!End -> States] /\ got \in [Life!End -> Nat] /\ got' \in [Life!End -> Nat]
        /\ sentBy \in [Life!End -> Seq(Life!Messages)] /\ sentBy' \in [Life!End -> Seq(Life!Messages)]
    BY <1>1 DEF Life!TypeOK, States, Early
  <1>3. \A e \in Life!End : /\ Len(sentBy[e]) \in Nat /\ DOMAIN sentBy[e] = 1 .. Len(sentBy[e])
                            /\ Len(sentBy'[e]) \in Nat /\ DOMAIN sentBy'[e] = 1 .. Len(sentBy'[e])
    BY <1>2
  <1> QED BY <1>1, <1>2, <1>3, FirstBefore, SidesAre, EndsAre DEF Early

\* The object of an end that began in the step had said, heard and been told nothing.
LEMMA BeginsAre ==
  ASSUME Early
  PROVE  /\ id["client"] = 0 => /\ sentBy["client"] = <<>> /\ id["server"] = 0 /\ closedMsg = {}
                                /\ state["client"] = "None"
         /\ id["server"] = 0 => /\ sentBy["server"] = <<>> /\ told["server"] = <<>> /\ acked["client"] = 0
                                /\ got["client"] = 0 /\ DOMAIN held["client"] = {} /\ got["server"] <= 1
                                /\ state["server"] = "None"
                                /\ \A i \in DOMAIN sentBy["client"] : sentBy["client"][i].kind = "ClientChallenge"
         /\ sentBy["client"] # <<>> => id["client"] > 0
  <1>0. Life!BeginsInOrder /\ Life!HandsInOrder /\ Life!AuthInv
    BY DEF Early, Life!OrderInv
  <1>1. \A e \in Life!End : id[e] = 0 => state[e] = "None"
    <2>1. \A e \in Life!End : state[e] # "None" => id[e] > 0
      BY <1>0 DEF Life!AuthInv
    <2> QED BY <2>1
  <1>2. id["server"] = 0 => got["client"] = 0 /\ DOMAIN held["client"] = {} /\ got["server"] <= 1
    <2> SUFFICES ASSUME id["server"] = 0 PROVE got["client"] = 0 /\ DOMAIN held["client"] = {} /\ got["server"] <= 1
      OBVIOUS
    <2>1. /\ sentBy["server"] = <<>> /\ Len(sentBy["client"]) <= 1
          /\ got["client"] <= Len(sentBy["server"]) /\ got["server"] <= Len(sentBy["client"])
          /\ \A n \in DOMAIN held["client"] : n \in DOMAIN sentBy["server"]
      BY <1>0, EarlyIs DEF Life!BeginsInOrder, Life!HandsInOrder
    <2>2. Len(sentBy["server"]) = 0 /\ DOMAIN sentBy["server"] = {}
      BY <2>1
    <2>3. got["client"] \in Nat /\ got["server"] \in Nat /\ Len(sentBy["client"]) \in Nat
      BY EarlyIs
    <2> QED BY <2>1, <2>2, <2>3
  <1> QED BY <1>0, <1>1, <1>2, EarlyIs DEF Life!BeginsInOrder

\* The message with the next number is what the other end said.
LEMMA NextInOrder ==
  ASSUME Early, NEW e \in Life!End, NEW m \in Life!Messages, NextFor(e, m)
  PROVE  /\ got[e] + 1 \in DOMAIN sentBy[Life!Other(e)] /\ m = sentBy[Life!Other(e)][got[e] + 1]
         /\ got' = [got EXCEPT ![e] = got[e] + 1] /\ state[e] # "None" /\ Delivery(e, m)
         /\ UNCHANGED <<id, crashes>>
         /\ held'[Life!Other(e)] = held[Life!Other(e)]
         /\ \A k \in DOMAIN held'[e] : k \in DOMAIN held[e] /\ held'[e][k] = held[e][k]
         /\ id["server"] > 0 /\ id["client"] > 0
  <1>1. Life!HandsInOrder
    BY DEF Early, Life!OrderInv
  <1>2. got[e] + 1 \in DOMAIN sentBy[Life!Other(e)] /\ m = sentBy[Life!Other(e)][got[e] + 1]
    BY <1>1 DEF NextFor, Life!HandsInOrder
  <1>3. sentBy[Life!Other(e)] # <<>>
    BY <1>2
  <1>4. id[e] > 0
    BY DEF Early, Life!AuthInv, NextFor
  <1>5. id["server"] > 0 /\ id["client"] > 0
    BY <1>3, <1>4, BeginsAre, EarlyIs
  <1> QED BY <1>2, <1>5 DEF NextFor

\* Who says what, and when.
Voice(e, m) ==
  \/ e = "client" /\ m.kind = "ClientChallenge" /\ sentBy[e] = <<>> /\ id[e] = 0 /\ id'[e] = 1
  \/ e = "server" /\ m.kind = "ServerChallenge" /\ sentBy[e] = <<>> /\ id[e] = 0 /\ id'[e] = 1 /\ told'[e] = <<>>
  \/ /\ e = "client" /\ m.kind = "ClientResponse" /\ id["server"] > 0
     /\ state[e] = "AwaitingServerChallenge" /\ state'[e] = "AwaitingAcceptance"
  \/ /\ e = "server" /\ m.kind = "Accept" /\ told[e] = <<>> /\ told'[e] = <<"accepted">>
     /\ state[e] = "AwaitingAcceptReject" /\ state'[e] = "Connected"
  \/ /\ e = "server" /\ m.kind = "Reject" /\ told[e] = <<>> /\ told'[e] = <<>>
     /\ state[e] = "AwaitingAcceptReject" /\ state'[e] = "Closing"
  \/ /\ m.kind = "Data" /\ state[e] = "Connected" /\ state'[e] = "Connected" /\ told'[e] = told[e] /\ told[e] # <<>>
     /\ id["server"] > 0
  \/ m.kind = "KeepAlive" /\ state[e] # "None" /\ state'[e] = state[e] /\ told'[e] = told[e] /\ id["server"] > 0
  \/ /\ e = "server" /\ m.kind = "Close" /\ state[e] \notin {"None", "Closing"} /\ state'[e] = "Closing"
     /\ told'[e] = told[e]
Voices == sentBy' = sentBy \/ \E e \in Life!End, m \in Life!Messages : Adds(e, m) /\ Voice(e, m)

\* What an end says of its own accord is said so.
LEMMA VoiceOf ==
  ASSUME Early, NEW e \in Life!End, NEW m \in Life!Messages, Speech(e, m)
  PROVE  Voice(e, m)
  <1> USE EarlyIs
  <1>1. state'[e] = state[e] \/ state'[e] \in {"Connected", "Closing"}
    BY DEF Speech
  <1>2. told \in [Life!End -> Seq(Life!Notices)] /\ "client" \notin may.closers /\ ToldAt(e)
    BY ToldInvIs DEF Early, Life!TypeOK, Life!ServerCloses
  <1>3. CASE e = "server" /\ m.kind = "Accept"
    BY <1>2, <1>3 DEF Speech, Voice, ToldAt, Life!Negotiating
  <1>4. CASE e = "server" /\ m.kind = "Reject"
    BY <1>2, <1>4 DEF Speech, Voice, ToldAt, Life!Negotiating
  <1>5. CASE m.kind = "Data"
    <2>1. state[e] = "Connected" /\ UNCHANGED <<state, told>>
      BY <1>5 DEF Speech
    <2>2. told[e] # <<>>
      <3>1. told[e] = <<"connected">> \/ told[e] = <<"accepted">>
        BY <1>2, <2>1 DEF ToldAt
      <3>2. <<"connected">> # <<>> /\ <<"accepted">> # <<>>
        OBVIOUS
      <3> QED BY <3>1, <3>2
    <2>3. id["server"] > 0
      <3>1. CASE e = "server"
        BY <2>1, <3>1 DEF Early, Life!AuthInv
      <3>2. CASE e = "client"
        <4>1. Life!Had("client", "Accept")
          BY <2>1, <3>2 DEF Early, Life!OrderInv, Life!HearsInOrder
        <4>2. got["client"] # 0
          BY <4>1 DEF Life!Had
        <4> QED BY <4>2, BeginsAre
      <3> QED BY <3>1, <3>2
    <2> QED BY <1>5, <2>1, <2>2, <2>3 DEF Voice
  <1>6. CASE m.kind = "KeepAlive"
    <2>1. state[e] # "None" /\ UNCHANGED <<state, told>> /\ acked[e] = Len(sentBy[e])
      BY <1>6 DEF Speech
    <2>2. id[e] > 0
      BY <2>1 DEF Early, Life!AuthInv
    <2>3. id["server"] > 0
      <3>1. CASE e = "client"
        <4>1. sentBy["client"] # <<>> /\ sentBy["client"] \in Seq(Life!Messages)
          BY <2>2, <3>1 DEF Early, Life!OrderInv, Life!BeginsInOrder
        <4>2. Len(sentBy["client"]) # 0
          BY <4>1
        <4> QED BY <2>1, <3>1, <4>2, BeginsAre
      <3> QED BY <2>2, <3>1
    <2> QED BY <1>6, <2>1, <2>3 DEF Voice
  <1>7. CASE m.kind = "Close"
    <2>1. /\ e \in may.closers /\ state[e] \notin {"None", "Closing"}
          /\ state' = [state EXCEPT ![e] = "Closing"] /\ told' = told
      BY <1>7 DEF Speech
    <2>2. e = "server" /\ state'[e] = "Closing" /\ told'[e] = told[e]
      BY <1>2, <2>1
    <2> QED BY <1>7, <2>1, <2>2 DEF Voice
  <1> QED BY <1>3, <1>4, <1>5, <1>6, <1>7 DEF Speech

\* A first object begins its messages.
LEMMA BeginsSaying ==
  ASSUME Early, NEW e \in Life!End, NEW m, sentBy[e] = <<>>, sentBy' = [sentBy EXCEPT ![e] = <<m>>]
  PROVE  Adds(e, m)
  BY EarlyIs DEF Adds

\* Whatever is said in a step is said so.
LEMMA VoicesAre ==
  ASSUME Early
  PROVE  Voices
  <1> USE EarlyIs
  <1>0. Life!TypeOK /\ Life!AuthInv /\ Life!Next
    BY DEF Early
  <1>1. CASE Life!Connect
    <2> DEFINE m == [kind |-> "ClientChallenge", from |-> id["client"] + 1, re |-> 0, esn |-> 0]
    <2>1. /\ id'["client"] = id["client"] + 1 /\ id["client"] \in Nat
          /\ sentBy' = [sentBy EXCEPT !["client"] = <<m>>]
      BY <1>0, <1>1, NewObjectIs DEF Life!Connect
    <2>2. m \in Life!Messages /\ m.kind = "ClientChallenge"
      BY <2>1 DEF Life!Messages, Life!Kinds
    <2> HIDE DEF m
    <2>3. id["client"] = 0 /\ id'["client"] = 1
      BY <2>1
    <2>4. Adds("client", m)
      BY <2>1, <2>3, BeginsAre, BeginsSaying
    <2>5. Voice("client", m)
      BY <2>2, <2>3, BeginsAre DEF Voice
    <2> QED BY <2>2, <2>4, <2>5 DEF Voices
  <1>2. ASSUME NEW m \in Life!Messages, Arises(m) PROVE Voices
    <2>1. /\ id'["server"] = id["server"] + 1 /\ id["server"] \in Nat /\ told'["server"] = <<>>
          /\ sentBy' = [sentBy EXCEPT !["server"] = <<m>>] /\ m.kind = "ServerChallenge"
      BY <1>0, <1>2, NewObjectIs DEF Arises
    <2>2. id["server"] = 0 /\ id'["server"] = 1
      BY <2>1
    <2>3. Adds("server", m)
      BY <2>1, <2>2, BeginsAre, BeginsSaying
    <2>4. Voice("server", m)
      BY <2>1, <2>2, BeginsAre DEF Voice
    <2> QED BY <2>3, <2>4 DEF Voices
  <1>3. ASSUME NEW e \in Life!End, NEW m \in Life!Messages, NextFor(e, m) PROVE Voices
    <2>1. CASE Greets(e, m)
      <3>1. PICK r \in Life!Messages : r.kind = "ClientResponse" /\ Says(e, r)
        BY <2>1 DEF Greets
      <3>2. Adds(e, r)
        BY <1>0, <3>1, AddsIs
      <3>3. Voice(e, r)
        BY <1>3, <2>1, <3>1, NextInOrder DEF Greets, Voice
      <3> QED BY <3>2, <3>3 DEF Voices
    <2>2. CASE ~Greets(e, m)
      BY <1>3, <2>2 DEF NextFor, Delivery, Life!CommunicationError, Responds, Accepts, Rejects, Takes,
                        Life!HandleClose, Life!HandleKeepAlive, Voices
    <2> QED BY <2>1, <2>2
  <1>4. ASSUME NEW e \in Life!End, NEW m \in Life!Messages, Speech(e, m) PROVE Voices
    BY <1>0, <1>4, VoiceOf, AddsIs DEF Speech, Voices
  <1>5. ASSUME NEW e \in Life!End, Life!NoConnection(e) PROVE Voices
    BY <1>0, <1>2, <1>5, NoConnectionIs DEF Voices
  <1>6. ASSUME NEW e \in Life!End,
               Life!Hold(e) \/ Life!Ack(e) \/ Quits(e) \/ Life!Crash(e) \/ Life!Restart(e) \/ Life!LoseClosed
        PROVE  Voices
    BY <1>6 DEF Life!Hold, Life!Ack, Quits, Life!HandleClosed, Life!CheckTimeout, Life!CloseHard, Life!Crash,
                Life!Restart, Life!LoseClosed, Voices
  <1> QED BY <1>0, <1>1, <1>3, <1>4, <1>5, <1>6, StepIs

\* What was said stays.
Longer ==
  \A d \in Life!End : /\ Len(sentBy[d]) <= Len(sentBy'[d])
                      /\ \A k \in DOMAIN sentBy[d] : k \in DOMAIN sentBy'[d] /\ sentBy'[d][k] = sentBy[d][k]

\* No step of the first connection takes anything back.
LEMMA NothingUnsaid ==
  ASSUME Early
  PROVE  Longer
  <1> USE EarlyIs
  <1>1. CASE sentBy' = sentBy
    BY <1>1 DEF Longer
  <1>2. ASSUME NEW e \in Life!End, NEW m \in Life!Messages, Adds(e, m) PROVE Longer
    <2>1. Len(sentBy[e]) <= Len(sentBy'[e]) /\ \A k \in DOMAIN sentBy[e] : k \in DOMAIN sentBy'[e] /\ sentBy'[e][k] = sentBy[e][k]
      BY <1>2, AddsLonger
    <2>2. \A d \in Life!End : d = e \/ (d = Life!Other(e) /\ sentBy'[d] = sentBy[d])
      BY <1>2 DEF Adds
    <2> SUFFICES ASSUME NEW d \in Life!End
                 PROVE  /\ Len(sentBy[d]) <= Len(sentBy'[d])
                        /\ \A k \in DOMAIN sentBy[d] : k \in DOMAIN sentBy'[d] /\ sentBy'[d][k] = sentBy[d][k]
      BY DEF Longer
    <2>3. CASE d = e
      BY <2>1, <2>3
    <2>4. CASE d = Life!Other(e) /\ sentBy'[d] = sentBy[d]
      <3>1. Len(sentBy[d]) \in Nat
        OBVIOUS
      <3> QED BY <2>4, <3>1
    <2> QED BY <2>2, <2>3, <2>4
  <1> QED BY <1>1, <1>2, VoicesAre DEF Voices

\* Who has had one more of the messages of s has had no more than there are.
LEMMA OneFurther ==
  ASSUME NEW k \in Nat, NEW l \in Nat, NEW s, k <= Len(s), Len(s) \in Nat, DOMAIN s = 1 .. Len(s),
         l = k \/ (l = k + 1 /\ k + 1 \in DOMAIN s)
  PROVE  l <= Len(s) /\ k <= l
  OBVIOUS

\* What an end has heard or holds, and what it will have, is what the other said.
LEMMA Onward ==
  ASSUME Early
  PROVE  Life!HandsInOrder' /\ \A e \in Life!End : got[e] <= got'[e]
  <1> DEFINE Keeps(e) == \A n \in DOMAIN held'[e] :
                          \/ n \in DOMAIN held[e] /\ held'[e][n] = held[e][n]
                          \/ n \in DOMAIN sentBy[Life!Other(e)] /\ held'[e][n] = sentBy[Life!Other(e)][n]
             Goal(e) == /\ got[e] <= got'[e] /\ got'[e] <= Len(sentBy'[Life!Other(e)])
                        /\ \A n \in DOMAIN held'[e] :
                             n \in DOMAIN sentBy'[Life!Other(e)] /\ held'[e][n] = sentBy'[Life!Other(e)][n]
  <1> USE EarlyIs
  <1>0. Life!TypeOK /\ Life!AuthInv /\ Life!Next /\ Life!HandsInOrder
    BY DEF Early, Life!OrderInv
  <1>1. ASSUME NEW e \in Life!End, got'[e] = got[e] \/ (got'[e] = got[e] + 1 /\ got[e] + 1 \in DOMAIN sentBy[Life!Other(e)]),
               Keeps(e)
        PROVE  Goal(e)
    <2>1. Len(sentBy[Life!Other(e)]) <= Len(sentBy'[Life!Other(e)])
      BY NothingUnsaid DEF Longer
    <2>2. got[e] <= Len(sentBy[Life!Other(e)])
      BY <1>0 DEF Life!HandsInOrder
    <2>3. got[e] \in Nat /\ got'[e] \in Nat /\ Len(sentBy[Life!Other(e)]) \in Nat /\ Len(sentBy'[Life!Other(e)]) \in Nat
      OBVIOUS
    <2>d. Life!Other(e) \in Life!End /\ DOMAIN sentBy[Life!Other(e)] = 1 .. Len(sentBy[Life!Other(e)])
      OBVIOUS
    <2>4. got'[e] <= Len(sentBy[Life!Other(e)]) /\ got[e] <= got'[e]
      BY <1>1, <2>2, <2>3, <2>d, OneFurther
    <2>5. got[e] <= got'[e] /\ got'[e] <= Len(sentBy'[Life!Other(e)])
      BY <2>1, <2>3, <2>4
    <2>6. ASSUME NEW n \in DOMAIN held'[e]
          PROVE  n \in DOMAIN sentBy[Life!Other(e)] /\ held'[e][n] = sentBy[Life!Other(e)][n]
      BY <1>0, <1>1, <2>6 DEF Life!HandsInOrder
    <2>7. \A n \in DOMAIN sentBy[Life!Other(e)] : n \in DOMAIN sentBy'[Life!Other(e)] /\ sentBy'[Life!Other(e)][n] = sentBy[Life!Other(e)][n]
      BY NothingUnsaid DEF Longer
    <2> QED BY <2>5, <2>6, <2>7
  <1>2. UNCHANGED <<got, held>> => \A e \in Life!End : got'[e] = got[e] /\ Keeps(e)
    OBVIOUS
  <1>3. ASSUME NEW e \in Life!End, DOMAIN held'[e] = {}, got[e] <= got'[e], got'[e] <= Len(sentBy'[Life!Other(e)])
        PROVE  Goal(e)
    BY <1>3
  <1> DEFINE All == \A e \in Life!End : Goal(e)
  <1>4. All => Life!HandsInOrder' /\ \A e \in Life!End : got[e] <= got'[e]
    BY DEF Life!HandsInOrder
  <1>b. (UNCHANGED <<got, held>>) => All
    BY <1>1, <1>2
  <1>h. \A e \in Life!End : held'[e] = held[e] => Keeps(e)
    OBVIOUS
  <1> HIDE DEF Keeps, Goal
  <1>a. \A e \in Life!End : Goal(e) => All \/ ~Goal(Life!Other(e))
    <2> SUFFICES ASSUME NEW e \in Life!End, Goal(e), Goal(Life!Other(e)), NEW d \in Life!End PROVE Goal(d)
      OBVIOUS
    <2>1. d = e \/ d = Life!Other(e)
      BY EndsAre
    <2> QED BY <2>1
  <1>5. CASE Life!Connect
    <2>1. id["client"] = 0
      <3>1. id'["client"] = id["client"] + 1
        BY <1>0, <1>5, NewObjectIs DEF Life!Connect
      <3>2. id["client"] \in {0, 1} /\ id'["client"] \in {0, 1}
        OBVIOUS
      <3> QED BY <3>1, <3>2
    <2>2. DOMAIN held'["client"] = {} /\ held'["server"] = held["server"]
      BY <1>0, <1>5, NewObjectIs DEF Life!Connect
    <2>3. got'["client"] = 0 /\ got["client"] = 0 /\ got'["server"] = got["server"]
      BY <1>5, <2>1, BeginsAre DEF Life!Connect
    <2>4. Goal("client")
      <3>1. Len(sentBy'["server"]) \in Nat
        OBVIOUS
      <3>2. got'["client"] <= Len(sentBy'[Life!Other("client")]) /\ got["client"] <= got'["client"]
        BY <2>3, <3>1
      <3> QED BY <1>3, <2>2, <3>2
    <2>5. Goal("server")
      BY <1>1, <1>h, <2>2, <2>3
    <2> QED BY <1>4, <2>4, <2>5
  <1>6. ASSUME NEW m \in Life!Messages, Arises(m), sentBy["client"] # <<>>
        PROVE  All
    <2>1. id["server"] = 0
      <3>1. id'["server"] = id["server"] + 1
        BY <1>0, <1>6, NewObjectIs DEF Arises
      <3>2. id["server"] \in {0, 1} /\ id'["server"] \in {0, 1}
        OBVIOUS
      <3> QED BY <3>1, <3>2
    <2>2. DOMAIN held'["server"] = {} /\ held'["client"] = held["client"]
      BY <1>0, <1>6, NewObjectIs DEF Arises
    <2>3. got'["server"] = 1 /\ got["server"] <= 1 /\ got'["client"] = got["client"]
      BY <1>6, <2>1, BeginsAre DEF Arises
    <2>4. Len(sentBy'["client"]) >= 1
      <3>1. Len(sentBy["client"]) # 0 /\ Len(sentBy["client"]) \in Nat
        BY <1>6
      <3>2. sentBy'["client"] = sentBy["client"]
        BY <1>6 DEF Arises
      <3> QED BY <3>1, <3>2
    <2>5. Goal("server")
      BY <1>3, <2>2, <2>3, <2>4
    <2>6. Goal("client")
      BY <1>1, <1>h, <2>2, <2>3
    <2> QED BY <2>5, <2>6
  <1>7. ASSUME NEW e \in Life!End, NEW m \in Life!Messages, NextFor(e, m) PROVE All
    <2>1. /\ got[e] + 1 \in DOMAIN sentBy[Life!Other(e)] /\ got' = [got EXCEPT ![e] = got[e] + 1]
          /\ held'[Life!Other(e)] = held[Life!Other(e)]
          /\ \A k \in DOMAIN held'[e] : k \in DOMAIN held[e] /\ held'[e][k] = held[e][k]
      BY <1>7, NextInOrder
    <2>2. got'[e] = got[e] + 1 /\ got'[Life!Other(e)] = got[Life!Other(e)]
      BY <2>1
    <2>3. Goal(e)
      BY <1>1, <2>1, <2>2 DEF Keeps
    <2>4. Goal(Life!Other(e))
      BY <1>1, <1>h, <2>1, <2>2
    <2> QED BY <1>a, <2>3, <2>4
  <1>8. ASSUME NEW e \in Life!End, NEW m \in Life!Messages, Speech(e, m) PROVE All
    BY <1>b, <1>8 DEF Speech
  <1>9. ASSUME NEW e \in Life!End, Life!Hold(e) PROVE All
    <2>1. got' = got
      BY <1>9 DEF Life!Hold
    <2>2. PICK n \in DOMAIN sentBy[Life!Other(e)] :
            held' = [held EXCEPT ![e] =
              [j \in DOMAIN @ \union {n} |-> IF j = n THEN sentBy[Life!Other(e)][n] ELSE @[j]]]
      BY <1>9 DEF Life!Hold, Life!Arriving
    <2>3. DOMAIN held = Life!End
      BY <1>0 DEF Life!TypeOK
    <2>4. Keeps(e) /\ held'[Life!Other(e)] = held[Life!Other(e)]
      BY <2>2, <2>3 DEF Keeps
    <2>5. Goal(e) /\ Goal(Life!Other(e))
      BY <1>1, <1>h, <2>1, <2>4
    <2> QED BY <1>a, <2>5
  <1>10. ASSUME NEW e \in Life!End, Life!NoConnection(e) PROVE All
    <2>1. CASE UNCHANGED <<state, id, partner, sentBy, acked, got, held, told, received>>
      BY <1>b, <2>1
    <2>2. ASSUME e = "server", NEW n \in DOMAIN sentBy[Life!Other(e)], NEW m \in Life!Messages, Arises(m)
          PROVE  All
      <3>1. sentBy["client"] # <<>>
        BY <2>2
      <3> QED BY <1>6, <2>2, <3>1
    <2> QED BY <1>0, <1>10, <2>1, <2>2, NoConnectionIs
  <1>11. ASSUME NEW e \in Life!End,
               Life!Ack(e) \/ Quits(e) \/ Life!Crash(e) \/ Life!Restart(e) \/ Life!LoseClosed
        PROVE  All
    BY <1>b, <1>11 DEF Life!Ack, Quits, Life!HandleClosed, Life!CheckTimeout, Life!CloseHard, Life!Crash,
                Life!Restart, Life!LoseClosed
  <1> HIDE DEF All
  <1> QED BY <1>0, <1>4, <1>5, <1>7, <1>8, <1>9, <1>10, <1>11, StepIs

\* What an end has heard it has heard.
LEMMA StillHad ==
  ASSUME Early, NEW e \in Life!End, NEW k, Life!Had(e, k)
  PROVE  Life!Had(e, k)'
  <1>e. /\ Life!Other(e) \in Life!End /\ got[e] \in Nat /\ got'[e] \in Nat
        /\ Len(sentBy[Life!Other(e)]) \in Nat
        /\ DOMAIN sentBy[Life!Other(e)] = 1 .. Len(sentBy[Life!Other(e)])
    BY EarlyIs
  <1>1. PICK i \in 1 .. got[e] : sentBy[Life!Other(e)][i].kind = k
    BY DEF Life!Had
  <1>2. got[e] <= got'[e]
    BY Onward
  <1>3. got[e] <= Len(sentBy[Life!Other(e)])
    BY DEF Early, Life!OrderInv, Life!HandsInOrder
  <1>4. i \in 1 .. got'[e] /\ i \in 1 .. Len(sentBy[Life!Other(e)])
    BY <1>e, <1>1, <1>2, <1>3
  <1>5. i \in DOMAIN sentBy[Life!Other(e)]
    BY <1>e, <1>4
  <1>6. sentBy'[Life!Other(e)][i] = sentBy[Life!Other(e)][i]
    BY <1>e, <1>5, NothingUnsaid DEF Longer
  <1> QED BY <1>1, <1>4, <1>6 DEF Life!Had

\* What a step of the first connection does to the server.
LEMMA ServerTurns ==
  ASSUME Early
  PROVE  /\ told["server"] # <<>> => told'["server"] # <<>>
         /\ told'["server"] # <<>> => told["server"] # <<>> \/ state["server"] = "AwaitingAcceptReject"
         /\ id["server"] > 0 /\ state["server"] \in {"Closing", "None"} => state'["server"] \in {"Closing", "None"}
         /\ id["server"] > 0 /\ state["server"] \in {"Closing", "None"} /\ told["server"] = <<>> => told'["server"] = <<>>
  <1> DEFINE S == "server"
  <1> USE EarlyIs
  <1>1. Turns(S) /\ ToldAt(S) /\ state[S] \in States /\ S \in Life!End
    BY StepTurns, ToldInvIs DEF Early
  <1>2. <<"accepted">> # <<>> /\ <<"accepted", "closed">> # <<>>
    OBVIOUS
  <1>3. Resets(S) => id[S] = 0 /\ told[S] = <<>>
    <2> SUFFICES ASSUME Resets(S) PROVE id[S] = 0
      BY BeginsAre
    <2>1. id'[S] = id[S] + 1
      BY <1>1 DEF Resets
    <2>2. id[S] \in {0, 1}
      OBVIOUS
    <2> QED BY <2>1, <2>2
  <1>4. Resets(S) => told'[S] = <<>>
    BY DEF Resets
  <1>5. CASE Stays(S) \/ Advances(S)
    BY <1>5 DEF Stays, Advances, Life!Negotiating
  <1>6. CASE Welcomes(S) /\ state'[S] = "Connected"
    BY <1>2, <1>6 DEF Welcomes, Life!Negotiating
  <1>7. CASE Retires(S) /\ state'[S] = "Closing"
    BY <1>7 DEF Retires, Life!Negotiating
  <1>8. CASE Fails(S) /\ state'[S] = "None"
    <2>1. told[S] = <<>>
      BY <1>1, <1>8 DEF ToldAt, Fails
    <2> QED BY <1>8, <2>1, HasThem DEF Fails
  <1>9. CASE Finishes(S) /\ state'[S] = "None"
    <2>1. told[S] \in {<<>>, <<"accepted">>}
      BY <1>1, <1>9 DEF ToldAt, Finishes
    <2> QED BY <1>2, <1>9, <2>1, HasThem, Telling DEF Finishes
  <1>10. CASE Resets(S)
    BY <1>3, <1>4, <1>10
  <1> QED BY <1>1, <1>5, <1>6, <1>7, <1>8, <1>9, <1>10 DEF Turns

\* What the server has said when it says something.
LEMMA ServerSaid ==
  ASSUME Early
  PROVE  Life!ServerSaysInOrder'
  <1> DEFINE S == "server"
             Gone == state[S] \in {"Closing", "None"}
  <1> USE EarlyIs
  <1>1. /\ Life!Sent(S, "Accept") \/ Life!Sent(S, "Data") => told[S] # <<>>
        /\ Life!Sent(S, "Reject") => told[S] = <<>>
        /\ Life!Sent(S, "Reject") \/ Life!Sent(S, "Close") => Gone
        /\ Life!After(S, "Accept", {"Data", "KeepAlive", "Close"}) /\ Life!After(S, "Close", {"KeepAlive"})
    BY DEF Early, Life!OrderInv, Life!ServerSaysInOrder
  <1>2. ASSUME NEW k, Life!Sent(S, k) PROVE sentBy[S] # <<>> /\ id[S] > 0
    <2>1. PICK i \in DOMAIN sentBy[S] : TRUE
      BY <1>2 DEF Life!Sent
    <2>2. sentBy[S] # <<>>
      BY <2>1
    <2>3. id[S] # 0 /\ id[S] \in {0, 1}
      BY <2>2, BeginsAre
    <2> QED BY <2>2, <2>3
  <1>3. CASE sentBy'[S] = sentBy[S]
    <2>1. \A k : Life!Sent(S, k)' <=> Life!Sent(S, k)
      BY <1>3 DEF Life!Sent
    <2>2. \A k, K : Life!After(S, k, K)' <=> Life!After(S, k, K)
      BY <1>3 DEF Life!After
    <2> QED BY <1>1, <1>2, <2>1, <2>2, ServerTurns DEF Life!ServerSaysInOrder
  <1>4. ASSUME NEW m \in Life!Messages, Adds(S, m), Voice(S, m) PROVE Life!ServerSaysInOrder'
    <2>1. \A k : Life!Sent(S, k)' <=> Life!Sent(S, k) \/ m.kind = k
      BY <1>4, AddsSent
    <2>2. \A k, K : Life!After(S, k, K) /\ (Life!Sent(S, k) => m.kind \in K) => Life!After(S, k, K)'
      BY <1>4, AddsAfter
    <2>3. <<"accepted">> # <<>>
      OBVIOUS
    <2>4. Life!Sent(S, "Accept") => m.kind \in {"Data", "KeepAlive", "Close"}
      BY <1>1, <1>2, <1>4 DEF Voice
    <2>5. Life!Sent(S, "Close") => m.kind = "KeepAlive"
      BY <1>1, <1>2, <1>4 DEF Voice
    <2>6. m.kind \in {"Accept", "Data"} => told'[S] # <<>>
      BY <1>4, <2>3 DEF Voice
    <2>7. m.kind = "Reject" => told'[S] = <<>>
      BY <1>4 DEF Voice
    <2>8. m.kind \in {"Reject", "Close"} => state'[S] \in {"Closing", "None"}
      BY <1>4 DEF Voice
    <2>9. Life!After(S, "Accept", {"Data", "KeepAlive", "Close"})' /\ Life!After(S, "Close", {"KeepAlive"})'
      BY <1>1, <2>2, <2>4, <2>5
    <2>10. /\ Life!Sent(S, "Accept") \/ Life!Sent(S, "Data") => told'[S] # <<>>
           /\ Life!Sent(S, "Reject") => told'[S] = <<>>
           /\ Life!Sent(S, "Reject") \/ Life!Sent(S, "Close") => state'[S] \in {"Closing", "None"}
      BY <1>1, <1>2, ServerTurns
    <2> QED BY <2>1, <2>6, <2>7, <2>8, <2>9, <2>10 DEF Life!ServerSaysInOrder
  <1>5. ASSUME NEW m \in Life!Messages, Adds("client", m) PROVE sentBy'[S] = sentBy[S]
    BY <1>5 DEF Adds
  <1> QED BY <1>3, <1>4, <1>5, VoicesAre DEF Voices

\* What the client has said when it says something.
LEMMA ClientSaid ==
  ASSUME Early
  PROVE  Life!ClientSaysInOrder'
  <1> DEFINE C == "client"
  <1> USE EarlyIs
  <1>1. /\ Life!After(C, "ClientResponse", {"Data", "KeepAlive"})
        /\ state[C] = "AwaitingServerChallenge" => ~Life!Sent(C, "ClientResponse")
    BY DEF Early, Life!OrderInv, Life!ClientSaysInOrder
  <1>2. state'[C] = "AwaitingServerChallenge" => state[C] = "AwaitingServerChallenge" \/ sentBy[C] = <<>>
    <2>1. Turns(C)
      BY StepTurns DEF Early
    <2>2. Resets(C) => sentBy[C] = <<>>
      <3> SUFFICES ASSUME Resets(C) PROVE id[C] = 0
        BY BeginsAre
      <3>1. id'[C] = id[C] + 1 /\ id[C] \in {0, 1}
        BY DEF Resets
      <3> QED BY <3>1
    <2> QED BY <2>1, <2>2 DEF Turns, Stays, Advances
  <1>3. sentBy[C] = <<>> => ~Life!Sent(C, "ClientResponse")
    <2>1. sentBy[C] = <<>> => DOMAIN sentBy[C] = {}
      OBVIOUS
    <2> QED BY <2>1 DEF Life!Sent
  <1>4. CASE sentBy'[C] = sentBy[C]
    <2>1. \A k : Life!Sent(C, k)' <=> Life!Sent(C, k)
      BY <1>4 DEF Life!Sent
    <2>2. \A k, K : Life!After(C, k, K)' <=> Life!After(C, k, K)
      BY <1>4 DEF Life!After
    <2> QED BY <1>1, <1>2, <1>3, <2>1, <2>2 DEF Life!ClientSaysInOrder
  <1>5. ASSUME NEW m \in Life!Messages, Adds(C, m), Voice(C, m) PROVE Life!ClientSaysInOrder'
    <2>1. \A k : Life!Sent(C, k)' <=> Life!Sent(C, k) \/ m.kind = k
      BY <1>5, AddsSent
    <2>2. \A k, K : Life!After(C, k, K) /\ (Life!Sent(C, k) => m.kind \in K) => Life!After(C, k, K)'
      BY <1>5, AddsAfter
    <2>3. Life!Sent(C, "ClientResponse") => m.kind \in {"Data", "KeepAlive"}
      BY <1>1, <1>3, <1>5 DEF Voice
    <2>4. m.kind = "ClientResponse" => state'[C] = "AwaitingAcceptance"
      BY <1>5 DEF Voice
    <2> QED BY <1>1, <1>2, <1>3, <2>1, <2>2, <2>3, <2>4 DEF Life!ClientSaysInOrder
  <1>6. ASSUME NEW m \in Life!Messages, Adds("server", m) PROVE sentBy'[C] = sentBy[C]
    BY <1>6 DEF Adds
  <1> QED BY <1>4, <1>5, <1>6, VoicesAre DEF Voices

\* How an end gets connected, and the server's program asked.
LEMMA Enters ==
  ASSUME Early
  PROVE  /\ state'["client"] = "Connected" => state["client"] = "Connected" \/ Life!Had("client", "Accept")'
         /\ state'["server"] = "AwaitingAcceptReject" =>
              state["server"] = "AwaitingAcceptReject" \/ Life!Had("server", "ClientResponse")'
  <1> DEFINE Goal == /\ state'["client"] = "Connected" => state["client"] = "Connected" \/ Life!Had("client", "Accept")'
                     /\ state'["server"] = "AwaitingAcceptReject" =>
                          state["server"] = "AwaitingAcceptReject" \/ Life!Had("server", "ClientResponse")'
  <1> USE EarlyIs
  <1>0. Life!TypeOK /\ Life!AuthInv /\ Life!Next /\ ~may.hard
    BY DEF Early, Life!ServerCloses
  <1>1. ASSUME NEW e \in Life!End, NEW m \in Life!Messages, NextFor(e, m) PROVE Life!Had(e, m.kind)'
    <2>1. /\ got[e] + 1 \in DOMAIN sentBy[Life!Other(e)] /\ m = sentBy[Life!Other(e)][got[e] + 1]
          /\ got'[e] = got[e] + 1 /\ got[e] \in Nat
      BY <1>1, NextInOrder
    <2>2. sentBy'[Life!Other(e)][got[e] + 1] = m
      BY <2>1, NothingUnsaid DEF Longer
    <2>3. got[e] + 1 \in 1 .. got'[e]
      <3> DEFINE g == got[e]
                 h == got'[e]
      <3>1. h = g + 1 /\ g \in Nat
        BY <2>1
      <3> HIDE DEF g, h
      <3>2. g + 1 \in 1 .. h
        BY <3>1
      <3> QED BY <3>2 DEF g, h
    <2>4. \E i \in 1 .. got'[e] : sentBy'[Life!Other(e)][i].kind = m.kind
      BY <2>2, <2>3
    <2> QED BY <2>4 DEF Life!Had
  <1>2. ASSUME NEW e \in Life!End, NEW m \in Life!Messages, NextFor(e, m) PROVE Goal
    <2>1. CASE Responds(e, m) \/ Accepts(e, m)
      BY <1>1, <1>2, <2>1 DEF Responds, Accepts
    <2>2. CASE ~Responds(e, m) /\ ~Accepts(e, m)
      <3>1. state' = state \/ state' = [state EXCEPT ![e] = "None"] \/ state' = [state EXCEPT ![e] = "AwaitingAcceptance"]
        BY <1>2, <2>2 DEF NextFor, Delivery, Life!CommunicationError, Life!ConnectionError, Greets, Rejects,
                          Takes, Life!HandleClose, Life!HandleKeepAlive
      <3> QED BY <3>1
    <2> QED BY <2>1, <2>2
  <1>3. ASSUME NEW e \in Life!End, NEW m \in Life!Messages, Speech(e, m) PROVE Goal
    BY <1>3 DEF Speech
  <1>4. CASE Life!Connect
    BY <1>4 DEF Life!Connect
  <1>5. ASSUME NEW e \in Life!End, Life!NoConnection(e) PROVE Goal
    <2>1. CASE \E m \in Life!Messages : Arises(m)
      <3>1. state' = [state EXCEPT !["server"] = "AwaitingClientResponse"]
        BY <2>1 DEF Arises
      <3> QED BY <3>1
    <2>2. CASE state' = state
      BY <2>2
    <2>3. state' = state \/ \E m \in Life!Messages : Arises(m)
      BY <1>0, <1>5, NoConnectionIs
    <2> QED BY <2>1, <2>2, <2>3
  <1>6. ASSUME NEW e \in Life!End,
               Life!Hold(e) \/ Life!Ack(e) \/ Quits(e) \/ Life!Crash(e) \/ Life!Restart(e) \/ Life!LoseClosed
        PROVE  Goal
    <2>1. state' = state \/ state' = [state EXCEPT ![e] = "None"]
      BY <1>6 DEF Life!Hold, Life!Ack, Quits, Life!HandleClosed, Life!ConnectionError, Life!CheckTimeout,
                  Life!CloseHard, Life!Crash, Life!Restart, Life!LoseClosed
    <2> QED BY <2>1
  <1> QED BY <1>0, <1>2, <1>3, <1>4, <1>5, <1>6, StepIs

\* An instance has its own name for the number of elements.
LEMMA CountIs == \A S : Life!Cardinality(S) = Cardinality(S)
  BY DEF Life!Cardinality, Cardinality

\* What the client has had stays in its place.
LEMMA HadIs ==
  ASSUME Early
  PROVE  /\ IsFiniteSet(Life!DataHad) /\ Cardinality(Life!DataHad) \in Nat
         /\ Life!DataHad' = {i \in 1 .. got'["client"] : sentBy'["server"][i].kind = "Data"}
         /\ Life!DataHad = {i \in 1 .. got["client"] : sentBy'["server"][i].kind = "Data"}
         /\ got["client"] \in Nat /\ got'["client"] \in Nat
  <1> DEFINE S == "server"
             g == got["client"]
  <1> USE EarlyIs
  <1>1. /\ g \in Nat /\ got'["client"] \in Nat
        /\ g <= Len(sentBy[S]) /\ got'["client"] <= Len(sentBy'[S])
        /\ DOMAIN sentBy[S] = 1 .. Len(sentBy[S]) /\ DOMAIN sentBy'[S] = 1 .. Len(sentBy'[S])
        /\ Len(sentBy[S]) \in Nat /\ Len(sentBy'[S]) \in Nat
    BY Onward DEF Early, Life!OrderInv, Life!HandsInOrder
  <1>2. \A k \in DOMAIN sentBy[S] : sentBy'[S][k] = sentBy[S][k]
    BY NothingUnsaid DEF Longer
  <1> HIDE DEF g
  <1>3. Life!DataHad = {i \in 1 .. g : sentBy'[S][i].kind = "Data"}
    <2>1. \A i \in 1 .. Len(sentBy[S]) : i <= g <=> i \in 1 .. g
      BY <1>1
    <2>2. \A i \in 1 .. g : i \in 1 .. Len(sentBy[S])
      BY <1>1
    <2> QED BY <1>1, <1>2, <2>1, <2>2 DEF Life!DataHad, Life!DataSent, g
  <1>4. Life!DataHad' = {i \in 1 .. got'["client"] : sentBy'[S][i].kind = "Data"}
    <2>1. \A i \in 1 .. Len(sentBy'[S]) : i <= got'["client"] <=> i \in 1 .. got'["client"]
      BY <1>1
    <2>2. \A i \in 1 .. got'["client"] : i \in 1 .. Len(sentBy'[S])
      BY <1>1
    <2> QED BY <1>1, <2>1, <2>2 DEF Life!DataHad, Life!DataSent
  <1>5. IsFiniteSet(1 .. g)
    BY <1>1, FS_Interval
  <1>6. Life!DataHad \subseteq 1 .. g
    BY <1>3
  <1>7. IsFiniteSet(Life!DataHad) /\ Cardinality(Life!DataHad) \in Nat
    BY <1>5, <1>6, FS_Subset, FS_CardinalityType
  <1> QED BY <1>1, <1>3, <1>4, <1>7 DEF g

\* What the client's program has received is the data it has had.
LEMMA DataCounted ==
  ASSUME Early
  PROVE  state'["client"] # "None" => Len(received'["client"]) = Cardinality(Life!DataHad')
  <1> DEFINE C == "client"
             AllCounted == Len(received'[C]) = Cardinality(Life!DataHad')
             Goal == state'[C] # "None" => AllCounted
  <1> USE EarlyIs
  <1>0. /\ Life!TypeOK /\ Life!AuthInv /\ Life!Next /\ ~may.hard /\ received[C] \in Seq(Nat)
        /\ state[C] # "None" => Len(received[C]) = Cardinality(Life!DataHad)
    BY CountIs DEF Early, Life!ServerCloses, Life!OrderInv, Life!HearsInOrder, Life!TypeOK
  <1>1. got'[C] = got[C] => Life!DataHad' = Life!DataHad
    BY HadIs
  <1>2. ASSUME got'[C] = got[C], received'[C] = received[C], state[C] = "None" => state'[C] = "None"
        PROVE  Goal
    BY <1>0, <1>1, <1>2
  <1> DEFINE Still == UNCHANGED <<got, received>>
  <1>3. CASE Life!Connect
    <2>1. received'[C] = <<>> /\ got'[C] = 0
      BY <1>0, <1>3 DEF Life!Connect, Life!NewObject, Life!TypeOK
    <2>2. Life!DataHad' = {}
      <3>1. 1 .. got'[C] = {}
        BY <2>1
      <3> QED BY <3>1, HadIs
    <2>3. Len(received'[C]) = 0
      BY <2>1
    <2> QED BY <2>2, <2>3, FS_EmptySet
  <1>4. ASSUME NEW m \in Life!Messages, NextFor(C, m) PROVE Goal
    <2>1. /\ m = sentBy[Life!Other(C)][got[C] + 1] /\ got[C] + 1 \in DOMAIN sentBy[Life!Other(C)]
          /\ got'[C] = got[C] + 1 /\ state[C] # "None" /\ Delivery(C, m)
      BY <1>4, NextInOrder
    <2>2. m = sentBy'["server"][got[C] + 1]
      BY <2>1, NothingUnsaid DEF Longer
    <2>3. 1 .. got'[C] = (1 .. got[C]) \union {got[C] + 1} /\ got[C] + 1 \notin 1 .. got[C]
      BY <2>1
    <2>4. CASE m.kind = "Data"
      <3>1. CASE Takes(C, m)
        <4>1. Len(received'[C]) = Len(received[C]) + 1
          <5>1. m.from \in Nat
            BY DEF Life!Messages
          <5>2. received'[C] = Append(received[C], m.from)
            BY <1>0, <3>1 DEF Takes, Life!TypeOK
          <5> QED BY <1>0, <5>1, <5>2, Said
        <4>2. Life!DataHad' = Life!DataHad \union {got[C] + 1} /\ got[C] + 1 \notin Life!DataHad
          BY <2>2, <2>3, <2>4, HadIs
        <4>3. Cardinality(Life!DataHad') = Cardinality(Life!DataHad) + 1
          BY <4>2, HadIs, FS_AddElement
        <4> QED BY <1>0, <2>1, <4>1, <4>3
      <3>2. CASE ~Takes(C, m)
        <4>1. state'[C] = "None"
          BY <2>1, <2>4, <3>2 DEF Delivery, Life!CommunicationError, Life!ConnectionError, Greets, Responds,
                                  Accepts, Rejects
        <4> QED BY <4>1
      <3> QED BY <3>1, <3>2
    <2>5. CASE m.kind # "Data"
      <3>1. Life!DataHad' = Life!DataHad
        <4>1. /\ Life!DataHad' = {i \in 1 .. got'[C] : sentBy'["server"][i].kind = "Data"}
              /\ Life!DataHad = {i \in 1 .. got[C] : sentBy'["server"][i].kind = "Data"}
          BY HadIs
        <4>2. sentBy'["server"][got[C] + 1].kind # "Data"
          BY <2>2, <2>5
        <4> QED BY <2>3, <4>1, <4>2
      <3>2. received' = received
        BY <2>1, <2>5 DEF Delivery, Life!CommunicationError, Greets, Responds, Accepts, Rejects, Takes,
                          Life!HandleClose, Life!HandleKeepAlive
      <3> QED BY <1>0, <2>1, <3>1, <3>2
    <2> QED BY <2>4, <2>5
  <1>5. ASSUME NEW m \in Life!Messages, NextFor("server", m) PROVE Goal
    <2>1. got'[C] = got[C] /\ Delivery("server", m)
      BY <1>5, NextInOrder
    <2>2. received'[C] = received[C]
      BY <1>0, <2>1 DEF Delivery, Life!CommunicationError, Greets, Responds, Accepts, Rejects, Takes,
                        Life!HandleClose, Life!HandleKeepAlive, Life!TypeOK
    <2>3. state'[C] = state[C]
      BY <2>1 DEF Delivery, Life!CommunicationError, Life!ConnectionError, Greets, Responds, Accepts, Rejects, Takes,
                  Life!HandleClose, Life!HandleKeepAlive
    <2> QED BY <1>2, <2>1, <2>2, <2>3
  <1>6. ASSUME NEW e \in Life!End, NEW m \in Life!Messages, Speech(e, m) PROVE Goal
    <2>1. got'[C] = got[C] /\ received'[C] = received[C]
      BY <1>6 DEF Speech
    <2>2. state[C] = "None" => state'[C] = "None"
      BY <1>6 DEF Speech
    <2> QED BY <1>2, <2>1, <2>2
  <1>7. ASSUME NEW e \in Life!End, Life!NoConnection(e) PROVE Goal
    <2>1. ASSUME NEW m \in Life!Messages, Arises(m) PROVE Goal
      <3>1. got'[C] = got[C] /\ state'[C] = state[C]
        BY <2>1 DEF Arises
      <3>2. received'[C] = received[C]
        BY <1>0, <2>1 DEF Arises, Life!NewObject, Life!TypeOK
      <3> QED BY <1>2, <3>1, <3>2
    <2>2. CASE UNCHANGED <<state, id, partner, sentBy, acked, got, held, told, received>>
      BY <1>2, <2>2
    <2> QED BY <1>0, <1>7, <2>1, <2>2, NoConnectionIs
  <1>8. ASSUME NEW e \in Life!End,
               Life!Hold(e) \/ Life!Ack(e) \/ Quits(e) \/ Life!Crash(e) \/ Life!Restart(e) \/ Life!LoseClosed
        PROVE  Goal
    <2>1. state' = state \/ state' = [state EXCEPT ![e] = "None"]
      BY <1>8 DEF Life!Hold, Life!Ack, Quits, Life!HandleClosed, Life!ConnectionError, Life!CheckTimeout,
                  Life!CloseHard, Life!Crash, Life!Restart, Life!LoseClosed
    <2>2. got' = got /\ received' = received
      BY <1>8 DEF Life!Hold, Life!Ack, Quits, Life!HandleClosed, Life!ConnectionError, Life!CheckTimeout,
                  Life!CloseHard, Life!Crash, Life!Restart, Life!LoseClosed
    <2>3. state[C] = "None" => state'[C] = "None"
      BY <2>1
    <2> QED BY <1>2, <2>2, <2>3
  <1> QED BY <1>0, <1>3, <1>4, <1>5, <1>6, <1>7, <1>8, StepIs

\* What the ends have heard.
LEMMA HeardInOrder ==
  ASSUME Early
  PROVE  Life!HearsInOrder'
  <1> USE EarlyIs
  <1>1. /\ state["client"] = "Connected" => Life!Had("client", "Accept")
        /\ state["server"] = "AwaitingAcceptReject" \/ told["server"] # <<>> => Life!Had("server", "ClientResponse")
    BY DEF Early, Life!OrderInv, Life!HearsInOrder
  <1>2. state'["client"] = "Connected" => Life!Had("client", "Accept")'
    BY <1>1, Enters, StillHad
  <1>3. state'["server"] = "AwaitingAcceptReject" \/ told'["server"] # <<>> => Life!Had("server", "ClientResponse")'
    BY <1>1, Enters, ServerTurns, StillHad
  <1> QED BY <1>2, <1>3, DataCounted, CountIs DEF Life!HearsInOrder

\* Before the client connects it only can.
LEMMA BeforeClient ==
  ASSUME Early, id["client"] = 0
  PROVE  id'["client"] = 1 \/ UNCHANGED <<id, closedMsg>>
  <1> USE EarlyIs
  <1>0. Life!TypeOK /\ Life!AuthInv /\ Life!Next /\ crashes' = crashes /\ crashes = 0
    BY DEF Early
  <1>1. /\ closedMsg = {} /\ \A e \in Life!End : state[e] = "None" /\ DOMAIN sentBy[e] = {}
    <2>1. sentBy["client"] = <<>> /\ sentBy["server"] = <<>>
      BY BeginsAre
    <2>2. DOMAIN sentBy["client"] = {} /\ DOMAIN sentBy["server"] = {}
      BY <2>1
    <2>3. closedMsg = {} /\ state["client"] = "None" /\ state["server"] = "None"
      BY BeginsAre
    <2> QED BY <2>2, <2>3
  <1>2. CASE Life!Connect
    <2>1. id'["client"] = id["client"] + 1
      BY <1>0, <1>2, NewObjectIs DEF Life!Connect
    <2> QED BY <2>1
  <1>3. ASSUME NEW e \in Life!End
        PROVE  /\ ~Life!NoConnection(e) /\ ~Quits(e) /\ ~Life!Hold(e) /\ ~Life!Ack(e) /\ ~Life!Crash(e) /\ ~Life!LoseClosed
               /\ \A m \in Life!Messages : ~NextFor(e, m) /\ ~Speech(e, m)
    <2>1. ~Life!NoConnection(e)
      BY <1>0, <1>1, NoConnectionIs
    <2>2. ~Quits(e)
      BY <1>1 DEF Quits, Life!HandleClosed, Life!CheckTimeout, Life!CloseHard, Life!TimesOut, Life!Negotiating
    <2>3. ~Life!Hold(e) /\ ~Life!Ack(e) /\ ~Life!LoseClosed
      BY <1>1 DEF Life!Hold, Life!Ack, Life!LoseClosed
    <2>4. ~Life!Crash(e)
      BY <1>0 DEF Life!Crash
    <2>5. \A m \in Life!Messages : ~NextFor(e, m) /\ ~Speech(e, m)
      BY <1>1 DEF NextFor, Speech
    <2> QED BY <2>1, <2>2, <2>3, <2>4, <2>5
  <1>4. ASSUME NEW e \in Life!End, Life!Restart(e) PROVE UNCHANGED <<id, closedMsg>>
    BY <1>4 DEF Life!Restart
  <1> QED BY <1>0, <1>2, <1>3, <1>4, StepIs

\* Before the server hears of it nobody is answered.
LEMMA BeforeServer ==
  ASSUME Early, id["server"] = 0
  PROVE  id'["server"] = 1 \/ acked'["client"] = 0
  <1> USE EarlyIs
  <1>0. /\ Life!TypeOK /\ Life!AuthInv /\ Life!Next /\ acked["client"] = 0 /\ state["server"] = "None"
        /\ DOMAIN sentBy["server"] = {}
    <2>1. sentBy["server"] = <<>>
      BY BeginsAre
    <2> QED BY <2>1, BeginsAre DEF Early
  <1>1. CASE Life!Connect
    <2>1. acked' = [acked EXCEPT !["client"] = 0]
      BY <1>1 DEF Life!Connect, Life!NewObject
    <2>2. "client" \in DOMAIN acked
      BY <1>0 DEF Life!TypeOK
    <2> QED BY <2>1, <2>2
  <1>2. ASSUME NEW e \in Life!End, NEW m \in Life!Messages, NextFor(e, m) PROVE FALSE
    BY <1>2, NextInOrder
  <1>3. ASSUME NEW e \in Life!End, NEW m \in Life!Messages, Speech(e, m) PROVE acked'["client"] = 0
    BY <1>0, <1>3 DEF Speech
  <1>4. ASSUME NEW e \in Life!End, Life!NoConnection(e) PROVE id'["server"] = 1 \/ acked'["client"] = 0
    <2>1. ASSUME NEW m \in Life!Messages, Arises(m) PROVE id'["server"] = 1
      BY <1>0, <2>1, NewObjectIs DEF Arises
    <2> QED BY <1>0, <1>4, <2>1, NoConnectionIs
  <1>5. ASSUME NEW e \in Life!End, Life!Hold(e) \/ Life!Ack(e) PROVE FALSE
    <2>1. ~Life!Ack(e)
      BY <1>0 DEF Life!Ack
    <2>2. Life!Hold(e) => e = "client"
      BY <1>0 DEF Life!Hold
    <2>3. e = "client" => ~Life!Hold(e)
      BY <1>0 DEF Life!Hold, Life!Arriving
    <2> QED BY <1>5, <2>1, <2>2, <2>3
  <1>6. ASSUME NEW e \in Life!End, Quits(e) \/ Life!Crash(e) \/ Life!Restart(e) \/ Life!LoseClosed
        PROVE  acked'["client"] = 0
    BY <1>0, <1>6 DEF Quits, Life!HandleClosed, Life!CheckTimeout, Life!CloseHard, Life!Crash, Life!Restart, Life!LoseClosed
  <1> QED BY <1>0, <1>1, <1>2, <1>3, <1>4, <1>5, <1>6, StepIs

\* An end makes an object in answer to something, and says so.
LEMMA ObjectsSpeak ==
  ASSUME Early
  PROVE  /\ \A e \in Life!End : id'[e] # id[e] => sentBy'[e] # <<>>
         /\ id'["server"] # id["server"] => sentBy["client"] # <<>>
  <1> DEFINE Goal == /\ \A e \in Life!End : id'[e] # id[e] => sentBy'[e] # <<>>
                     /\ id'["server"] # id["server"] => sentBy["client"] # <<>>
  <1> USE EarlyIs
  <1>0. Life!TypeOK /\ Life!AuthInv /\ Life!Next
    BY DEF Early
  <1>n. id' = id => Goal
    OBVIOUS
  <1>1. CASE Life!Connect
    <2>1. id' = [id EXCEPT !["client"] = @ + 1]
      BY <1>0, <1>1, NewObjectIs DEF Life!Connect
    <2>2. sentBy'["client"] # <<>>
      BY <1>1 DEF Life!Connect
    <2> QED BY <2>1, <2>2
  <1>2. ASSUME NEW e \in Life!End, Life!NoConnection(e) PROVE Goal
    <2>1. ASSUME NEW m \in Life!Messages, Arises(m), e = "server", NEW n \in DOMAIN sentBy[Life!Other(e)] PROVE Goal
      <3>1. id' = [id EXCEPT !["server"] = @ + 1]
        BY <1>0, <2>1, NewObjectIs DEF Arises
      <3>2. sentBy'["server"] # <<>>
        BY <2>1 DEF Arises
      <3>3. sentBy["client"] # <<>>
        BY <2>1
      <3> QED BY <3>1, <3>2, <3>3
    <2> QED BY <1>0, <1>2, <1>n, <2>1, NoConnectionIs
  <1>3. ASSUME NEW e \in Life!End, NEW m \in Life!Messages, NextFor(e, m) \/ Speech(e, m) PROVE id' = id
    BY <1>3 DEF NextFor, Speech
  <1>4. ASSUME NEW e \in Life!End,
               Life!Hold(e) \/ Life!Ack(e) \/ Quits(e) \/ Life!Crash(e) \/ Life!Restart(e) \/ Life!LoseClosed
        PROVE  id' = id
    BY <1>4 DEF Life!Hold, Life!Ack, Quits, Life!HandleClosed, Life!CheckTimeout, Life!CloseHard, Life!Crash,
                Life!Restart, Life!LoseClosed
  <1> HIDE DEF Goal
  <1> QED BY <1>0, <1>n, <1>1, <1>2, <1>3, <1>4, StepIs DEF Goal

\* How the first connection begins.
LEMMA BegunInOrder ==
  ASSUME Early
  PROVE  Life!BeginsInOrder'
  <1> USE EarlyIs
  <1>0. \A e \in Life!End : id'[e] = 0 => id[e] = 0
    OBVIOUS
  <1>1. \A e \in Life!End : id[e] = 0 => state[e] = "None"
    BY BeginsAre
  <1>2. id'["client"] = 0 => id'["server"] = 0 /\ closedMsg' = {}
    BY <1>0, BeforeClient, BeginsAre
  <1>3. id'["client"] = 0 => sentBy'["client"] = <<>>
    <2> SUFFICES ASSUME id'["client"] = 0 PROVE sentBy'["client"] = <<>>
      OBVIOUS
    <2>1. id["client"] = 0 /\ id["server"] = 0 /\ sentBy["client"] = <<>> /\ state["client"] = "None"
      BY <1>0, BeginsAre
    <2>2. \A m \in Life!Messages : ~Voice("client", m)
      BY <2>1 DEF Voice
    <2>3. \A m \in Life!Messages : Adds("server", m) => sentBy'["client"] = sentBy["client"]
      BY DEF Adds
    <2>4. ASSUME NEW e \in Life!End, NEW m \in Life!Messages, Adds(e, m), Voice(e, m)
          PROVE  sentBy'["client"] = <<>>
      <3>1. e = "client" \/ e = "server"
        BY <2>4
      <3> QED BY <2>1, <2>2, <2>3, <2>4, <3>1
    <2>5. Voices
      BY VoicesAre
    <2> QED BY <2>1, <2>4, <2>5 DEF Voices
  <1>4. id'["client"] # 0 => sentBy'["client"] # <<>>
    <2> SUFFICES ASSUME id'["client"] # 0, sentBy'["client"] = <<>> PROVE FALSE
      OBVIOUS
    <2>1. id'["client"] = id["client"]
      BY ObjectsSpeak
    <2>2. sentBy["client"] # <<>> /\ Len(sentBy["client"]) \in Nat
      BY <2>1 DEF Early, Life!OrderInv, Life!BeginsInOrder
    <2>3. Len(sentBy["client"]) # 0
      BY <2>2
    <2>4. Len(sentBy'["client"]) = 0 /\ Len(sentBy["client"]) <= Len(sentBy'["client"])
      BY NothingUnsaid DEF Longer
    <2> QED BY <2>2, <2>3, <2>4
  <1>5. id'["server"] = 0 =>
          /\ sentBy'["server"] = <<>> /\ told'["server"] = <<>> /\ acked'["client"] = 0
          /\ Len(sentBy'["client"]) <= 1
          /\ \A i \in DOMAIN sentBy'["client"] : sentBy'["client"][i].kind = "ClientChallenge"
    <2> SUFFICES ASSUME id'["server"] = 0
                 PROVE  /\ sentBy'["server"] = <<>> /\ told'["server"] = <<>> /\ acked'["client"] = 0
                        /\ Len(sentBy'["client"]) <= 1
                        /\ \A i \in DOMAIN sentBy'["client"] : sentBy'["client"][i].kind = "ClientChallenge"
      OBVIOUS
    <2>1. /\ id["server"] = 0 /\ sentBy["server"] = <<>> /\ told["server"] = <<>> /\ state["server"] = "None"
          /\ Len(sentBy["client"]) <= 1
          /\ \A i \in DOMAIN sentBy["client"] : sentBy["client"][i].kind = "ClientChallenge"
      BY <1>0, BeginsAre DEF Early, Life!OrderInv, Life!BeginsInOrder
    <2>2. told'["server"] = <<>> /\ acked'["client"] = 0
      BY <2>1, ServerTurns, BeforeServer
    <2>3. \A m \in Life!Messages : ~Voice("server", m)
      BY <2>1 DEF Voice
    <2>4. ASSUME NEW m \in Life!Messages, Adds("client", m), Voice("client", m)
          PROVE  /\ Len(sentBy'["client"]) <= 1
                 /\ \A i \in DOMAIN sentBy'["client"] : sentBy'["client"][i].kind = "ClientChallenge"
      <3>1. m.kind = "ClientChallenge" /\ sentBy["client"] = <<>>
        BY <2>1, <2>4 DEF Voice
      <3>2. Len(sentBy["client"]) = 0
        BY <3>1
      <3>3. /\ Len(sentBy'["client"]) = 1 /\ DOMAIN sentBy'["client"] = 1 .. 1
            /\ sentBy'["client"][1] = m
        BY <2>4, <3>2 DEF Adds
      <3> QED BY <3>1, <3>3
    <2>5. \A m \in Life!Messages : Adds("client", m) => sentBy'["server"] = sentBy["server"]
      BY DEF Adds
    <2> DEFINE Said1 == /\ Len(sentBy'["client"]) <= 1
                        /\ \A i \in DOMAIN sentBy'["client"] : sentBy'["client"][i].kind = "ClientChallenge"
    <2>6. CASE sentBy' = sentBy
      BY <2>1, <2>2, <2>6
    <2>7. ASSUME NEW m \in Life!Messages, Adds("client", m), Voice("client", m)
          PROVE  sentBy'["server"] = <<>> /\ Said1
      BY <2>1, <2>4, <2>5, <2>7
    <2> HIDE DEF Said1
    <2>8. sentBy' = sentBy \/ (sentBy'["server"] = <<>> /\ Said1)
      BY <2>3, <2>7, VoicesAre DEF Voices
    <2> QED BY <2>2, <2>6, <2>8 DEF Said1
  <1> QED BY <1>2, <1>3, <1>4, <1>5 DEF Life!BeginsInOrder

\* Every step of the first connection keeps its order.
LEMMA LifeInOrder ==
  ASSUME Early
  PROVE  Life!OrderInv'
  BY Onward, BegunInOrder, ServerSaid, ClientSaid, HeardInOrder DEF Life!OrderInv

\* Whom the server serves after a step it served before, or he begins.
LEMMA ServingBefore ==
  ASSUME Early, Life!Serving', id'["client"] = id["client"]
  PROVE  Life!Serving
  <1> DEFINE S == "server"
  <1> USE EarlyIs
  <1>1. Turns(S)
    BY StepTurns DEF Early
  <1>2. id["client"] > 0
    BY DEF Life!Serving
  <1>3. CASE id'[S] = 0
    BY <1>2, <1>3 DEF Life!Serving
  <1>4. CASE told'[S] # <<>>
    BY <1>2, <1>4, ServerTurns DEF Life!Serving
  <1>5. CASE state'[S] \in {"AwaitingClientResponse", "AwaitingAcceptReject"}
    <2>1. state[S] \notin {"AwaitingServerChallenge", "AwaitingAcceptance", "AwaitingClientChallenge"}
      BY DEF Early, Life!AuthInv
    <2>2. Resets(S) => id[S] = 0
      <3> SUFFICES ASSUME Resets(S) PROVE id[S] = 0
        OBVIOUS
      <3>1. id'[S] = id[S] + 1 /\ id[S] \in {0, 1}
        BY DEF Resets
      <3> QED BY <3>1
    <2>3. state[S] \in {"AwaitingClientResponse", "AwaitingAcceptReject"} \/ id[S] = 0
      BY <1>1, <1>5, <2>1, <2>2 DEF Turns, Stays, Advances, Life!Negotiating
    <2> QED BY <1>2, <2>3 DEF Life!Serving
  <1> QED BY <1>3, <1>4, <1>5 DEF Life!Serving

\* A client that failed has failed.
LEMMA FailedStays ==
  ASSUME Early, id'["client"] = id["client"], id["client"] > 0, told["client"] = <<"failed">>
  PROVE  told'["client"] = <<"failed">>
  <1> USE EarlyIs
  <1>1. Turns("client") /\ ToldAt("client") /\ state["client"] \in States
    BY StepTurns, ToldInvIs DEF Early
  <1>2. <<"failed">> # <<>> /\ <<"failed">> # <<"connected">>
    <2>1. <<"failed">>[1] # <<"connected">>[1]
      OBVIOUS
    <2> QED BY <2>1
  <1>3. state["client"] = "None"
    BY <1>1, <1>2 DEF ToldAt, States
  <1>4. ~Resets("client")
    <2>1. id["client"] \in {0, 1}
      OBVIOUS
    <2> QED BY <2>1 DEF Resets
  <1> QED BY <1>1, <1>3, <1>4 DEF Turns, Stays, Advances, Welcomes, Retires, Fails, Finishes, Life!Negotiating

\* Counting one more.
LEMMA OneMore == \A a \in Nat : a + 1 \in Nat /\ a <= a + 1
  OBVIOUS

\* What the client's program has received it has received.
LEMMA ReceivedStays ==
  ASSUME Early, id'["client"] = id["client"]
  PROVE  Len(received["client"]) \in Nat /\ Len(received'["client"]) \in Nat /\ Len(received["client"]) <= Len(received'["client"])
  <1> DEFINE C == "client"
             Goal == Len(received[C]) \in Nat /\ Len(received'[C]) \in Nat /\ Len(received[C]) <= Len(received'[C])
  <1> USE EarlyIs
  <1>0. /\ Life!TypeOK /\ Life!AuthInv /\ Life!Next /\ received \in [Life!End -> Seq(Nat)]
        /\ received' \in [Life!End -> Seq(Nat)]
    BY DEF Early, Life!TypeOK
  <1>n. received'[C] = received[C] => Goal
    BY <1>0
  <1>1. ~Life!Connect
    <2> SUFFICES ASSUME Life!Connect PROVE FALSE
      OBVIOUS
    <2>1. id'[C] = id[C] + 1 /\ id[C] \in Nat
      BY <1>0, NewObjectIs DEF Life!Connect
    <2> QED BY <2>1
  <1>2. ASSUME NEW e \in Life!End, NEW m \in Life!Messages, NextFor(e, m) PROVE Goal
    <2>1. CASE Takes(e, m)
      <3>1. m.from \in Nat /\ received' = [received EXCEPT ![e] = Append(@, m.from)]
        BY <2>1 DEF Takes, Life!Messages
      <3>2. CASE e = C
        <4>1. received'[C] = Append(received[C], m.from)
          BY <1>0, <3>1, <3>2
        <4>2. received[C] \in Seq(Nat) /\ m.from \in Nat
          BY <1>0, <3>1
        <4>3. Len(Append(received[C], m.from)) = Len(received[C]) + 1 /\ Len(received[C]) \in Nat
          BY <4>2, Said
        <4> QED BY <4>1, <4>3, OneMore
      <3> QED BY <1>0, <1>n, <3>1, <3>2
    <2>2. CASE ~Takes(e, m)
      <3>1. received' = received
        BY <1>2, <2>2 DEF NextFor, Delivery, Life!CommunicationError, Greets, Responds, Accepts, Rejects,
                          Life!HandleClose, Life!HandleKeepAlive
      <3> QED BY <1>n, <3>1
    <2> QED BY <2>1, <2>2
  <1>3. ASSUME NEW e \in Life!End, Life!NoConnection(e) PROVE Goal
    <2>1. ASSUME NEW m \in Life!Messages, Arises(m) PROVE received'[C] = received[C]
      BY <1>0, <2>1 DEF Arises, Life!NewObject
    <2> QED BY <1>0, <1>3, <1>n, <2>1, NoConnectionIs
  <1>4. ASSUME NEW e \in Life!End, NEW m \in Life!Messages, Speech(e, m) PROVE Goal
    BY <1>4, <1>n DEF Speech
  <1>5. ASSUME NEW e \in Life!End,
               Life!Hold(e) \/ Life!Ack(e) \/ Quits(e) \/ Life!Crash(e) \/ Life!Restart(e) \/ Life!LoseClosed
        PROVE  Goal
    <2>1. received' = received
      BY <1>5 DEF Life!Hold, Life!Ack, Quits, Life!HandleClosed, Life!CheckTimeout, Life!CloseHard, Life!Crash,
                  Life!Restart, Life!LoseClosed
    <2> QED BY <1>n, <2>1
  <1> HIDE DEF Goal
  <1> QED BY <1>0, <1>1, <1>2, <1>3, <1>4, <1>5, StepIs DEF Goal

\* A server that has closed sends no more data.
LEMMA DataStays ==
  ASSUME Early, id["server"] > 0, state["server"] \in {"Closing", "None"}
  PROVE  Life!DataSent("server")' = Life!DataSent("server")
  <1> DEFINE S == "server"
             n == Len(sentBy[S])
  <1> USE EarlyIs
  <1>1. CASE sentBy'[S] = sentBy[S]
    BY <1>1 DEF Life!DataSent
  <1>2. ASSUME NEW m \in Life!Messages, Adds(S, m), Voice(S, m) PROVE Life!DataSent(S)' = Life!DataSent(S)
    <2>1. m.kind # "Data"
      BY <1>2 DEF Voice
    <2>2. /\ n \in Nat /\ DOMAIN sentBy[S] = 1 .. n /\ DOMAIN sentBy'[S] = 1 .. (n + 1)
          /\ \A j \in 1 .. n : sentBy'[S][j] = sentBy[S][j]
          /\ sentBy'[S][n + 1] = m
      BY <1>2 DEF Adds
    <2> HIDE DEF n
    <2>3. 1 .. (n + 1) = (1 .. n) \union {n + 1} /\ n + 1 \notin 1 .. n
      BY <2>2
    <2> QED BY <2>1, <2>2, <2>3 DEF Life!DataSent
  <1>3. ASSUME NEW m \in Life!Messages, Adds("client", m) PROVE sentBy'[S] = sentBy[S]
    BY <1>3 DEF Adds
  <1>4. ASSUME NEW e \in Life!End, NEW m \in Life!Messages, Adds(e, m), Voice(e, m)
        PROVE  Life!DataSent(S)' = Life!DataSent(S)
    <2>1. e = "client" \/ e = S
      BY <1>4
    <2> QED BY <1>1, <1>2, <1>3, <1>4, <2>1
  <1>5. Voices
    BY VoicesAre
  <1> QED BY <1>1, <1>4, <1>5 DEF Voices

\* A client that has had all has had all.
LEMMA AllStaysHad ==
  ASSUME Early, id'["client"] = id["client"], Life!AllHad
  PROVE  Life!AllHad'
  <1> USE EarlyIs
  <1>1. id["server"] > 0 /\ state["server"] \in {"Closing", "None"} /\ Len(received["client"]) >= Cardinality(Life!DataSent("server"))
    BY CountIs DEF Life!AllHad
  <1>2. Life!DataSent("server")' = Life!DataSent("server") /\ state'["server"] \in {"Closing", "None"}
    BY <1>1, DataStays, ServerTurns
  <1>3. id'["server"] > 0
    <2>1. id["server"] # 0
      BY <1>1
    <2>2. id'["server"] = id["server"]
      BY <2>1
    <2> QED BY <1>1, <2>2
  <1>4. Cardinality(Life!DataSent("server")) \in Nat
    <2>1. Life!DataSent("server") \subseteq 1 .. Len(sentBy["server"]) /\ Len(sentBy["server"]) \in Nat
      BY DEF Life!DataSent
    <2>2. IsFiniteSet(1 .. Len(sentBy["server"]))
      BY <2>1, FS_Interval
    <2> QED BY <2>1, <2>2, FS_Subset, FS_CardinalityType
  <1>5. Len(received'["client"]) >= Cardinality(Life!DataSent("server")')
    BY <1>1, <1>2, <1>4, ReceivedStays
  <1> QED BY <1>2, <1>3, <1>5, CountIs DEF Life!AllHad

\* How the two ends of a connection that is served stand.
Stand == Life!Together \/ told["client"] = <<"failed">> \/ Life!AllHad

\* What comes to the client of a server that serves it.
LEMMA ClientGets ==
  ASSUME Early, Life!Together, NEW m \in Life!Messages, NextFor("client", m)
  PROVE  Stand'
  <1> DEFINE C == "client"
             S == "server"
             n == got[C] + 1
  <1> USE EarlyIs
  <1>0. /\ Life!TypeOK /\ Life!AuthInv /\ Life!Next /\ closedMsg = {} /\ state[C] # "None"
        /\ (told[S] # <<>> => state[S] \in {"Connected", "Closing"})
        /\ told \in [Life!End -> Seq(Life!Notices)]
    BY DEF Early, Life!Together, Life!TypeOK
  <1>1. /\ n \in DOMAIN sentBy[S] /\ m = sentBy[S][n] /\ Delivery(C, m)
        /\ got' = [got EXCEPT ![C] = n] /\ got[C] \in Nat
    BY NextInOrder
  <1>2. ToldAt(C) /\ state[C] \in States
    BY ToldInvIs DEF Early
  <1>3. id'[C] = id[C]
    BY NextInOrder
  <1>4. state[C] = "Connected" => \E i \in 1 .. got[C] : sentBy[S][i].kind = "Accept"
    BY DEF Early, Life!OrderInv, Life!HearsInOrder, Life!Had
  <1>5. state[C] = "Connected" => m.kind \in {"Data", "KeepAlive", "Close"}
    <2> SUFFICES ASSUME state[C] = "Connected" PROVE m.kind \in {"Data", "KeepAlive", "Close"}
      OBVIOUS
    <2>1. PICK i \in 1 .. got[C] : sentBy[S][i].kind = "Accept"
      BY <1>4
    <2>2. i < n /\ i \in DOMAIN sentBy[S]
      BY <1>1
    <2> QED BY <1>1, <2>1, <2>2 DEF Early, Life!OrderInv, Life!ServerSaysInOrder, Life!After
  <1>6. ASSUME Life!ConnectionError(C), state[C] \in Life!Negotiating PROVE told'[C] = <<"failed">>
    <2>1. told'[C] = Append(told[C], "failed")
      BY <1>0, <1>6, ErrorTypes
    <2> QED BY <1>2, <1>6, <2>1, Telling DEF ToldAt
  <1>7. state[C] \in Life!Negotiating \/ state[C] = "Connected"
    BY <1>0, <1>2 DEF States, ToldAt
  <1>8. CASE /\ Life!CommunicationError(C)
             /\ \/ m.kind # "KeepAlive" /\ state[C] \notin Life!Expects(m.kind)
                \/ m.kind \in {"ServerChallenge", "ClientResponse"}
    <2>1. state[C] # "Connected"
      BY <1>5, <1>8 DEF Life!Expects
    <2> QED BY <1>6, <1>7, <1>8, <2>1 DEF Stand, Life!CommunicationError
  <1>9. CASE m.kind = "Close" /\ Life!HandleClose(C)
    <2>1. CASE state[C] \in Life!Negotiating
      BY <1>6, <1>9, <2>1 DEF Stand, Life!HandleClose
    <2>2. CASE state[C] = "Connected"
      <3>1. state[S] \in {"Closing", "None"} /\ Life!After(S, "Close", {"KeepAlive"})
        BY <1>1, <1>9 DEF Early, Life!OrderInv, Life!ServerSaysInOrder, Life!Sent
      <3>2. Life!DataSent(S) = Life!DataHad
        <4>1. \A i \in DOMAIN sentBy[S] : sentBy[S][i].kind = "Data" => i <= got[C]
          <5> SUFFICES ASSUME NEW i \in DOMAIN sentBy[S], sentBy[S][i].kind = "Data" PROVE i <= got[C]
            OBVIOUS
          <5>1. i # n /\ ~(n < i)
            BY <1>1, <1>9, <3>1 DEF Life!After
          <5>2. i \in Nat
            OBVIOUS
          <5> QED BY <1>1, <5>1, <5>2
        <4> QED BY <4>1 DEF Life!DataSent, Life!DataHad
      <3>3. Len(received[C]) = Cardinality(Life!DataHad)
        BY <1>0, CountIs DEF Early, Life!OrderInv, Life!HearsInOrder
      <3>4. id[S] > 0
        BY NextInOrder
      <3>5. Cardinality(Life!DataHad) \in Nat
        BY HadIs
      <3>6. Life!AllHad
        BY <3>1, <3>2, <3>3, <3>4, <3>5, CountIs DEF Life!AllHad
      <3> QED BY <1>3, <3>6, AllStaysHad DEF Stand
    <2> QED BY <1>7, <2>1, <2>2
  <1>10. CASE Rejects(C, m)
    <2>1. state[C] \in Life!Negotiating /\ told'[C] = Append(told[C], "failed")
      BY <1>0, <1>10 DEF Rejects, Life!Negotiating
    <2> QED BY <1>2, <2>1, Telling DEF ToldAt, Stand
  <1>11. CASE Greets(C, m) \/ Responds(C, m) \/ Accepts(C, m) \/ Takes(C, m) \/ (m.kind = "KeepAlive" /\ Life!HandleKeepAlive(C))
    <2>1. state'[C] # "None" /\ state'[S] = state[S] /\ told'[S] = told[S] /\ closedMsg' = closedMsg
      BY <1>0, <1>11 DEF Greets, Responds, Accepts, Takes, Life!HandleKeepAlive
    <2> QED BY <1>0, <2>1 DEF Stand, Life!Together
  <1> QED BY <1>1, <1>8, <1>9, <1>10, <1>11 DEF Delivery

\* What comes to the server.
LEMMA ServerGets ==
  ASSUME Early, Life!Together, NEW m \in Life!Messages, NextFor("server", m), Life!Serving'
  PROVE  Stand'
  <1> DEFINE C == "client"
             S == "server"
             n == got[S] + 1
  <1> USE EarlyIs
  <1>0. /\ closedMsg = {} /\ state[C] # "None"
        /\ (told[S] # <<>> => state[S] \in {"Connected", "Closing"})
        /\ told \in [Life!End -> Seq(Life!Notices)] /\ Life!TypeOK
    BY DEF Early, Life!Together, Life!TypeOK
  <1>1. /\ n \in DOMAIN sentBy[C] /\ m = sentBy[C][n] /\ Delivery(S, m)
        /\ got' = [got EXCEPT ![S] = n] /\ got[S] \in Nat
    BY NextInOrder
  <1>2. ToldAt(S) /\ state[S] \in States /\ ClientSays
    BY ToldInvIs DEF Early
  <1>3. id'[S] = id[S] /\ id[S] > 0
    BY NextInOrder
  <1>4. m.kind \in ClientKinds
    BY <1>1, <1>2 DEF ClientSays
  <1>5. told[S] # <<>> => m.kind \in {"Data", "KeepAlive"}
    <2> SUFFICES ASSUME told[S] # <<>> PROVE m.kind \in {"Data", "KeepAlive"}
      OBVIOUS
    <2>1. PICK i \in 1 .. got[S] : sentBy[C][i].kind = "ClientResponse"
      BY DEF Early, Life!OrderInv, Life!HearsInOrder, Life!Had
    <2>2. i < n /\ i \in DOMAIN sentBy[C]
      BY <1>1
    <2> QED BY <1>1, <2>1, <2>2 DEF Early, Life!OrderInv, Life!ClientSaysInOrder, Life!After
  <1>6. CASE /\ Life!CommunicationError(S)
             /\ \/ m.kind # "KeepAlive" /\ state[S] \notin Life!Expects(m.kind)
                \/ m.kind \in {"ServerChallenge", "ClientResponse"}
    <2>1. told[S] = <<>>
      BY <1>0, <1>5, <1>6 DEF Life!Expects
    <2>2. state'[S] = "None"
      BY <1>6 DEF Life!CommunicationError, Life!ConnectionError
    <2>3. told'[S] # <<>>
      BY <1>3, <2>2 DEF Life!Serving
    <2>4. state[S] = "AwaitingAcceptReject"
      BY <2>1, <2>3, ServerTurns
    <2>5. told'[S] = told[S]
      BY <1>0, <1>6, <2>4, ErrorTypes DEF Life!CommunicationError, Life!Negotiating
    <2> QED BY <2>1, <2>3, <2>5
  <1>7. CASE ~Life!CommunicationError(S)
    <2>3. Responds(S, m) \/ Takes(S, m) \/ Life!HandleKeepAlive(S)
      BY <1>1, <1>4, <1>7 DEF Delivery, Greets, Accepts, Rejects, ClientKinds
    <2>4. /\ told' = told /\ closedMsg' = closedMsg
          /\ state' = state \/ (state' = [state EXCEPT ![S] = "AwaitingAcceptReject"] /\ state[S] = "AwaitingClientResponse")
      BY <2>3 DEF Responds, Takes, Life!HandleKeepAlive
    <2>1. state'[C] = state[C] /\ told'[S] = told[S] /\ closedMsg' = closedMsg
      BY <2>4
    <2>2. state'[S] = state[S] \/ state[S] = "AwaitingClientResponse"
      BY <2>4
    <2> QED BY <1>0, <2>1, <2>2 DEF Stand, Life!Together
  <1>8. CASE /\ Life!CommunicationError(S)
             /\ ~(m.kind # "KeepAlive" /\ state[S] \notin Life!Expects(m.kind))
             /\ m.kind \notin {"ServerChallenge", "ClientResponse"}
    <2>1. closedMsg' = closedMsg /\ state'[C] = state[C]
      BY <1>8 DEF Life!CommunicationError, Life!ConnectionError
    <2>2. Takes(S, m) \/ Life!HandleKeepAlive(S)
      BY <1>1, <1>4, <1>8 DEF Delivery, Greets, Responds, Accepts, Rejects, ClientKinds
    <2>3. state'[S] = state[S] /\ told'[S] = told[S]
      BY <2>2 DEF Takes, Life!HandleKeepAlive
    <2> QED BY <1>0, <2>1, <2>3 DEF Stand, Life!Together
  <1> QED BY <1>6, <1>7, <1>8

\* Only gt2Connect makes an object at the client.
LEMMA ClientObject ==
  ASSUME Early, ~Life!Connect
  PROVE  id'["client"] = id["client"]
  <1> USE EarlyIs
  <1>0. Life!TypeOK /\ Life!AuthInv /\ Life!Next
    BY DEF Early
  <1>1. ASSUME NEW e \in Life!End, Life!NoConnection(e) PROVE id'["client"] = id["client"]
    <2>0. "client" \in DOMAIN id
      BY <1>0 DEF Life!TypeOK
    <2>1. ASSUME NEW m \in Life!Messages, Arises(m) PROVE id'["client"] = id["client"]
      <3>1. id' = [id EXCEPT !["server"] = @ + 1]
        BY <2>1 DEF Arises, Life!NewObject
      <3> QED BY <2>0, <3>1
    <2> QED BY <1>0, <1>1, <2>1, NoConnectionIs
  <1>2. ASSUME NEW e \in Life!End, NEW m \in Life!Messages, NextFor(e, m) \/ Speech(e, m) PROVE id' = id
    BY <1>2 DEF NextFor, Speech
  <1>3. ASSUME NEW e \in Life!End,
               Life!Hold(e) \/ Life!Ack(e) \/ Quits(e) \/ Life!Crash(e) \/ Life!Restart(e) \/ Life!LoseClosed
        PROVE  id' = id
    BY <1>3 DEF Life!Hold, Life!Ack, Quits, Life!HandleClosed, Life!CheckTimeout, Life!CloseHard, Life!Crash,
                Life!Restart, Life!LoseClosed
  <1> QED BY <1>0, <1>1, <1>2, <1>3, StepIs

\* While both ends are there and nobody has said Closed.
LEMMA TogetherStep ==
  ASSUME Early, Life!Together, id'["client"] = id["client"], Life!Serving, Life!Serving'
  PROVE  Stand'
  <1> DEFINE C == "client"
             S == "server"
  <1> USE EarlyIs
  <1>0. /\ Life!TypeOK /\ Life!AuthInv /\ Life!Next /\ ~may.hard /\ closedMsg = {} /\ state[C] # "None"
        /\ (told[S] # <<>> => state[S] \in {"Connected", "Closing"})
        /\ told \in [Life!End -> Seq(Life!Notices)]
    BY DEF Early, Life!ServerCloses, Life!Together, Life!TypeOK
  <1>n. UNCHANGED <<state, told, closedMsg>> => Stand'
    BY <1>0 DEF Stand, Life!Together
  <1>1. ~Life!Connect /\ ~Life!LoseClosed
    BY <1>0 DEF Life!Connect, Life!LoseClosed
  <1>2. ASSUME NEW e \in Life!End, NEW m \in Life!Messages, NextFor(e, m) PROVE Stand'
    BY <1>2, ClientGets, ServerGets
  <1>3. ASSUME NEW e \in Life!End, NEW m \in Life!Messages, Speech(e, m) PROVE Stand'
    <2>1. closedMsg' = closedMsg /\ state'[C] # "None"
      BY <1>0, <1>3 DEF Speech
    <2>2. told'[S] # <<>> => state'[S] \in {"Connected", "Closing"}
      BY <1>0, <1>3 DEF Speech
    <2> QED BY <1>0, <2>1, <2>2 DEF Stand, Life!Together
  <1>4. ASSUME NEW e \in Life!End, Life!Hold(e) \/ Life!Ack(e) \/ Life!Restart(e) PROVE Stand'
    BY <1>4, <1>n DEF Life!Hold, Life!Ack, Life!Restart
  <1>5. ASSUME NEW e \in Life!End, Life!NoConnection(e) PROVE Stand'
    <2>1. e = S /\ id[S] = 0 /\ told[S] = <<>>
      <3>1. state[e] = "None"
        BY <1>0, <1>5, NoConnectionIs
      <3>2. e = S /\ state[S] = "None"
        BY <1>0, <3>1
      <3> QED BY <1>0, <3>2, BeginsAre DEF Life!Serving
    <2>2. \A n \in DOMAIN sentBy[C] : ~Life!AnsweredClosed(S, sentBy[C][n])
      BY <2>1, BeginsAre DEF Life!AnsweredClosed
    <2>3. PICK m \in Life!Messages : Arises(m)
      BY <1>0, <1>5, <2>1, <2>2, NoConnectionIs
    <2>4. told'[S] = <<>> /\ state'[C] = state[C] /\ closedMsg' = closedMsg
      BY <1>0, <2>3, NewObjectIs DEF Arises
    <2> QED BY <1>0, <2>4 DEF Stand, Life!Together
  <1>6. ASSUME NEW e \in Life!End, Quits(e) PROVE Stand'
    <2>1. Life!CheckTimeout(e)
      BY <1>0, <1>6 DEF Quits, Life!HandleClosed, Life!CloseHard
    <2>2. CASE e = C
      <3>1. ToldAt(C) /\ state[C] \in Life!Negotiating /\ Life!Tell(C, "failed")
        BY <2>1, <2>2, ToldInvIs DEF Early, Life!CheckTimeout, Life!TimesOut
      <3>2. told'[C] = Append(<<>>, "failed")
        BY <1>0, <3>1, HasThem, TellTypes DEF ToldAt, Life!Notices
      <3> QED BY <3>2, Telling DEF Stand
    <2>3. CASE e = S
      <3>1. state[S] \in Life!TimesOut /\ state'[S] = "None" /\ id' = id
        BY <2>1, <2>3 DEF Life!CheckTimeout
      <3>2. told[S] = <<>> /\ state[S] # "AwaitingAcceptReject" /\ state[S] # "None"
        BY <1>0, <3>1 DEF Life!TimesOut, Life!Negotiating
      <3>3. told'[S] = <<>> /\ id[S] > 0
        BY <3>2, ServerTurns DEF Early, Life!AuthInv
      <3> QED BY <3>1, <3>3 DEF Life!Serving
    <2> QED BY <2>2, <2>3
  <1>7. ASSUME NEW e \in Life!End, Life!Crash(e) PROVE Stand'
    <2>1. crashes' = crashes + 1
      BY <1>7 DEF Life!Crash
    <2> QED BY <2>1
  <1> QED BY <1>0, <1>1, <1>2, <1>3, <1>4, <1>5, <1>6, <1>7, StepIs

\* Every step keeps how the two ends stand.
LEMMA LifeStands ==
  ASSUME Early, Life!EndInv
  PROVE  Life!EndInv'
  <1> DEFINE C == "client"
             S == "server"
  <1> USE EarlyIs
  <1>0. Life!TypeOK /\ Life!AuthInv /\ Life!Next /\ ~may.hard /\ C \notin may.closers
    BY DEF Early, Life!ServerCloses
  <1> SUFFICES ASSUME Life!Serving' PROVE Stand'
    BY DEF Life!EndInv, Stand
  <1>1. CASE id'[C] # id[C]
    <2>1. id[C] = 0
      BY <1>1
    <2>2. Life!Connect
      BY <1>1, ClientObject
    <2>3. state'[C] = "AwaitingServerChallenge" /\ closedMsg' = {} /\ told'[S] = <<>>
      <3>1. told'[S] = told[S]
        BY <1>0, <2>2, NewObjectIs DEF Life!Connect
      <3> QED BY <2>1, <2>2, <3>1, BeginsAre DEF Life!Connect
    <2> QED BY <2>3 DEF Stand, Life!Together
  <1>2. CASE id'[C] = id[C] /\ told[C] = <<"failed">>
    <2>1. id[C] > 0
      BY <1>2 DEF Life!Serving
    <2> QED BY <1>2, <2>1, FailedStays DEF Stand
  <1>3. CASE id'[C] = id[C] /\ Life!AllHad
    BY <1>3, AllStaysHad DEF Stand
  <1>4. CASE id'[C] = id[C] /\ Life!Together
    BY <1>4, TogetherStep, ServingBefore
  <1> QED BY <1>1, <1>2, <1>3, <1>4, ServingBefore DEF Life!EndInv

-----------------------------------------------------------------------------
(***************************************************************************)
(* Connections: the theorem                                                *)
(***************************************************************************)

\* Every step keeps the invariant.
LEMMA LifeKept ==
  ASSUME Life!ConnectionInv, Life!Next
  PROVE  Life!ConnectionInv'
  <1>1. Life!TypeOK /\ Life!AuthInv /\ Life!ToldInv
    BY DEF Life!ConnectionInv
  <1>2. Life!TypeOK' /\ Life!AuthInv' /\ Life!ToldInv'
    BY <1>1, LifeTypes, LifeAuth, LifeTold
  <1>3. ASSUME Life!ServerCloses', Life!First' PROVE Life!OrderInv' /\ Life!EndInv'
    <2>1. Life!ServerCloses
      BY <1>3 DEF Life!Next, Life!ServerCloses
    <2>2. Life!OrderInv /\ Life!EndInv
      BY <1>1, <1>3, <2>1, FirstBefore DEF Life!ConnectionInv
    <2>3. Early
      BY <1>1, <1>3, <2>1, <2>2 DEF Early
    <2> QED BY <2>2, <2>3, LifeInOrder, LifeStands
  <1> QED BY <1>2, <1>3 DEF Life!ConnectionInv

\* It holds at the beginning.
LEMMA LifeBegins ==
  ASSUME Life!Init
  PROVE  Life!ConnectionInv
  <1> USE Begun, SidesAre
  <1>1. /\ state["client"] = "None" /\ state["server"] = "None" /\ id["client"] = 0 /\ id["server"] = 0
        /\ acked["client"] = 0 /\ got["client"] = 0 /\ got["server"] = 0 /\ closedMsg = {}
        /\ told["client"] = <<>> /\ told["server"] = <<>> /\ sentBy["client"] = <<>> /\ sentBy["server"] = <<>>
        /\ received["client"] = <<>> /\ DOMAIN held["client"] = {} /\ DOMAIN held["server"] = {}
    BY DEF Life!Init
  <1>2. /\ DOMAIN sentBy["client"] = {} /\ DOMAIN sentBy["server"] = {}
        /\ Len(sentBy["client"]) = 0 /\ Len(sentBy["server"]) = 0
    BY <1>1
  <1>3. \A e \in Life!End : state[e] = "None" /\ told[e] = <<>> /\ got[e] = 0 /\ DOMAIN sentBy[e] = {}
                            /\ DOMAIN held[e] = {} /\ Len(sentBy[e]) = 0
    BY <1>1, <1>2
  <1>4. Life!ToldInv
    BY <1>1, <1>2, <1>3 DEF Life!ToldInv, Life!Negotiating
  <1>5. Life!HandsInOrder
    BY <1>3, EndsAre DEF Life!HandsInOrder
  <1>6. Life!BeginsInOrder
    BY <1>1, <1>2 DEF Life!BeginsInOrder
  <1>7. Life!ServerSaysInOrder /\ Life!ClientSaysInOrder
    BY <1>1, <1>2 DEF Life!ServerSaysInOrder, Life!ClientSaysInOrder, Life!Sent, Life!After
  <1>8. Life!HearsInOrder
    BY <1>1 DEF Life!HearsInOrder
  <1>9. Life!EndInv
    BY <1>1 DEF Life!EndInv, Life!Serving
  <1> QED BY <1>4, <1>5, <1>6, <1>7, <1>8, <1>9 DEF Life!ConnectionInv, Life!OrderInv

\* It holds when nothing changes.
LEMMA LifeStays ==
  ASSUME Life!ConnectionInv,
         UNCHANGED <<may, up, state, id, partner, sentBy, acked, got, held, told, received, closedMsg, accepted, crashes>>
  PROVE  Life!ConnectionInv'
  <1>1. /\ Life!TypeOK' <=> Life!TypeOK
        /\ Life!AuthInv' <=> Life!AuthInv
        /\ Life!ToldInv' <=> Life!ToldInv
    BY DEF Life!TypeOK, Life!AuthInv, Life!ToldInv, Life!InHand, Life!Answered, Life!ServerCloses
  <1>2. /\ Life!HandsInOrder' <=> Life!HandsInOrder
        /\ Life!BeginsInOrder' <=> Life!BeginsInOrder
        /\ Life!ServerSaysInOrder' <=> Life!ServerSaysInOrder
        /\ Life!ClientSaysInOrder' <=> Life!ClientSaysInOrder
        /\ Life!HearsInOrder' <=> Life!HearsInOrder
    BY DEF Life!HandsInOrder, Life!BeginsInOrder, Life!ServerSaysInOrder, Life!ClientSaysInOrder, Life!HearsInOrder,
           Life!Sent, Life!After, Life!Had, Life!DataHad, Life!DataSent
  <1>3. Life!EndInv' <=> Life!EndInv
    BY DEF Life!EndInv, Life!Serving, Life!Together, Life!AllHad, Life!DataSent
  <1>4. (Life!ServerCloses' <=> Life!ServerCloses) /\ (Life!First' <=> Life!First)
    BY DEF Life!ServerCloses, Life!First
  <1> QED BY <1>1, <1>2, <1>3, <1>4 DEF Life!ConnectionInv, Life!OrderInv

\* What the invariant says.
LEMMA LifeSays ==
  ASSUME Life!ConnectionInv
  PROVE  Life!TypeOK /\ Life!SoftCloseLosesNothing /\ Life!ToldInOrder /\ Life!ChallengeAnswered
  <1> USE SidesAre
  <1>1. Life!TypeOK /\ Life!AuthInv /\ Life!ToldInv
    BY DEF Life!ConnectionInv
  <1>2. Life!ToldInOrder
    BY <1>1 DEF Life!ToldInOrder, Life!ToldInv
  <1>3. Life!ChallengeAnswered
    BY <1>1 DEF Life!ChallengeAnswered, Life!AuthInv, Life!Answered
  <1>4. ASSUME Life!ServerCloses, Life!First, NEW e \in Life!End, Life!ClosedSoftly(e)
        PROVE  Len(received[Life!Other(e)]) >= Cardinality(Life!DataSent(e))
    <2>1. Life!OrderInv /\ Life!EndInv /\ \A d \in Life!End : ToldAt(d)
      BY <1>1, <1>4, ToldInvIs DEF Life!ConnectionInv
    <2>2. e = "server"
      <3>1. \A i \in DOMAIN sentBy["client"] : sentBy["client"][i].kind # "Close"
        BY <1>1, <1>4 DEF Life!ToldInv
      <3> QED BY <1>1, <1>4, <3>1 DEF Life!ClosedSoftly
    <2>3. /\ told["server"] # <<>> /\ told["server"][Len(told["server"])] = "closed"
          /\ told["client"] # <<"failed">>
      BY <1>1, <1>4, <2>2 DEF Life!ClosedSoftly
    <2>4. told["server"] # <<"accepted">>
      <3>1. Len(<<"accepted">>) = 1 /\ <<"accepted">>[1] # "closed"
        OBVIOUS
      <3> QED BY <2>3, <3>1
    <2>5. state["server"] \notin {"Connected", "Closing"}
      BY <1>1, <2>1, <2>3, <2>4 DEF ToldAt
    <2>6. id["client"] > 0
      <3>1. id["client"] # 0 /\ id["client"] \in Nat
        BY <1>1, <2>1, <2>3 DEF Life!OrderInv, Life!BeginsInOrder
      <3> QED BY <3>1
    <2>7. Life!AllHad
      BY <2>1, <2>3, <2>5, <2>6 DEF Life!EndInv, Life!Serving, Life!Together
    <2> QED BY <1>1, <2>2, <2>7, CountIs DEF Life!AllHad
  <1>5. Life!SoftCloseLosesNothing
    BY <1>4, CountIs DEF Life!SoftCloseLosesNothing
  <1> QED BY <1>1, <1>2, <1>3, <1>5

\* When the server's program closed a first connection softly and is told of the close, the client's
\* program has been handed all data that the server's had sent, unless it never got connected
\* (gt2CloseConnection, gti2HandleClose, gti2DeliverReliableMessage).  Whatever the ends are closed by,
\* whatever is lost and however often they come back, the challenges tell the objects apart and the
\* programs are told of a connection in order.
THEOREM SoftCloseLosesNothingHolds == FairSpec => []SoftCloseLosesNothing
  <1> DEFINE LInv == part = "life" => Life!ConnectionInv
  <1>1. Begins => LInv
    BY LifeBegins DEF Begins
  <1>2. LInv /\ [Moves]_gt2 => LInv'
    <2> SUFFICES ASSUME LInv, [Moves]_gt2, part' = "life" PROVE Life!ConnectionInv'
      OBVIOUS
    <2>1. CASE OfConnection(Life!Next)
      BY <2>1, LifeKept DEF OfConnection
    <2>2. CASE UNCHANGED gt2
      BY <2>2, LifeStays DEF gt2, connection
    <2>3. part # "life" /\ part' = part => FALSE
      OBVIOUS
    <2>4. CASE OfMessages(Next) \/ OfSockets(Sockets!Next)
      BY <2>3, <2>4 DEF OfMessages, OfSockets
    <2> QED BY <2>1, <2>2, <2>4 DEF Moves
  <1>3. LInv => SoftCloseLosesNothing
    BY LifeSays DEF SoftCloseLosesNothing
  <1> QED BY <1>1, <1>2, <1>3, PTL DEF FairSpec
=============================================================================
