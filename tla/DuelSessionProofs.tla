-------------------------- MODULE DuelSessionProofs --------------------------
(***************************************************************************)
(* A duel is settled once: from the steps of one phone (MatchSteps) to the  *)
(* steps of the two phones and the queues between them, and from the match  *)
(* invariant to the property that the runs check.                           *)
(***************************************************************************)
EXTENDS MatchSteps

\* No packet may be ahead of another of its kind, and SEND_SHOT_TIME is ahead of few.
LEMMA AheadOfNone ==
  ASSUME NEW x \in PacketID
  PROVE  ~Ahead(x, x)
  BY DEF PacketID, Ahead

\* The fields of a packet.
LEMMA PacketFields ==
  ASSUME NEW m \in Packet
  PROVE  m.id \in PacketID /\ m.result \in Result
  BY DEF Packet

\* The kinds and results of a queue are kinds and results.
LEMMA KindsType ==
  ASSUME NEW q \in Seq(Packet)
  PROVE  Kinds(q) \in SUBSET PacketID /\ Results(q) \in SUBSET Result
  <1>1. \A i \in DOMAIN q : q[i] \in Packet
    OBVIOUS
  <1>2. QED
    BY <1>1, PacketFields DEF Kinds, Results

\* An empty queue holds nothing.
LEMMA KindsEmpty == Kinds(<< >>) = {} /\ Results(<< >>) = {} /\ InOrder(<< >>)
  BY DEF Kinds, Results, InOrder

\* Taking the first packet of an ordered queue takes its kind and leaves the rest in
\* order.
LEMMA TailFacts ==
  ASSUME NEW q \in Seq(Packet), q # << >>, InOrder(q)
  PROVE  /\ Tail(q) \in Seq(Packet) /\ Head(q) \in Packet
         /\ InOrder(Tail(q))
         /\ First(Head(q).id, Kinds(q))
         /\ Kinds(Tail(q)) = Kinds(q) \ {Head(q).id}
         /\ Head(q).id # "SEND_SHOT_TIME" => Results(Tail(q)) = Results(q)
         /\ Head(q).id = "SEND_SHOT_TIME" => Results(Tail(q)) = {} /\ Head(q).result \in Results(q)
  <1> DEFINE t == Tail(q)
             x == Head(q)
  <1>1. /\ t \in Seq(Packet) /\ x \in Packet /\ x = q[1] /\ Len(q) \in Nat /\ Len(q) >= 1
        /\ DOMAIN q = 1 .. Len(q) /\ DOMAIN t = 1 .. Len(q) - 1
        /\ \A i \in DOMAIN t : t[i] = q[i + 1]
    OBVIOUS
  <1>2. \A i \in DOMAIN q : q[i] \in Packet
    OBVIOUS
  <1>3. \A i \in DOMAIN q : i # 1 => q[i].id # x.id /\ Ahead(x.id, q[i].id) /\ Between(x.id, q[i].id,
        Kinds(q))
    BY <1>1, <1>2, PacketFields, AheadOfNone DEF InOrder
  <1>4. \A i \in DOMAIN t : i + 1 \in DOMAIN q /\ i + 1 # 1 /\ t[i] = q[i + 1]
    BY <1>1
  <1>5. \A i \in DOMAIN q : i # 1 => i - 1 \in DOMAIN t /\ t[i - 1] = q[i]
    BY <1>1
  <1> HIDE DEF t, x
  <1>6. Kinds(t) = Kinds(q) \ {x.id}
    <2>1. \A k \in Kinds(t) : k \in Kinds(q) /\ k # x.id
      BY <1>3, <1>4 DEF Kinds
    <2>2. \A k \in Kinds(q) : k # x.id => k \in Kinds(t)
      BY <1>1, <1>5 DEF Kinds
    <2>3. QED
      BY <2>1, <2>2
  <1>7. 1 \in DOMAIN q
    BY <1>1
  <1>8. First(x.id, Kinds(q))
    <2>1. x.id \in Kinds(q)
      BY <1>1, <1>7 DEF Kinds
    <2>2. \A k \in Kinds(q) \ {x.id} : Ahead(x.id, k) /\ Between(x.id, k, Kinds(q))
      BY <1>1, <1>3, ZenonT(60) DEF Kinds
    <2>3. QED
      BY <2>1, <2>2 DEF First
  <1>9. InOrder(t)
    <2> SUFFICES ASSUME NEW i \in DOMAIN t, NEW j \in DOMAIN t, i < j
                 PROVE  Ahead(t[i].id, t[j].id) /\ Between(t[i].id, t[j].id, Kinds(t))
      BY DEF InOrder
    <2>1. /\ i + 1 \in DOMAIN q /\ j + 1 \in DOMAIN q /\ i + 1 < j + 1 /\ i + 1 # 1
          /\ t[i] = q[i + 1] /\ t[j] = q[j + 1]
      BY <1>1, <1>4
    <2>2. Ahead(t[i].id, t[j].id) /\ Between(t[i].id, t[j].id, Kinds(q)) /\ Ahead(x.id, t[i].id)
      BY <2>1, <1>3 DEF InOrder
    <2>3. t[i].id = "START_DUEL_TRUE" => x.id # "SEND_SHOT_TIME"
      BY <2>2 DEF Ahead
    <2>4. t[i].id = "TIME_TRY" => x.id # "OPONTYPE_RESPONSE_TRY"
      BY <2>2 DEF Ahead
    <2>5. QED
      BY <1>6, <2>2, <2>3, <2>4 DEF Between
  <1>10. x.id # "SEND_SHOT_TIME" => Results(t) = Results(q)
    <2>1. \A r \in Results(t) : r \in Results(q)
      BY <1>4 DEF Results
    <2>2. ASSUME x.id # "SEND_SHOT_TIME" PROVE \A r \in Results(q) : r \in Results(t)
      BY <2>2, <1>1, <1>5 DEF Results
    <2>3. QED
      BY <2>1, <2>2
  <1>11. x.id = "SEND_SHOT_TIME" => Results(t) = {} /\ x.result \in Results(q)
    BY <1>1, <1>3, <1>4, <1>7 DEF Results
  <1>12. QED
    BY <1>1, <1>6, <1>8, <1>9, <1>10, <1>11 DEF t, x

\* Adding a packet that may come last adds its kind and keeps the order.
LEMMA AppendFacts ==
  ASSUME NEW q \in Seq(Packet), NEW m \in Packet, InOrder(q)
  PROVE  LET w == Append(q, m) IN
         /\ w \in Seq(Packet)
         /\ Kinds(w) = Kinds(q) \union {m.id}
         /\ Results(w) = Results(q) \union (IF m.id = "SEND_SHOT_TIME" THEN {m.result} ELSE {})
         /\ Last(m.id, Kinds(q)) => InOrder(w)
  <1> DEFINE w == Append(q, m)
  <1>1. /\ w \in Seq(Packet) /\ Len(q) \in Nat /\ DOMAIN q = 1 .. Len(q) /\ DOMAIN w = 1 .. Len(q) + 1
        /\ (\A i \in DOMAIN q : w[i] = q[i]) /\ w[Len(q) + 1] = m
    OBVIOUS
  <1>2. /\ \A i \in DOMAIN w : i \in DOMAIN q \/ i = Len(q) + 1
        /\ Len(q) + 1 \in DOMAIN w /\ \A i \in DOMAIN q : i \in DOMAIN w /\ i < Len(q) + 1
           /\ i # Len(q) + 1
    BY <1>1
  <1> DEFINE n == Len(q) + 1
  <1>3. w[n] = m /\ n \in DOMAIN w /\ \A i \in DOMAIN w : i \in DOMAIN q \/ i = n
    BY <1>1, <1>2
  <1> HIDE DEF w, n
  <1>4. Kinds(w) = Kinds(q) \union {m.id}
    <2>1. \A k \in Kinds(w) : k \in Kinds(q) \union {m.id}
      BY <1>1, <1>3 DEF Kinds
    <2>2. \A k \in Kinds(q) \union {m.id} : k \in Kinds(w)
      BY <1>1, <1>2, <1>3 DEF Kinds
    <2>3. QED
      BY <2>1, <2>2
  <1>5. Results(w) = Results(q) \union (IF m.id = "SEND_SHOT_TIME" THEN {m.result} ELSE {})
    <2>1. \A r \in Results(w) : r \in Results(q) \/ (m.id = "SEND_SHOT_TIME" /\ r = m.result)
      BY <1>1, <1>3 DEF Results
    <2>2. \A r \in Results(q) : r \in Results(w)
      BY <1>1, <1>2 DEF Results
    <2>3. m.id = "SEND_SHOT_TIME" => m.result \in Results(w)
      BY <1>3 DEF Results
    <2>4. QED
      BY <2>1, <2>2, <2>3
  <1>6. ASSUME Last(m.id, Kinds(q))
        PROVE  InOrder(w)
    <2> SUFFICES ASSUME NEW i \in DOMAIN w, NEW j \in DOMAIN w, i < j
                 PROVE  Ahead(w[i].id, w[j].id) /\ Between(w[i].id, w[j].id, Kinds(w))
      BY DEF InOrder
    <2>1. i \in DOMAIN q
      BY <1>1, <1>2, i < j DEF n
    <2>2. CASE j \in DOMAIN q
      <3>1. Ahead(w[i].id, w[j].id) /\ Between(w[i].id, w[j].id, Kinds(q))
        BY <2>1, <2>2, <1>1 DEF InOrder
      <3>2. QED
        BY <3>1, <1>4 DEF Between
    <2>3. CASE j = n
      <3>1. w[i].id \in Kinds(q) /\ w[j].id = m.id
        BY <2>1, <2>3, <1>1, <1>3 DEF Kinds
      <3>2. Ahead(w[i].id, m.id) /\ Between(w[i].id, m.id, Kinds(q))
        BY <3>1, <1>6 DEF Last
      <3>3. QED
        BY <3>1, <3>2, <1>4 DEF Between
    <2>4. QED
      BY <2>2, <2>3, <1>3
  <1>7. QED
    BY <1>1, <1>4, <1>5, <1>6 DEF w

\* The invariant, said of one phone and of the other at once.
LEMMA MatchHere ==
  ASSUME TypeOK, MatchInv, NEW p \in Phone
  PROVE  LET o == Other(p) IN
         /\ ph[p] \in Local /\ ph[o] \in Local
         /\ net[p] \in Seq(Packet) /\ net[o] \in Seq(Packet) /\ InOrder(net[p]) /\ InOrder(net[o])
         /\ Kinds(net[p]) \in SUBSET PacketID /\ Kinds(net[o]) \in SUBSET PacketID
         /\ Results(net[p]) \in SUBSET Result /\ Results(net[o]) \in SUBSET Result
         /\ Match(ph[p], ph[o], Kinds(net[p]), Kinds(net[o]), Results(net[p]), Results(net[o]))
  <1>1. Other(p) \in Phone /\ Other(Other(p)) = p
    BY PhoneFacts
  <1>2. /\ ph[p] \in Local /\ ph[Other(p)] \in Local
        /\ net[p] \in Seq(Packet) /\ net[Other(p)] \in Seq(Packet)
    BY <1>1 DEF TypeOK
  <1>3. Match(ph[p], ph[Other(p)], Kinds(net[p]), Kinds(net[Other(p)]), Results(net[p]),
        Results(net[Other(p)]))
    BY <1>1 DEF MatchInv, Match
  <1>4. InOrder(net[p]) /\ InOrder(net[Other(p)])
    BY <1>1 DEF MatchInv
  <1>5. QED
    BY <1>2, <1>3, <1>4, KindsType

\* The invariant of both phones from what Match says of one.
LEMMA MatchThere ==
  ASSUME NEW p \in Phone, InOrder(net'[p]), InOrder(net'[Other(p)]),
         Match(ph'[p], ph'[Other(p)], Kinds(net'[p]), Kinds(net'[Other(p)]),
               Results(net'[p]), Results(net'[Other(p)]))
  PROVE  MatchInv'
  <1>1. \A q \in Phone : q = p \/ q = Other(p)
    BY PhoneFacts
  <1>2. Other(Other(p)) = p
    BY PhoneFacts
  <1>3. QED
    BY <1>1, <1>2 DEF MatchInv, Match

\* The queue of a phone that has closed is empty.
LEMMA OwnQueue ==
  ASSUME NEW g, NEW h, NEW q, NEW U, NEW V, NEW R, NEW Q, InOrder(q),
         (U = Kinds(q) /\ R = Results(q)) \/ (~g.open /\ U = {} /\ R = {}),
         Match(g, h, U, V, R, Q)
  PROVE  LET s == IF g.open THEN q ELSE << >> IN
         InOrder(s) /\ Kinds(s) = U /\ Results(s) = R
  <1>1. CASE g.open
    BY <1>1
  <1>2. CASE ~g.open
    <2>1. U = {} /\ R = {}
      BY <1>2 DEF Match, Toward, Scored
    <2>2. QED
      BY <1>2, <2>1, KindsEmpty
  <1>3. QED
    BY <1>1, <1>2

\* A step of one phone that sends nothing keeps the invariant if Match survives it.
LEMMA SilentStep ==
  ASSUME TypeOK, MatchInv, NEW p \in Phone, NEW g, NEW q \in Seq(Packet), InOrder(q), NEW U, NEW R,
         (U = Kinds(q) /\ R = Results(q)) \/ (~g.open /\ U = {} /\ R = {}),
         ph' = [ph EXCEPT ![p] = g],
         net' = Deliver([net EXCEPT ![p] = q], p, g, << >>),
         Match(g, ph[Other(p)], U, Kinds(net[Other(p)]), R, Results(net[Other(p)]))
  PROVE  MatchInv'
  <1> DEFINE o == Other(p)
             queues == [net EXCEPT ![p] = q]
  <1>1. o \in Phone /\ o # p
    BY PhoneFacts
  <1>2. ph'[p] = g /\ ph'[o] = ph[o]
    BY <1>1 DEF TypeOK
  <1>3. queues \in Queues /\ queues[p] = q /\ queues[o] = net[o]
        /\ net' = Deliver(queues, p, g, << >>)
    BY <1>1 DEF TypeOK, Queues
  <1>4. << >> \in Seq(Packet) /\ net[o] \in Seq(Packet) /\ net[o] \o << >> = net[o] /\ InOrder(net[o])
    BY <1>1, MatchHere, ConcatEmptySeq
  <1> HIDE DEF queues
  <1>5a. /\ net'[p] = (IF g.open THEN queues[p] ELSE << >>)
         /\ net'[o] = (IF ph[p].open /\ ph[o].open THEN queues[o] \o << >> ELSE queues[o])
    <2> DEFINE ms == << >>
    <2>1. ms \in Seq(Packet) /\ net' = Deliver(queues, p, g, ms)
      BY <1>3, <1>4
    <2> HIDE DEF ms
    <2>2. /\ Deliver(queues, p, g, ms)[p] = (IF g.open THEN queues[p] ELSE << >>)
          /\ Deliver(queues, p, g, ms)[o] = (IF ph[p].open /\ ph[o].open THEN queues[o] \o ms ELSE queues[o])
      BY <1>3, <2>1, DeliverFacts
    <2>3. QED
      BY <2>1, <2>2 DEF ms
  <1> HIDE DEF o
  <1>5. net'[p] = (IF g.open THEN q ELSE << >>) /\ net'[o] = net[o]
    BY <1>3, <1>4, <1>5a
  <1>6. InOrder(net'[p]) /\ Kinds(net'[p]) = U /\ Results(net'[p]) = R
    BY <1>5, OwnQueue DEF o
  <1>7. Match(ph'[p], ph'[o], Kinds(net'[p]), Kinds(net'[o]), Results(net'[p]), Results(net'[o]))
    BY <1>2, <1>5, <1>6 DEF o
  <1>8. InOrder(net'[o])
    BY <1>4, <1>5
  <1>9. QED
    BY <1>6, <1>7, <1>8, MatchThere DEF o

\* A step of one phone that sends a packet keeps the invariant if Match survives it.
LEMMA SendingStep ==
  ASSUME TypeOK, MatchInv, NEW p \in Phone, NEW g, NEW q \in Seq(Packet), InOrder(q), NEW U, NEW R,
         (U = Kinds(q) /\ R = Results(q)) \/ (~g.open /\ U = {} /\ R = {}),
         NEW m \in Packet, ph[p].open, ph' = [ph EXCEPT ![p] = g],
         net' = Deliver([net EXCEPT ![p] = q], p, g, << m >>),
         ph[Other(p)].open => Last(m.id, Kinds(net[Other(p)])),
         NEW Q, Q = Results(net[Other(p)]) \union
                      (IF ph[Other(p)].open /\ m.id = "SEND_SHOT_TIME" THEN {m.result} ELSE {}),
         Match(g, ph[Other(p)], U,
               IF ph[Other(p)].open THEN Kinds(net[Other(p)]) \union {m.id} ELSE Kinds(net[Other(p)]),
               R, Q)
  PROVE  MatchInv'
  <1> DEFINE o == Other(p)
             queues == [net EXCEPT ![p] = q]
  <1>1. o \in Phone /\ o # p
    BY PhoneFacts
  <1>2. ph'[p] = g /\ ph'[o] = ph[o]
    BY <1>1 DEF TypeOK
  <1>3. queues \in Queues /\ queues[p] = q /\ queues[o] = net[o]
        /\ net' = Deliver(queues, p, g, << m >>)
    BY <1>1 DEF TypeOK, Queues
  <1>4. << m >> \in Seq(Packet) /\ net[o] \in Seq(Packet) /\ InOrder(net[o])
    BY <1>1, MatchHere
  <1>4a. net[o] \o << m >> = Append(net[o], m)
    BY <1>4, AppendIsConcat
  <1> HIDE DEF queues
  <1>5a. /\ net'[p] = (IF g.open THEN queues[p] ELSE << >>)
         /\ net'[o] = (IF ph[o].open THEN queues[o] \o << m >> ELSE queues[o])
    <2> DEFINE ms == << m >>
    <2>1. ms \in Seq(Packet) /\ net' = Deliver(queues, p, g, ms)
      BY <1>3, <1>4
    <2> HIDE DEF ms
    <2>2. /\ Deliver(queues, p, g, ms)[p] = (IF g.open THEN queues[p] ELSE << >>)
          /\ Deliver(queues, p, g, ms)[o] = (IF ph[p].open /\ ph[o].open THEN queues[o] \o ms ELSE queues[o])
      BY <1>3, <2>1, DeliverFacts
    <2>3. QED
      BY <2>1, <2>2 DEF ms
  <1> HIDE DEF o
  <1>5. net'[p] = (IF g.open THEN q ELSE << >>) /\ net'[o] = (IF ph[o].open THEN Append(net[o],
        m) ELSE net[o])
    BY <1>3, <1>4a, <1>5a
  <1>6. InOrder(net'[p]) /\ Kinds(net'[p]) = U /\ Results(net'[p]) = R
    BY <1>5, OwnQueue DEF o
  <1>7. CASE ph[o].open
    <2>1. net'[o] = Append(net[o], m)
      BY <1>5, <1>7
    <2>2. InOrder(net'[o]) /\ Kinds(net'[o]) = Kinds(net[o]) \union {m.id} /\ Results(net'[o]) = Q
      BY <2>1, <1>4, <1>7, AppendFacts, ZenonT(60) DEF o
    <2>3. QED
      BY <1>2, <1>6, <1>7, <2>2, MatchThere DEF o
  <1>8. CASE ~ph[o].open
    <2>1. net'[o] = net[o]
      BY <1>5, <1>8
    <2>2. QED
      BY <1>2, <1>4, <1>6, <1>8, <2>1, MatchThere DEF o
  <1>9. QED
    BY <1>7, <1>8

\* The packet at the head of a queue is ahead of all the others.
LEMMA HeadFacts ==
  ASSUME TypeOK, MatchInv, NEW p \in Phone, NEW id, NEW g, NEW ms, Handles(p, id, g, ms)
  PROVE  LET q == Tail(net[p]) IN
         /\ net[p] # << >> /\ Head(net[p]) \in Packet /\ ph[p].open
         /\ First(id, Kinds(net[p])) /\ q \in Seq(Packet) /\ InOrder(q)
         /\ Kinds(q) = Kinds(net[p]) \ {id}
         /\ Results(q) = (IF id = "SEND_SHOT_TIME" THEN {} ELSE Results(net[p]))
         /\ id = "SEND_SHOT_TIME" => Head(net[p]).result \in Results(net[p])
         /\ ph' = [ph EXCEPT ![p] = g]
         /\ net' = Deliver([net EXCEPT ![p] = q], p, g, ms)
  <1>1. /\ net[p] # << >> /\ Head(net[p]).id = id /\ ph[p].open
        /\ ph' = [ph EXCEPT ![p] = g]
        /\ net' = Deliver([net EXCEPT ![p] = Tail(net[p])], p, g, ms)
    BY DEF Handles, TypeOK
  <1>2. net[p] \in Seq(Packet) /\ InOrder(net[p])
    BY MatchHere
  <1>3. QED
    BY <1>1, <1>2, TailFacts

\* A handler that sends nothing keeps the invariant if Match survives it.
LEMMA HandledSilently ==
  ASSUME TypeOK, MatchInv, NEW p \in Phone, NEW id, NEW g, Handles(p, id, g, << >>), NEW U, NEW R,
         \/ /\ U = Kinds(net[p]) \ {id}
            /\ R = IF id = "SEND_SHOT_TIME" THEN {} ELSE Results(net[p])
         \/ ~g.open /\ U = {} /\ R = {},
         Match(g, ph[Other(p)], U, Kinds(net[Other(p)]), R, Results(net[Other(p)]))
  PROVE  MatchInv'
  <1> DEFINE q == Tail(net[p])
  <1>1. /\ q \in Seq(Packet) /\ InOrder(q) /\ Kinds(q) = Kinds(net[p]) \ {id}
        /\ Results(q) = (IF id = "SEND_SHOT_TIME" THEN {} ELSE Results(net[p]))
        /\ ph' = [ph EXCEPT ![p] = g]
        /\ net' = Deliver([net EXCEPT ![p] = q], p, g, << >>)
    BY HeadFacts
  <1> HIDE DEF q
  <1>2. QED
    BY <1>1, SilentStep

\* A handler that sends a packet keeps the invariant if Match survives it.
LEMMA HandledSending ==
  ASSUME TypeOK, MatchInv, NEW p \in Phone, NEW id, NEW g, NEW m \in Packet,
         Handles(p, id, g, << m >>), id # "SEND_SHOT_TIME", m.id # "SEND_SHOT_TIME",
         ph[Other(p)].open => Last(m.id, Kinds(net[Other(p)])),
         Match(g, ph[Other(p)], Kinds(net[p]) \ {id},
               IF ph[Other(p)].open THEN Kinds(net[Other(p)]) \union {m.id} ELSE Kinds(net[Other(p)]),
               Results(net[p]), Results(net[Other(p)]))
  PROVE  MatchInv'
  <1> DEFINE q == Tail(net[p])
  <1>1. /\ q \in Seq(Packet) /\ InOrder(q) /\ Kinds(q) = Kinds(net[p]) \ {id}
        /\ Results(q) = Results(net[p])
        /\ ph' = [ph EXCEPT ![p] = g] /\ ph[p].open
        /\ net' = Deliver([net EXCEPT ![p] = q], p, g, << m >>)
    BY HeadFacts, ZenonT(60)
  <1> HIDE DEF q
  <1>2. QED
    BY <1>1, SendingStep

\* A button or timer that sends nothing keeps the invariant if Match survives it.
LEMMA ActedSilently ==
  ASSUME TypeOK, MatchInv, NEW p \in Phone, NEW g, Acts(p, g, << >>), NEW U, NEW R,
         (U = Kinds(net[p]) /\ R = Results(net[p])) \/ (~g.open /\ U = {} /\ R = {}),
         Match(g, ph[Other(p)], U, Kinds(net[Other(p)]), R, Results(net[Other(p)]))
  PROVE  MatchInv'
  <1>1. ph' = [ph EXCEPT ![p] = g] /\ net' = Deliver([net EXCEPT ![p] = net[p]], p, g, << >>)
    BY DEF Acts, TypeOK
  <1>2. QED
    BY <1>1, MatchHere, SilentStep

\* A button or timer that sends a packet keeps the invariant if Match survives it.
LEMMA ActedSending ==
  ASSUME TypeOK, MatchInv, NEW p \in Phone, NEW g, NEW m \in Packet, Acts(p, g, << m >>), NEW U, NEW R,
         ph[p].open,
         (U = Kinds(net[p]) /\ R = Results(net[p])) \/ (~g.open /\ U = {} /\ R = {}),
         ph[Other(p)].open => Last(m.id, Kinds(net[Other(p)])),
         NEW Q, Q = Results(net[Other(p)]) \union
                      (IF ph[Other(p)].open /\ m.id = "SEND_SHOT_TIME" THEN {m.result} ELSE {}),
         Match(g, ph[Other(p)], U,
               IF ph[Other(p)].open THEN Kinds(net[Other(p)]) \union {m.id} ELSE Kinds(net[Other(p)]),
               R, Q)
  PROVE  MatchInv'
  <1>1. ph' = [ph EXCEPT ![p] = g] /\ net' = Deliver([net EXCEPT ![p] = net[p]], p, g, << m >>)
    BY DEF Acts, TypeOK
  <1>2. QED
    BY <1>1, MatchHere, SendingStep

\* With both phones on the duel screen no result is under way, and the two agree on the
\* score.
LEMMA EvenFacts ==
  ASSUME NEW g \in Local, Sound(g), g.view = "duel"
  PROVE  LET f == [NewFinal(g, "even") EXCEPT !.btnStartClick = FALSE] IN
         /\ f.open = g.open /\ f.server = g.server /\ f.mayStart = g.mayStart /\ f.tried = g.tried
         /\ f.endDuel = FALSE /\ f.btnStartClick = FALSE /\ f.view = "final" /\ ~f.waiting
         /\ f.hasFinal = TRUE
         /\ f.tally.win = g.tally.win /\ f.tally.lose = g.tally.lose
         /\ f.tally.number = f.tally.win + f.tally.lose
         /\ ~f.lastDuel /\ f.won = 0 /\ f.lost = 0 /\ Books(f)
  <1> DEFINE n == NewFinal(g, "even")
             f == [n EXCEPT !.btnStartClick = FALSE]
  <1>a. Books(g) /\ Verdict(g) /\ ~g.endDuel
    BY DEF Sound, Screens
  <1>1. Books(g) /\ g.won = 0 /\ g.lost = 0 /\ g.tally.win < 2 /\ g.tally.lose < 2
        /\ g.tally.number = g.tally.win + g.tally.lose /\ ~g.endDuel
    BY <1>a, NotYet DEF Verdict, Decided
  <1>2. "even" \in Result \ {"none"} /\ g.tally.win \in Nat /\ g.tally.lose \in Nat
    BY FieldTypes DEF Result
  <1>3. n \in Local
    BY <1>2, NewFinalType
  <1>4. /\ Kept(n, g) /\ n.view = "final" /\ ~n.waiting /\ n.hasFinal = TRUE
        /\ n.tally.win = Win(g, "even") /\ n.tally.lose = Lose(g, "even")
        /\ n.tally.number = n.tally.win + n.tally.lose
        /\ n.lastDuel <=> (Win(g, "even") = 2 \/ Lose(g, "even") = 2)
        /\ n.won = (IF Win(g, "even") = 2 THEN 1 ELSE 0) /\ n.lost = (IF Lose(g,
           "even") = 2 THEN 1 ELSE 0)
        /\ Books(n)
    BY <1>1, <1>2, NewFinalFacts
  <1>5. Win(g, "even") = g.tally.win /\ Lose(g, "even") = g.tally.lose
    BY <1>2 DEF Win, Lose
  <1> HIDE DEF n
  <1>6. /\ f.open = n.open /\ f.server = n.server /\ f.mayStart = n.mayStart /\ f.tried = n.tried
        /\ f.endDuel = n.endDuel /\ f.btnStartClick = FALSE /\ f.view = n.view
        /\ f.waiting = n.waiting
        /\ f.hasFinal = n.hasFinal /\ f.tally = n.tally /\ f.lastDuel = n.lastDuel
        /\ f.won = n.won /\ f.lost = n.lost /\ f.copies = n.copies /\ f.amount = n.amount
        /\ f.money = n.money /\ f.booked = n.booked
    BY <1>3 DEF Local
  <1> HIDE DEF f
  <1>7. Books(f)
    BY <1>4, <1>6 DEF Books
  <1>8. f.endDuel = FALSE
    BY <1>1, <1>3, <1>4, <1>6 DEF Kept, Local
  <1>9. QED
    BY <1>1, <1>4, <1>5, <1>6, <1>7, <1>8 DEF Kept, f, n

\* A round in which nobody hits: both phones go to the result screen at once.
LEMMA NobodyShotMatch ==
  ASSUME NEW g \in Local, NEW h \in Local, Match(g, h, {}, {}, {}, {}),
         g.view = "duel", h.view = "duel", g.open, h.open
  PROVE  Match([NewFinal(g, "even") EXCEPT !.btnStartClick = FALSE],
               [NewFinal(h, "even") EXCEPT !.btnStartClick = FALSE], {}, {}, {}, {})
  <1> DEFINE g2 == [NewFinal(g, "even") EXCEPT !.btnStartClick = FALSE]
             h2 == [NewFinal(h, "even") EXCEPT !.btnStartClick = FALSE]
  <1>1. Sound(g) /\ Sound(h) /\ Toward(g, h, {}, {}, {}) /\ Toward(h, g, {}, {}, {})
    BY DEF Match
  <1>2. /\ g2.open = g.open /\ g2.server = g.server /\ g2.mayStart = g.mayStart /\ g2.tried = g.tried
        /\ g2.endDuel = FALSE /\ g2.btnStartClick = FALSE /\ g2.view = "final" /\ ~g2.waiting
        /\ g2.hasFinal = TRUE
        /\ g2.tally.win = g.tally.win /\ g2.tally.lose = g.tally.lose
        /\ g2.tally.number = g2.tally.win + g2.tally.lose
        /\ ~g2.lastDuel /\ g2.won = 0 /\ g2.lost = 0 /\ Books(g2)
    BY <1>1, EvenFacts
  <1>3. /\ h2.open = h.open /\ h2.server = h.server /\ h2.mayStart = h.mayStart /\ h2.tried = h.tried
        /\ h2.endDuel = FALSE /\ h2.btnStartClick = FALSE /\ h2.view = "final" /\ ~h2.waiting
        /\ h2.hasFinal = TRUE
        /\ h2.tally.win = h.tally.win /\ h2.tally.lose = h.tally.lose
        /\ h2.tally.number = h2.tally.win + h2.tally.lose
        /\ ~h2.lastDuel /\ h2.won = 0 /\ h2.lost = 0 /\ Books(h2)
    BY <1>1, EvenFacts
  <1>4. /\ g.tally.win < 2 /\ g.tally.lose < 2 /\ ~g.tried /\ h.tally.win < 2 /\ h.tally.lose < 2
        /\ ~h.tried
        /\ g.tally.win = h.tally.lose /\ g.tally.lose = h.tally.win
        /\ g.tally.win \in Nat /\ g.tally.lose \in Nat /\ h.tally.win \in Nat /\ h.tally.lose \in Nat
    <2>1. g.tally.win < 2 /\ g.tally.lose < 2 /\ h.tally.win < 2 /\ h.tally.lose < 2
      BY <1>1, NotYet DEF Sound, Decided
    <2>2. ~g.tried /\ ~h.tried
      BY <1>1 DEF Sound, Screens
    <2>3. g.tally.win = h.tally.lose /\ g.tally.lose = h.tally.win
      BY <1>1 DEF Toward, Scored, Level
    <2>4. QED
      BY <2>1, <2>2, <2>3, FieldTypes
  <1> HIDE DEF g2, h2
  <1>5. Sound(g2) /\ Sound(h2)
    BY <1>2, <1>3, <1>4 DEF Sound, Verdict, Screens, Undecided
  <1>6. Arriving(g2, h2, {}, {}) /\ Arriving(h2, g2, {}, {})
    BY DEF Arriving
  <1>7. Together(g2, h2, {}, {}) /\ Together(h2, g2, {}, {})
    BY <1>2, <1>3, <1>4 DEF Together, Undecided, Decided
  <1>8. Scored(g2, h2, {}, {}, {}) /\ Scored(h2, g2, {}, {}, {})
    BY <1>2, <1>3, <1>4 DEF Scored
  <1>9. QED
    BY <1>5, <1>6, <1>7, <1>8 DEF Match, Toward, g2, h2

\* The buttons keep the invariant.
LEMMA ButtonsKeepMatch ==
  ASSUME TypeOK, MatchInv, NoCrossing', NEW p \in Phone, Player(p)
  PROVE  MatchInv'
  <1> DEFINE o == Other(p)
             g == ph[p]
             h == ph[o]
             U == Kinds(net[p])
             V == Kinds(net[o])
             R == Results(net[p])
             Q == Results(net[o])
  <1>0. /\ g \in Local /\ h \in Local /\ U \in SUBSET PacketID /\ V \in SUBSET PacketID
        /\ R \in SUBSET Result /\ Q \in SUBSET Result /\ Match(g, h, U, V, R, Q)
    BY MatchHere
  <1>o. g.view # "list" => ph[p].open
    BY <1>0 DEF Match, Sound, Screens
  <1>1. CASE StartButton(p)
    <2>1. /\ Acts(p, Waiting(StartClicked(g)), StartDuelSends(g))
          /\ g.view = "start" /\ g.mayStart /\ ~g.waiting
      BY <1>1 DEF StartButton
    <2>2. ~g.server
      BY <1>0, <2>1 DEF Match, Sound, Screens
    <2>3. Acts(p, Waiting(StartClicked(g)), << Plain("START_DUEL") >>)
      BY <2>1, <2>2 DEF StartDuelSends
    <2>4. Plain("START_DUEL") \in Packet /\ Plain("START_DUEL").id = "START_DUEL"
      BY PacketTypes, KindsOfOne DEF PacketID
    <2>5. /\ Match(Waiting(StartClicked(g)), h, U, (IF h.open THEN V \union {"START_DUEL"} ELSE V), R, Q)
          /\ h.open => Last("START_DUEL", V)
      BY <1>0, <2>1, StartButtonMatch
    <2>6. QED
      BY <2>3, <2>4, <2>5, <1>o, <2>1, ActedSending
  <1>2. CASE CancelButton(p)
    <2>1. Acts(p, Cancelled(g), << Plain("START_DUEL_FALSE") >>) /\ g.view = "start"
      BY <1>2 DEF CancelButton
    <2>2. g.open
      BY <1>0, <2>1 DEF Match, Sound, Screens
    <2>3. Plain("START_DUEL_FALSE") \in Packet /\ Plain("START_DUEL_FALSE").id = "START_DUEL_FALSE"
      BY PacketTypes, KindsOfOne DEF PacketID
    <2>4. /\ Match(Cancelled(g), h, {}, (IF h.open THEN V \union {"START_DUEL_FALSE"} ELSE V), {}, Q)
          /\ h.open => Last("START_DUEL_FALSE", V)
      BY <1>0, <2>2, CancelMatch
    <2>5. ~Cancelled(g).open
      BY <1>0, OpenKept
    <2>6. QED
      BY <2>1, <2>3, <2>4, <2>5, <1>o, ActedSending
  <1>3. CASE NextButton(p)
    <2>1. /\ Acts(p, NextDuelStart(g), NextDuelStartSends(g))
          /\ g.view = "final" /\ ~g.lastDuel /\ ~g.waiting /\ "RUN_AWAY" \notin U
      BY <1>3 DEF NextButton, NoCrossing, Without, UnderWay, Kinds
    <2>2. Plain("START_DUEL") \in Packet /\ Plain("START_DUEL").id = "START_DUEL"
      BY PacketTypes, KindsOfOne DEF PacketID
    <2>3. Plain("START_DUEL_TRUE") \in Packet /\ Plain("START_DUEL_TRUE").id = "START_DUEL_TRUE"
      BY PacketTypes, KindsOfOne DEF PacketID
    <2>4. CASE g.btnStartClick
      <3>1. Acts(p, NextDuelStart(g), << Plain("START_DUEL_TRUE") >>)
        BY <2>1, <2>4 DEF NextDuelStartSends
      <3>2. /\ Match(NextDuelStart(g), h, U, (IF h.open THEN V \union {"START_DUEL_TRUE"} ELSE V), R, Q)
            /\ h.open => Last("START_DUEL_TRUE", V)
        BY <1>0, <2>1, <2>4, NextSecondMatch
      <3>3. QED
        BY <3>1, <3>2, <2>3, <1>o, <2>1, ActedSending
    <2>5. CASE ~g.btnStartClick
      <3>1. Acts(p, NextDuelStart(g), << Plain("START_DUEL") >>)
        BY <2>1, <2>5 DEF NextDuelStartSends
      <3>2. /\ Match(NextDuelStart(g), h, U, (IF h.open THEN V \union {"START_DUEL"} ELSE V), R, Q)
            /\ h.open => Last("START_DUEL", V)
        BY <1>0, <2>1, <2>5, NextFirstMatch
      <3>3. QED
        BY <3>1, <3>2, <2>2, <1>o, <2>1, ActedSending
    <2>6. QED
      BY <2>4, <2>5
  <1>4. CASE RunAwayButton(p)
    <2> DEFINE f == [LastScene(LoseScene(g)) EXCEPT !.shot = FALSE, !.tally = NoRounds]
    <2>1. /\ Acts(p, f, << Plain("RUN_AWAY") >>)
          /\ g.view = "final" /\ ~g.lastDuel /\ ~g.waiting /\ "RUN_AWAY" \notin U
      BY <1>4 DEF RunAwayButton, NoCrossing, Without, UnderWay, Kinds
    <2>2. Plain("RUN_AWAY") \in Packet /\ Plain("RUN_AWAY").id = "RUN_AWAY"
      BY PacketTypes, KindsOfOne DEF PacketID
    <2>3. /\ Match(f, h, U, (IF h.open THEN V \union {"RUN_AWAY"} ELSE V), R, Q)
          /\ h.open => Last("RUN_AWAY", V)
      BY <1>0, <2>1, RunAwayMatch
    <2> HIDE DEF f
    <2>4. QED
      BY <2>1, <2>2, <2>3, <1>o, ActedSending
  <1>5. CASE BackButton(p)
    <2> DEFINE f == [Goes(g, "list") EXCEPT !.userEndMatch = TRUE, !.money = IF @ < 0 THEN 0 ELSE @]
    <2>1. /\ Acts(p, IF f.opponentEndMatch THEN LostConnection(f) ELSE f, << Plain("DUEL_CANSEL") >>)
          /\ g.view = "final" /\ g.lastDuel /\ ~g.waiting
      BY <1>5 DEF BackButton
    <2>2. Plain("DUEL_CANSEL") \in Packet /\ Plain("DUEL_CANSEL").id = "DUEL_CANSEL"
      BY PacketTypes, KindsOfOne DEF PacketID
    <2>3. /\ Match(f, h, U, (IF h.open THEN V \union {"DUEL_CANSEL"} ELSE V), R, Q)
          /\ h.open => Last("DUEL_CANSEL", V)
      BY <1>0, <2>1, BackMatch
    <2>4. Match(LostConnection(f), h, {}, (IF h.open THEN V \union {"DUEL_CANSEL"} ELSE V), {}, Q)
      BY <1>0, <2>1, BackLastMatch
    <2> HIDE DEF f
    <2>5. ~LostConnection(f).open
      BY DEF LostConnection, Goes
    <2>6. CASE f.opponentEndMatch
      BY <2>1, <2>2, <2>3, <2>4, <2>5, <2>6, <1>o, ActedSending
    <2>7. CASE ~f.opponentEndMatch
      BY <2>1, <2>2, <2>3, <2>7, <1>o, ActedSending
    <2>8. QED
      BY <2>6, <2>7
  <1>6. CASE TryButton(p)
    <2>1. PICK t \in RandomTimes : TryButton(p)!(t)
      BY <1>6 DEF TryButton
    <2> DEFINE f == [MatchStarted(g) EXCEPT !.randomTime = t, !.waiting = TRUE, !.won = 0,
                                            !.lost = 0, !.tried = TRUE]
    <2>2. /\ Acts(p, f, << Introduction("TIME_TRY", f) >>) /\ t \in Nat
          /\ g.view = "final" /\ g.lastDuel /\ ~g.waiting /\ "START_DUEL" \notin U
      BY <2>1, SessionAssumption DEF NoCrossing, Without, UnderWay, Kinds
    <2>3. ~g.tried
      BY <1>0, <2>2 DEF Match, Sound, Screens, Toward, Arriving, Together
    <2>4. f \in Local
      <3> DEFINE s == MatchStarted(g)
                 u == [s EXCEPT !.randomTime = t, !.waiting = TRUE]
      <3>1. s \in Local
        BY <1>0, MatchStartedType
      <3> HIDE DEF s
      <3>2. u \in Local
        BY <3>1, <2>2 DEF Local
      <3> HIDE DEF u
      <3>3. [u EXCEPT !.won = 0, !.lost = 0, !.tried = TRUE] \in Local
        BY <3>2 DEF Local
      <3>4. QED
        BY <3>3 DEF u, s
    <2>5. /\ Match(f, h, U, (IF h.open THEN V \union {"TIME_TRY"} ELSE V), R, Q)
          /\ h.open => Last("TIME_TRY", V)
      BY <1>0, <2>2, <2>3, TryMatch
    <2> HIDE DEF f
    <2>6. Introduction("TIME_TRY", f) \in Packet /\ Introduction("TIME_TRY", f).id = "TIME_TRY"
      BY <2>4, PacketTypes, KindsOfOne DEF PacketID
    <2>7. QED
      BY <2>2, <2>5, <2>6, <1>o, ActedSending
  <1>7. CASE DuelBackButton(p)
    <2>1. Acts(p, LostConnection(g), << >>) /\ g.view = "duel"
      BY <1>7 DEF DuelBackButton
    <2>2. Match(LostConnection(g), h, {}, V, {}, Q)
      BY <1>0, <1>o, <2>1, LeaveDuelMatch
    <2>3. ~LostConnection(g).open
      BY <1>0, OpenKept
    <2>4. QED
      BY <2>1, <2>2, <2>3, ActedSilently
  <1>8. QED
    BY <1>1, <1>2, <1>3, <1>4, <1>5, <1>6, <1>7 DEF Player

\* The timer of the start screen and a lost link keep the invariant.
LEMMA TimersKeepMatch ==
  ASSUME TypeOK, MatchInv, NEW p \in Phone, WaitTimer(p) \/ LinkLost(p)
  PROVE  MatchInv'
  <1> DEFINE o == Other(p)
             g == ph[p]
             h == ph[o]
             U == Kinds(net[p])
             V == Kinds(net[o])
             R == Results(net[p])
             Q == Results(net[o])
             c == Cancelled(g)
  <1>0. /\ g \in Local /\ h \in Local /\ U \in SUBSET PacketID /\ V \in SUBSET PacketID
        /\ R \in SUBSET Result /\ Q \in SUBSET Result /\ Match(g, h, U, V, R, Q)
    BY MatchHere
  <1>1. g.open
    BY DEF WaitTimer, LinkLost
  <1>2. CASE WaitTimer(p)
    <2>1. PICK f \in {[c EXCEPT !.timer = FALSE], [c EXCEPT !.stray = FALSE]} :
            Acts(p, f, << Plain("START_DUEL_FALSE") >>)
      BY <1>2 DEF WaitTimer
    <2>2. Plain("START_DUEL_FALSE") \in Packet /\ Plain("START_DUEL_FALSE").id = "START_DUEL_FALSE"
      BY PacketTypes, KindsOfOne DEF PacketID
    <2>3. /\ Match(c, h, {}, (IF h.open THEN V \union {"START_DUEL_FALSE"} ELSE V), {}, Q)
          /\ h.open => Last("START_DUEL_FALSE", V)
      BY <1>0, <1>1, CancelMatch
    <2>4. c \in Local /\ ~c.open
      BY <1>0, CancelledType, OpenKept
    <2> HIDE DEF c
    <2>5. Match(f, h, {}, (IF h.open THEN V \union {"START_DUEL_FALSE"} ELSE V), {}, Q) /\ ~f.open
      <3>1. /\ f.view = c.view /\ f.waiting = c.waiting /\ f.open = c.open
            /\ f.server = c.server /\ f.btnStartClick = c.btnStartClick
            /\ f.endDuel = c.endDuel /\ f.mayStart = c.mayStart /\ f.lastDuel = c.lastDuel
            /\ f.tried = c.tried /\ f.hasFinal = c.hasFinal /\ f.tally = c.tally
            /\ f.won = c.won /\ f.lost = c.lost /\ f.copies = c.copies
            /\ f.amount = c.amount /\ f.money = c.money /\ f.booked = c.booked
        BY <2>1, <2>4, SMTT(60) DEF Local
      <3>2. Match(f, h, {}, (IF h.open THEN V \union {"START_DUEL_FALSE"} ELSE V), {}, Q)
        <4> DEFINE W == IF h.open THEN V \union {"START_DUEL_FALSE"} ELSE V
        <4>1. Sound(c) /\ Sound(h) /\ Toward(c, h, {}, W, {}) /\ Toward(h, c, W, {}, Q)
          BY <2>3 DEF Match
        <4> HIDE DEF W
        <4>2. /\ Sound(f)
              /\ Undecided(f) <=> Undecided(c)
              /\ Decided(f) <=> Decided(c)
              /\ Level(f) <=> Level(c)
          BY <3>1, <4>1 DEF Sound, Books, Verdict, Screens, Undecided, Decided, Level
        <4>3. Toward(f, h, {}, W, {})
          <5>1. Arriving(f, h, {}, W)
            BY <3>1, <4>1, <4>2 DEF Toward, Arriving
          <5>2. Together(f, h, {}, W)
            BY <3>1, <4>1, <4>2 DEF Toward, Together
          <5>3. Scored(f, h, {}, W, {})
            BY <3>1, <4>1, <4>2 DEF Toward, Scored, Win, Lose
          <5> QED BY <3>1, <4>1, <5>1, <5>2, <5>3 DEF Toward
        <4>4. Toward(h, f, W, {}, Q)
          <5>1. Arriving(h, f, W, {})
            BY <3>1, <4>1, <4>2 DEF Toward, Arriving
          <5>2. Together(h, f, W, {})
            BY <3>1, <4>1, <4>2 DEF Toward, Together
          <5>3. Scored(h, f, W, {}, Q)
            BY <3>1, <4>1, <4>2 DEF Toward, Scored, Win, Lose
          <5> QED BY <4>1, <5>1, <5>2, <5>3 DEF Toward
        <4> QED BY <4>1, <4>2, <4>3, <4>4 DEF Match, W
      <3>3. QED
        BY <2>4, <3>1, <3>2
    <2>6. QED
      BY <1>1, <2>1, <2>2, <2>3, <2>5, ActedSending
  <1>3. CASE LinkLost(p)
    <2>1. Acts(p, LostConnection(g), << >>) /\ ~h.open /\ U = {}
      BY <1>3, KindsOfOne DEF LinkLost
    <2>2. Match(LostConnection(g), h, {}, V, {}, Q)
      BY <1>0, <1>1, <2>1, LinkLostMatch
    <2>3. ~LostConnection(g).open
      BY <1>0, OpenKept
    <2>4. QED
      BY <2>1, <2>2, <2>3, ActedSilently
  <1>4. QED
    BY <1>2, <1>3

\* The end of a round keeps the invariant.
LEMMA RoundKeepsMatch ==
  ASSUME TypeOK, MatchInv, NoCrossing', NEW p \in Phone, Round(p)
  PROVE  MatchInv'
  <1> DEFINE o == Other(p)
             g == ph[p]
             h == ph[o]
             U == Kinds(net[p])
             V == Kinds(net[o])
             R == Results(net[p])
             Q == Results(net[o])
  <1>0. /\ g \in Local /\ h \in Local /\ U \in SUBSET PacketID /\ V \in SUBSET PacketID
        /\ R \in SUBSET Result /\ Q \in SUBSET Result /\ Match(g, h, U, V, R, Q)
    BY MatchHere
  <1>1. CASE FirstToSettle(p)
    <2>1. PICK r \in Result \ {"none"} : Acts(p, Settled(g, r), << ShotTime(Opposite(r)) >>)
      BY <1>1 DEF FirstToSettle
    <2>2. g.view = "duel" /\ g.open /\ h.view = "duel" /\ h.open /\ U = {}
      BY <1>1, KindsOfOne DEF FirstToSettle, Playing
    <2>3. /\ ShotTime(Opposite(r)) \in Packet /\ ShotTime(Opposite(r)).id = "SEND_SHOT_TIME"
          /\ ShotTime(Opposite(r)).result = Opposite(r)
      <3>1. ShotTime(Opposite(r)).result = Opposite(r)
        BY DEF ShotTime, Plain
      <3>2. QED
        BY <3>1, PacketTypes, OppositeType, KindsOfOne
    <2>4. /\ Match(Settled(g, r), h, U, V \union {"SEND_SHOT_TIME"}, R, Q \union {Opposite(r)})
          /\ Last("SEND_SHOT_TIME", V)
      BY <1>0, <2>2, FirstToSettleMatch
    <2>5. QED
      BY <2>1, <2>2, <2>3, <2>4, ActedSending
  <1>2. CASE Hit(p)
    <2> DEFINE f == [g EXCEPT !.shot = TRUE, !.btnStartClick = FALSE]
    <2>1. ph' = [ph EXCEPT ![p] = f] /\ net' = net /\ g.view = "duel" /\ g.open /\ ~g.endDuel
      BY <1>2 DEF Hit, Playing, TypeOK
    <2>2. Match(f, h, U, V, R, Q)
      BY <1>0, <2>1, HitMatch
    <2> HIDE DEF f
    <2>3. ph'[p] = f /\ ph'[o] = h
      BY <2>1, PhoneFacts DEF TypeOK
    <2>4. QED
      BY <2>1, <2>2, <2>3, MatchHere, MatchThere
  <1>3. CASE NobodyShot
    <2>1. /\ g.view = "duel" /\ g.open /\ h.view = "duel" /\ h.open /\ U = {} /\ V = {} /\ net' = net
          /\ ph'[p] = [NewFinal(g, "even") EXCEPT !.btnStartClick = FALSE]
          /\ ph'[o] = [NewFinal(h, "even") EXCEPT !.btnStartClick = FALSE]
      BY <1>3, PhoneFacts, KindsOfOne DEF NobodyShot, Playing
    <2>2. R = {} /\ Q = {}
      BY <1>0, <2>1 DEF Match, Toward, Scored
    <2>3. Match(ph'[p], ph'[o], {}, {}, {}, {})
      BY <1>0, <2>1, <2>2, NobodyShotMatch
    <2>4. QED
      BY <2>1, <2>2, <2>3, MatchHere, MatchThere
  <1>4. CASE LimitAlone(p)
    BY <1>4 DEF LimitAlone, NoCrossing, Without
  <1>5. CASE ClockStarts(p)
    <2>1. ph' = ph /\ net' = net
      BY <1>5 DEF ClockStarts
    <2>2. QED
      BY <2>1 DEF MatchInv
  <1>6. QED
    BY <1>1, <1>2, <1>3, <1>4, <1>5 DEF Round

\* What a phone says of itself is a packet.
LEMMA IntroductionType ==
  ASSUME NEW id \in PacketID, NEW f, f.money \in Int, f.randomTime \in Nat
  PROVE  Introduction(id, f) \in Packet
  <1>1. Plain(id) \in Packet
    BY PacketTypes
  <1>2. QED
    BY <1>1 DEF Packet, Introduction

\* The handlers of the packets keep the invariant.
LEMMA ReceivesKeepMatch ==
  ASSUME TypeOK, MatchInv, NEW p \in Phone, Receive(p)
  PROVE  MatchInv'
  <1> DEFINE o == Other(p)
             g == ph[p]
             h == ph[o]
             U == Kinds(net[p])
             V == Kinds(net[o])
             R == Results(net[p])
             Q == Results(net[o])
             m == Head(net[p])
  <1>0. /\ g \in Local /\ h \in Local /\ U \in SUBSET PacketID /\ V \in SUBSET PacketID
        /\ R \in SUBSET Result /\ Q \in SUBSET Result /\ Match(g, h, U, V, R, Q)
    BY MatchHere
  <1>h. \A id, f, ms : Handles(p, id, f, ms) =>
          /\ g.open /\ First(id, U) /\ m.money \in Int /\ m.randomTime \in Nat
          /\ id = "SEND_SHOT_TIME" => m.result \in R
    <2> SUFFICES ASSUME NEW id, NEW f, NEW ms, Handles(p, id, f, ms)
                 PROVE  /\ g.open /\ First(id, U) /\ m.money \in Int /\ m.randomTime \in Nat
                        /\ id = "SEND_SHOT_TIME" => m.result \in R
      OBVIOUS
    <2>1. net[p] # << >> /\ g.open /\ First(id, U) /\ (id = "SEND_SHOT_TIME" => m.result \in R)
      BY HeadFacts
    <2>2. QED
      BY <2>1, HeadType
  <1>1. CASE ReceiveTime(p)
    <2> DEFINE f == Met(g, m.money, m.randomTime)
    <2>1. Handles(p, "TIME", f, << Introduction("OPONTYPE_RESPONSE", f) >>)
      BY <1>1 DEF ReceiveTime, Met
    <2>2. /\ Match(f, h, U \ {"TIME"}, (IF h.open THEN V \union {"OPONTYPE_RESPONSE"} ELSE V), R, Q)
          /\ h.open => Last("OPONTYPE_RESPONSE", V)
      BY <1>0, <1>h, <2>1, ReceiveTimeMatch
    <2>3. f.money \in Int /\ f.randomTime \in Nat
      <3> HIDE DEF m
      <3>1. f.money = g.money /\ f.randomTime = m.randomTime
        BY <1>0, <1>h, <2>1, MetFields
      <3>2. QED
        BY <3>1, <1>0, <1>h, <2>1, FieldTypes
    <2> HIDE DEF f
    <2>4. Introduction("OPONTYPE_RESPONSE", f) \in Packet
          /\ Introduction("OPONTYPE_RESPONSE", f).id = "OPONTYPE_RESPONSE"
      BY <2>3, IntroductionType, KindsOfOne DEF PacketID
    <2>5. QED
      BY <2>1, <2>2, <2>4, HandledSending
  <1>2. CASE ReceiveResponse(p)
    <2> DEFINE s == [g EXCEPT !.endDuel = FALSE, !.server = TRUE, !.opMoney = m.money]
               f == Waiting(StartClicked(s))
    <2>1. Handles(p, "OPONTYPE_RESPONSE", f, StartDuelSends(s))
      BY <1>2 DEF ReceiveResponse
    <2>2. ~g.btnStartClick
      BY <1>0, <1>h, <2>1 DEF Match, Toward, Arriving, First
    <2>3. StartDuelSends(s) = << >>
      BY <1>0, <2>2 DEF StartDuelSends, Local
    <2>4. Match(f, h, U \ {"OPONTYPE_RESPONSE"}, V, R, Q)
      BY <1>0, <1>h, <2>1, ReceiveResponseMatch
    <2> HIDE DEF f, s
    <2>5. QED
      BY <2>1, <2>3, <2>4, HandledSilently
  <1>3. CASE ReceiveStartDuel(p)
    <2> DEFINE s == [g EXCEPT !.shot = FALSE]
               f == Goes(s, "duel")
               b == [s EXCEPT !.btnStartClick = TRUE]
    <2>0. s.btnStartClick = g.btnStartClick
      BY <1>0 DEF Local
    <2>1. CASE g.btnStartClick
      <3>1. Handles(p, "START_DUEL", f, << Plain("START_DUEL_TRUE") >>)
        BY <1>3, <2>0, <2>1 DEF ReceiveStartDuel
      <3>2. Plain("START_DUEL_TRUE") \in Packet /\ Plain("START_DUEL_TRUE").id = "START_DUEL_TRUE"
        BY PacketTypes, KindsOfOne DEF PacketID
      <3>3. /\ Match(f, h, U \ {"START_DUEL"}, (IF h.open THEN V \union {"START_DUEL_TRUE"} ELSE V), R, Q)
            /\ h.open => Last("START_DUEL_TRUE", V)
        BY <1>0, <1>h, <2>1, <3>1, ReceiveStartDuelReadyMatch
      <3> HIDE DEF f
      <3>4. QED
        BY <3>1, <3>2, <3>3, HandledSending
    <2>2. CASE ~g.btnStartClick
      <3>1. Handles(p, "START_DUEL", b, << >>)
        BY <1>3, <2>0, <2>2 DEF ReceiveStartDuel
      <3>2. Match(b, h, U \ {"START_DUEL"}, V, R, Q)
        BY <1>0, <1>h, <2>2, <3>1, ReceiveStartDuelMatch
      <3> HIDE DEF b
      <3>3. QED
        BY <3>1, <3>2, HandledSilently
    <2>3. QED
      BY <2>1, <2>2
  <1>4. CASE ReceiveStartDuelTrue(p)
    <2>1. CASE g.view = "duel"
      <3>1. Handles(p, "START_DUEL_TRUE", g, << >>)
        BY <1>4, <2>1 DEF ReceiveStartDuelTrue
      <3>2. Match(g, h, U \ {"START_DUEL_TRUE"}, V, R, Q)
        BY <1>0, <1>h, <2>1, <3>1, ReceiveStartDuelTrueAgainMatch
      <3>3. QED
        BY <3>1, <3>2, HandledSilently
    <2>2. CASE g.view # "duel"
      <3>1. Handles(p, "START_DUEL_TRUE", Goes(g, "duel"), << >>)
        BY <1>4, <2>2 DEF ReceiveStartDuelTrue
      <3>2. Match(Goes(g, "duel"), h, U \ {"START_DUEL_TRUE"}, V, R, Q)
        BY <1>0, <1>h, <2>2, <3>1, ReceiveStartDuelTrueMatch
      <3>3. QED
        BY <3>1, <3>2, HandledSilently
    <2>3. QED
      BY <2>1, <2>2
  <1>5. CASE ReceiveStartDuelFalse(p)
    <2>1. Handles(p, "START_DUEL_FALSE", LostConnection(g), << >>)
      BY <1>5 DEF ReceiveStartDuelFalse
    <2>2. Match(LostConnection(g), h, {}, V, {}, Q)
      BY <1>0, <1>h, <2>1, ReceiveStartDuelFalseMatch
    <2>3. ~LostConnection(g).open
      BY <1>0, OpenKept
    <2>4. QED
      BY <2>1, <2>2, <2>3, HandledSilently
  <1>6. CASE ReceiveShotTime(p)
    <2>1. Handles(p, "SEND_SHOT_TIME", IF g.endDuel THEN g ELSE Settled(g, m.result), << >>)
      BY <1>6 DEF ReceiveShotTime
    <2>2. First("SEND_SHOT_TIME", U) /\ g.open /\ m.result \in R
      BY <1>h, <2>1
    <2>3. ~g.endDuel
      BY <1>0, <2>2 DEF Match, Toward, Arriving, First, Sound, Screens
    <2>4. Match(Settled(g, m.result), h, U \ {"SEND_SHOT_TIME"}, V, {}, Q)
      BY <1>0, <2>2, ReceiveShotTimeMatch
    <2>5. Handles(p, "SEND_SHOT_TIME", Settled(g, m.result), << >>)
      BY <2>1, <2>3
    <2>6. QED
      BY <2>4, <2>5, HandledSilently
  <1>7. CASE ReceiveRunAway(p)
    <2>1. Handles(p, "RUN_AWAY", IF g.hasFinal THEN LastScene(WinScene(g)) ELSE g, << >>)
      BY <1>7 DEF ReceiveRunAway
    <2>2. First("RUN_AWAY", U) /\ g.open
      BY <1>h, <2>1
    <2>3. g.hasFinal
      <3>1. Arriving(g, h, U, V) /\ Screens(g)
        BY <1>0 DEF Match, Toward, Sound
      <3>2. "RUN_AWAY" \in U /\ "SEND_SHOT_TIME" \notin U
        BY <2>2 DEF First, Ahead
      <3>3. Undecided(g)
        BY <3>1, <3>2 DEF Arriving
      <3> QED BY <3>1, <3>3 DEF Screens, Undecided
    <2>4. Match(LastScene(WinScene(g)), h, U \ {"RUN_AWAY"}, V, R, Q)
      BY <1>0, <2>2, ReceiveRunAwayMatch
    <2>5. Handles(p, "RUN_AWAY", LastScene(WinScene(g)), << >>)
      BY <2>1, <2>3
    <2>6. QED
      BY <2>4, <2>5, HandledSilently
  <1>8. CASE ReceiveTimeTry(p)
    <2> DEFINE f == Asked(g, m.money, m.randomTime)
    <2>1. Handles(p, "TIME_TRY", f, << Introduction("OPONTYPE_RESPONSE_TRY", f) >>)
      BY <1>8 DEF ReceiveTimeTry, Asked
    <2>2. /\ Match(f, h, U \ {"TIME_TRY"},
             (IF h.open THEN V \union {"OPONTYPE_RESPONSE_TRY"} ELSE V), R, Q)
          /\ h.open => Last("OPONTYPE_RESPONSE_TRY", V)
      <3>1. First("TIME_TRY", U) /\ g.open /\ m.money \in Int /\ m.randomTime \in Nat
        BY <1>h, <2>1
      <3> HIDE DEF g, h, U, V, R, Q, m
      <3>2. QED
        BY <1>0, <3>1, ReceiveTimeTryMatch
    <2>3. f \in Local
      <3>1. Timed(g) /\ m.money \in Int /\ m.randomTime \in Nat
        BY <1>h, <2>1, PhoneType
      <3> HIDE DEF g, h, U, V, R, Q, m
      <3>2. QED
        BY <1>0, <3>1, AskedType
    <2> HIDE DEF f
    <2>4. Introduction("OPONTYPE_RESPONSE_TRY", f) \in Packet
          /\ Introduction("OPONTYPE_RESPONSE_TRY", f).id = "OPONTYPE_RESPONSE_TRY"
      BY <2>3, PacketTypes, KindsOfOne DEF PacketID
    <2>5. QED
      BY <2>1, <2>2, <2>4, HandledSending
  <1>9. CASE ReceiveResponseTry(p)
    <2> DEFINE s == Ready(g, m.money)
    <2>1. PICK covered \in {TRUE, g.view = "start"} :
            Handles(p, "OPONTYPE_RESPONSE_TRY", Agreed(g, m.money, covered), StartDuelSends(s))
      BY <1>9 DEF ReceiveResponseTry, Agreed, Ready
    <2> DEFINE f == Agreed(g, m.money, covered)
    <2>2. First("OPONTYPE_RESPONSE_TRY", U) /\ g.open /\ m.money \in Int
      BY <1>h, <2>1
    <2>3. ~g.btnStartClick
      BY <1>0, <2>2 DEF Match, Toward, Arriving, First, Sound, Screens
    <2>4. StartDuelSends(s) = << >>
      <3>1. s.server = TRUE /\ s.btnStartClick = g.btnStartClick
        BY <1>0, <2>2, ReadyFields
      <3> HIDE DEF s
      <3>2. QED
        BY <2>3, <3>1 DEF StartDuelSends
    <2>5. Match(f, h, U \ {"OPONTYPE_RESPONSE_TRY"}, V, R, Q)
      <3> HIDE DEF g, h, U, V, R, Q, m
      <3>1. QED
        BY <1>0, <2>2, ReceiveResponseTryMatch
    <2>6. Handles(p, "OPONTYPE_RESPONSE_TRY", f, << >>)
      BY <2>1, <2>4
    <2> HIDE DEF f, s
    <2>7. QED
      BY <2>5, <2>6, HandledSilently
  <1>10. CASE ReceiveDuelCansel(p)
    <2>1. CASE g.userEndMatch
      <3>1. Handles(p, "DUEL_CANSEL", LostConnection(g), << >>)
        BY <1>10, <2>1 DEF ReceiveDuelCansel
      <3>2. Match(LostConnection(g), h, {}, V, {}, Q)
        BY <1>0, <1>h, <3>1, ReceiveDuelCanselLastMatch
      <3>3. ~LostConnection(g).open
        BY <1>0, OpenKept
      <3>4. QED
        BY <3>1, <3>2, <3>3, HandledSilently
    <2>2. CASE ~g.userEndMatch
      <3> DEFINE f == [g EXCEPT !.opponentEndMatch = TRUE]
      <3>1. Handles(p, "DUEL_CANSEL", f, << >>)
        BY <1>10, <2>2 DEF ReceiveDuelCansel
      <3>2. Match(f, h, U \ {"DUEL_CANSEL"}, V, R, Q)
        BY <1>0, <1>h, <3>1, ReceiveDuelCanselMatch
      <3> HIDE DEF f
      <3>3. QED
        BY <3>1, <3>2, HandledSilently
    <2>3. QED
      BY <2>1, <2>2
  <1>11. QED
    BY <1>1, <1>2, <1>3, <1>4, <1>5, <1>6, <1>7, <1>8, <1>9, <1>10 DEF Receive

\* The invariant holds when a match begins.
LEMMA InitMatch ==
  ASSUME Init
  PROVE  MatchInv
  <1>1. PICK t \in RandomTimes : Init!(t)
    BY DEF Init
  <1> DEFINE guest == [Idle EXCEPT !.view = "start", !.randomTime = t]
  <1>2. /\ ph = [p \in Phone |-> IF p = 0 THEN Idle ELSE guest]
        /\ net = [p \in Phone |-> IF p = 0 THEN << Introduction("TIME", guest) >> ELSE << >>]
    BY <1>1
  <1>3. /\ guest.view = "start" /\ guest.waiting = FALSE /\ guest.open = TRUE
        /\ guest.server = FALSE /\ guest.btnStartClick = FALSE
        /\ guest.endDuel = FALSE /\ guest.mayStart = FALSE /\ guest.lastDuel = FALSE
        /\ guest.tried = FALSE /\ guest.hasFinal = FALSE /\ guest.tally = NoRounds
        /\ guest.won = 0 /\ guest.lost = 0 /\ guest.copies = 0
        /\ guest.amount = 10 /\ guest.money = Money /\ guest.booked = 0
    BY DEF Idle
  <1>4. /\ Idle.view = "list" /\ Idle.waiting = FALSE /\ Idle.open = TRUE
        /\ Idle.server = FALSE /\ Idle.btnStartClick = FALSE
        /\ Idle.endDuel = FALSE /\ Idle.mayStart = FALSE /\ Idle.lastDuel = FALSE
        /\ Idle.tried = FALSE /\ Idle.hasFinal = FALSE /\ Idle.tally = NoRounds
        /\ Idle.won = 0 /\ Idle.lost = 0 /\ Idle.copies = 0
        /\ Idle.amount = 10 /\ Idle.money = Money /\ Idle.booked = 0
    BY DEF Idle
  <1>5. NoRounds.win = 0 /\ NoRounds.lose = 0 /\ NoRounds.number = 0
    BY DEF NoRounds
  <1>6. ph[0] = Idle /\ ph[1] = guest /\ net[0] = << Introduction("TIME", guest) >> /\ net[1] = << >>
    BY <1>2, PhoneFacts
  <1>7. /\ Kinds(net[0]) = {"TIME"} /\ Kinds(net[1]) = {} /\ Results(net[1]) = {} /\ InOrder(net[1])
        /\ Results(net[0]) = {} /\ InOrder(net[0])
    <2>1. Introduction("TIME", guest).id = "TIME"
      BY KindsOfOne
    <2>2. DOMAIN net[0] = {1} /\ net[0][1].id = "TIME"
      BY <1>6, <2>1
    <2>3. Results(net[0]) = {} /\ InOrder(net[0])
      BY <2>2 DEF Results, InOrder
    <2>4. QED
      BY <1>6, <2>1, <2>3, KindsOfOne, KindsEmpty
  <1> HIDE DEF guest
  <1>8. Sound(Idle) /\ Sound(guest)
    <2>1. Books(Idle) /\ Books(guest)
      BY <1>3, <1>4, SessionAssumption DEF Books
    <2>2. Verdict(Idle) /\ Verdict(guest)
      BY <1>3, <1>4, <1>5 DEF Verdict
    <2>3. Screens(Idle) /\ Screens(guest)
      BY <1>3, <1>4 DEF Screens, Undecided
    <2>4. QED
      BY <2>1, <2>2, <2>3 DEF Sound
  <1>9. Toward(Idle, guest, {"TIME"}, {}, {}) /\ Toward(guest, Idle, {}, {"TIME"}, {})
    BY <1>3, <1>4 DEF Toward, Arriving, Together, Scored, Undecided, Decided, Level
  <1>10. ASSUME NEW p \in Phone PROVE MatchInv!(p)
    <2>1. CASE p = 0
      BY <2>1, <1>6, <1>7, <1>8, <1>9, PhoneFacts
    <2>2. CASE p = 1
      BY <2>2, <1>6, <1>7, <1>8, <1>9, PhoneFacts
    <2>3. QED
      BY <2>1, <2>2, PhoneFacts
  <1>11. QED
    BY <1>10 DEF MatchInv

\* The crossings are never forgotten.
LEMMA CrossingsStay ==
  ASSUME [Next]_vars, NoCrossing'
  PROVE  NoCrossing
  <1>1. mishaps \subseteq mishaps'
    BY ZenonT(60) DEF Next, vars, Player, Round, Receive, StartButton, CancelButton, NextButton, RunAwayButton,
       BackButton,
           TryButton, DuelBackButton, ClockStarts, FirstToSettle, Hit, NobodyShot, LimitAlone, ReceiveTime, ReceiveResponse,
           ReceiveStartDuel, ReceiveStartDuelTrue, ReceiveStartDuelFalse, ReceiveShotTime, ReceiveRunAway,
           ReceiveTimeTry, ReceiveResponseTry, ReceiveDuelCansel, WaitTimer, LinkLost
  <1>2. QED
    BY <1>1, SMTT(60) DEF NoCrossing, Without

\* Every step of the two phones keeps the invariant.
LEMMA MatchKept ==
  ASSUME TypeOK, MatchHolds, [Next]_vars
  PROVE  MatchHolds'
  <1> SUFFICES ASSUME NoCrossing' PROVE MatchInv'
    BY DEF MatchHolds
  <1>1. MatchInv
    BY CrossingsStay DEF MatchHolds
  <1>2. CASE Next
    <2>1. PICK p \in Phone : Player(p) \/ Round(p) \/ Receive(p) \/ WaitTimer(p) \/ LinkLost(p)
      BY <1>2 DEF Next
    <2>2. QED
      BY <1>1, <2>1, ButtonsKeepMatch, RoundKeepsMatch, ReceivesKeepMatch, TimersKeepMatch
  <1>3. CASE UNCHANGED vars
    BY <1>1, <1>3 DEF vars, MatchInv
  <1>4. QED
    BY <1>2, <1>3

\* The invariant says that the duel is settled once.
LEMMA MatchSettles ==
  ASSUME TypeOK, MatchHolds
  PROVE  SettledOnce
  <1>1. ASSUME NoCrossing PROVE MatchInv
    BY <1>1 DEF MatchHolds
  <1>2. ASSUME NoCrossing, NEW p \in Phone
        PROVE  /\ ph[p].won + ph[p].lost <= 1 /\ ph[p].tally \in BestOfThree
               /\ ph[p].booked + ph[p].copies * ph[p].amount = ph[p].money - Money
    <2>1. ph[p] \in Local /\ Books(ph[p]) /\ Verdict(ph[p])
      BY <1>1, <1>2 DEF MatchInv, Sound, TypeOK
    <2>2. /\ ph[p].won \in Nat /\ ph[p].lost \in Nat
          /\ ph[p].tally \in [number : Nat, win : Nat, lose : Nat]
      BY <2>1, FieldTypes
    <2>3. ph[p].won + ph[p].lost <= 1
      BY <2>1 DEF Verdict
    <2>4. /\ ph[p].tally.win \in 0 .. 2 /\ ph[p].tally.lose \in 0 .. 2
          /\ ph[p].tally.number \in 0 .. 3
      <3>1. /\ ph[p].tally.win <= 2 /\ ph[p].tally.lose <= 2
            /\ ph[p].tally.number = ph[p].tally.win + ph[p].tally.lose
            /\ (ph[p].tally.win = 2 => ph[p].won = 1) /\ (ph[p].tally.lose = 2 => ph[p].lost = 1)
        BY <2>1 DEF Verdict
      <3>2. ~(ph[p].tally.win = 2 /\ ph[p].tally.lose = 2)
        BY <2>3, <3>1
      <3>3. QED
        BY <2>2, <3>1, <3>2
    <2>5. QED
      BY <2>1, <2>2, <2>3, <2>4 DEF BestOfThree, Books
  <1>3. ASSUME NoCrossing
        PROVE  ~(ph[0].won > 0 /\ ph[1].won > 0) /\ ~(ph[0].lost > 0 /\ ph[1].lost > 0)
    <2>1. Together(ph[0], ph[1], Kinds(net[0]), Kinds(net[1]))
      BY <1>1, <1>3, PhoneFacts DEF MatchInv, Toward
    <2>2. QED
      BY <2>1 DEF Together
  <1>4. QED
    BY <1>2, <1>3 DEF SettledOnce, DuelSettledOnce, Booked, NoCrossing

\* At every moment of a match in which none of the three crossings of NoCrossing has
\* happened, the books, the verdict and the screens of the two phones fit each other
\* and the packets between them (sendData, receiveData and the buttons of
\* GameCenterViewController and FinalViewController).
THEOREM MatchInvariant == Spec => []MatchHolds
  <1>1. Init => MatchHolds
    BY InitMatch DEF MatchHolds
  <1>2. TypeOK /\ MatchHolds /\ [Next]_vars => MatchHolds'
    BY MatchKept
  <1>3. QED
    BY <1>1, <1>2, SessionTypeCorrect, PTL DEF Spec

\* A duel is settled at most once on each phone and with opposite verdicts on the two,
\* and what is booked for it is what it moved (FinalViewController's win, lose and last
\* scenes), for any money, number of tries and set of start delays.
THEOREM SettledOnceHolds == Spec => []SettledOnce
  <1>1. TypeOK /\ MatchHolds => SettledOnce
    BY MatchSettles
  <1>2. QED
    BY <1>1, SessionTypeCorrect, MatchInvariant, PTL

-----------------------------------------------------------------------------
(***************************************************************************)
(* What a packet more or less changes in what the packets under way to a   *)
(* phone say.                                                              *)
(***************************************************************************)

\* A packet more at the end of a queue.
LEMMA MoreParts ==
  ASSUME NEW q \in Seq(Packet), NEW m \in Packet
  PROVE  LET w == Append(q, m) IN
         /\ w \in Seq(Packet)
         /\ Kinds(w) = Kinds(q) \union {m.id}
         /\ Results(w) = Results(q) \union (IF m.id = "SEND_SHOT_TIME" THEN {m.result} ELSE {})
         /\ Monies(w) = Monies(q) \union (IF m.id \in Introducing THEN {m.money} ELSE {})
         /\ Times(w) = Times(q) \union (IF m.id \in Asking THEN {m.randomTime} ELSE {})
  <1> DEFINE w == Append(q, m)
             n == Len(q) + 1
  <1>1. /\ w \in Seq(Packet) /\ Len(q) \in Nat /\ DOMAIN q = 1 .. Len(q) /\ DOMAIN w = 1 .. Len(q) + 1
        /\ (\A i \in DOMAIN q : w[i] = q[i]) /\ w[Len(q) + 1] = m
    OBVIOUS
  <1>2. /\ w[n] = m /\ n \in DOMAIN w /\ \A i \in DOMAIN w : i \in DOMAIN q \/ i = n
        /\ \A i \in DOMAIN q : i \in DOMAIN w /\ w[i] = q[i]
    BY <1>1
  <1> HIDE DEF w, n
  <1>3. Kinds(w) = Kinds(q) \union {m.id}
    <2>1. \A k \in Kinds(w) : k \in Kinds(q) \union {m.id}
      BY <1>2 DEF Kinds
    <2>2. \A k \in Kinds(q) \union {m.id} : k \in Kinds(w)
      BY <1>2 DEF Kinds
    <2>3. QED
      BY <2>1, <2>2
  <1>4. Results(w) = Results(q) \union (IF m.id = "SEND_SHOT_TIME" THEN {m.result} ELSE {})
    <2>1. \A r \in Results(w) : r \in Results(q) \/ (m.id = "SEND_SHOT_TIME" /\ r = m.result)
      BY <1>2 DEF Results
    <2>2. \A r \in Results(q) : r \in Results(w)
      BY <1>2 DEF Results
    <2>3. m.id = "SEND_SHOT_TIME" => m.result \in Results(w)
      BY <1>2 DEF Results
    <2>4. QED
      BY <2>1, <2>2, <2>3
  <1>5. Monies(w) = Monies(q) \union (IF m.id \in Introducing THEN {m.money} ELSE {})
    <2>1. \A r \in Monies(w) : r \in Monies(q) \/ (m.id \in Introducing /\ r = m.money)
      BY <1>2 DEF Monies
    <2>2. \A r \in Monies(q) : r \in Monies(w)
      BY <1>2 DEF Monies
    <2>3. m.id \in Introducing => m.money \in Monies(w)
      BY <1>2 DEF Monies
    <2>4. QED
      BY <2>1, <2>2, <2>3
  <1>6. Times(w) = Times(q) \union (IF m.id \in Asking THEN {m.randomTime} ELSE {})
    <2>1. \A r \in Times(w) : r \in Times(q) \/ (m.id \in Asking /\ r = m.randomTime)
      BY <1>2 DEF Times
    <2>2. \A r \in Times(q) : r \in Times(w)
      BY <1>2 DEF Times
    <2>3. m.id \in Asking => m.randomTime \in Times(w)
      BY <1>2 DEF Times
    <2>4. QED
      BY <2>1, <2>2, <2>3
  <1>7. QED
    BY <1>1, <1>3, <1>4, <1>5, <1>6 DEF w

\* The packets behind the first one, and the first.
LEMMA LessParts ==
  ASSUME NEW q \in Seq(Packet), q # << >>
  PROVE  /\ Monies(Tail(q)) \subseteq Monies(q) /\ Times(Tail(q)) \subseteq Times(q)
         /\ Head(q).id \in Introducing => Head(q).money \in Monies(q)
         /\ Head(q).id \in Asking => Head(q).randomTime \in Times(q)
  <1> DEFINE t == Tail(q)
             x == Head(q)
  <1>1. /\ t \in Seq(Packet) /\ x = q[1] /\ Len(q) \in Nat /\ Len(q) >= 1
        /\ DOMAIN q = 1 .. Len(q) /\ DOMAIN t = 1 .. Len(q) - 1
        /\ \A i \in DOMAIN t : t[i] = q[i + 1]
    OBVIOUS
  <1>2. \A i \in DOMAIN t : i + 1 \in DOMAIN q /\ t[i] = q[i + 1]
    BY <1>1
  <1>3. 1 \in DOMAIN q /\ x = q[1]
    BY <1>1
  <1> HIDE DEF t, x
  <1>4. Monies(t) \subseteq Monies(q) /\ Times(t) \subseteq Times(q)
    BY <1>2 DEF Monies, Times
  <1>5. /\ x.id \in Introducing => x.money \in Monies(q)
        /\ x.id \in Asking => x.randomTime \in Times(q)
    BY <1>3 DEF Monies, Times
  <1>6. QED
    BY <1>4, <1>5 DEF t, x

\* Nothing is said where nothing is under way.
LEMMA NoParts ==
  /\ Kinds(<< >>) = {} /\ Results(<< >>) = {} /\ Monies(<< >>) = {} /\ Times(<< >>) = {}
  /\ \A q : "TIME" \notin Kinds(q) /\ "TIME_TRY" \notin Kinds(q) => Times(q) = {}
  /\ \A q : Introducing \intersect Kinds(q) = {} => Monies(q) = {}
  BY DEF Kinds, Results, Monies, Times, Introducing, Asking

\* The two queues after a step of phone p that sends one packet, or none.
LEMMA StepQueues ==
  ASSUME TypeOK, NEW p \in Phone, NEW g, NEW q \in Seq(Packet), NEW ms \in Seq(Packet),
         ph' = [ph EXCEPT ![p] = g],
         net' = Deliver([net EXCEPT ![p] = q], p, g, ms)
  PROVE  LET o == Other(p) IN
         /\ ph'[p] = g /\ ph'[o] = ph[o]
         /\ net'[p] = (IF g.open THEN q ELSE << >>)
         /\ net'[o] = (IF ph[p].open /\ ph[o].open THEN net[o] \o ms ELSE net[o])
  <1> DEFINE o == Other(p)
             queues == [net EXCEPT ![p] = q]
  <1>1. o \in Phone /\ o # p
    BY PhoneFacts
  <1>2. ph'[p] = g /\ ph'[o] = ph[o]
    BY <1>1 DEF TypeOK
  <1>3. queues \in Queues /\ queues[p] = q /\ queues[o] = net[o]
        /\ net' = Deliver(queues, p, g, ms)
    BY <1>1 DEF TypeOK, Queues
  <1> HIDE DEF queues
  <1>4. /\ Deliver(queues, p, g, ms)[p] = (IF g.open THEN queues[p] ELSE << >>)
        /\ Deliver(queues, p, g, ms)[o] = (IF ph[p].open /\ ph[o].open THEN queues[o] \o ms ELSE queues[o])
    BY <1>3, DeliverFacts
  <1>5. QED
    BY <1>2, <1>3, <1>4

\* What is under way then.
After(p, g, q, ms) ==
  LET o == Other(p) IN
  /\ ph'[p] = g /\ ph'[o] = ph[o]
  /\ Kinds(net'[p]) = (IF g.open THEN Kinds(q) ELSE {})
  /\ Results(net'[p]) = (IF g.open THEN Results(q) ELSE {})
  /\ Monies(net'[p]) = (IF g.open THEN Monies(q) ELSE {})
  /\ Times(net'[p]) = (IF g.open THEN Times(q) ELSE {})
  /\ Kinds(net'[o]) = Kinds(net[o]) \union (IF ph[o].open THEN Kinds(ms) ELSE {})
  /\ Results(net'[o]) = Results(net[o]) \union (IF ph[o].open THEN Results(ms) ELSE {})
  /\ Monies(net'[o]) = Monies(net[o]) \union (IF ph[o].open THEN Monies(ms) ELSE {})
  /\ Times(net'[o]) = Times(net[o]) \union (IF ph[o].open THEN Times(ms) ELSE {})

\* What a step of one phone leaves under way to both.
LEMMA StepParts ==
  ASSUME TypeOK, NEW p \in Phone, NEW g, NEW q \in Seq(Packet), NEW ms,
         ms = << >> \/ \E m \in Packet : ms = << m >>, ph[p].open \/ ms = << >>,
         ph' = [ph EXCEPT ![p] = g],
         net' = Deliver([net EXCEPT ![p] = q], p, g, ms)
  PROVE  After(p, g, q, ms)
  <1> DEFINE o == Other(p)
  <1>1. ms \in Seq(Packet) /\ net[o] \in Seq(Packet)
    <2>1. net[o] \in Seq(Packet)
      BY PhoneType
    <2>2. << >> \in Seq(Packet) /\ \A m \in Packet : << m >> \in Seq(Packet)
      OBVIOUS
    <2>3. QED
      BY <2>1, <2>2
  <1>2. /\ ph'[p] = g /\ ph'[o] = ph[o]
        /\ net'[p] = (IF g.open THEN q ELSE << >>)
        /\ net'[o] = (IF ph[o].open THEN net[o] \o ms ELSE net[o])
    <2>1. /\ ph'[p] = g /\ ph'[o] = ph[o]
          /\ net'[p] = (IF g.open THEN q ELSE << >>)
          /\ net'[o] = (IF ph[p].open /\ ph[o].open THEN net[o] \o ms ELSE net[o])
      BY <1>1, StepQueues
    <2>2. ms = << >> => net[o] \o ms = net[o]
      BY <1>1, ConcatEmptySeq
    <2>3. QED
      BY <2>1, <2>2
  <1> HIDE DEF o
  <1>3. /\ Kinds(net[o] \o ms) = Kinds(net[o]) \union Kinds(ms)
        /\ Results(net[o] \o ms) = Results(net[o]) \union Results(ms)
        /\ Monies(net[o] \o ms) = Monies(net[o]) \union Monies(ms)
        /\ Times(net[o] \o ms) = Times(net[o]) \union Times(ms)
    <2>1. CASE ms = << >>
      <3>1. net[o] \o ms = net[o]
        BY <1>1, <2>1
      <3>2. QED
        BY <3>1, <2>1, NoParts
    <2>2. CASE \E m \in Packet : ms = << m >>
      <3>1. PICK m \in Packet : ms = << m >>
        BY <2>2
      <3>2. net[o] \o ms = Append(net[o], m) /\ ms = Append(<< >>, m) /\ << >> \in Seq(Packet)
        BY <1>1, <3>1, AppendIsConcat
      <3>3. /\ Kinds(ms) = {m.id}
            /\ Results(ms) = (IF m.id = "SEND_SHOT_TIME" THEN {m.result} ELSE {})
            /\ Monies(ms) = (IF m.id \in Introducing THEN {m.money} ELSE {})
            /\ Times(ms) = (IF m.id \in Asking THEN {m.randomTime} ELSE {})
        <4> DEFINE e == << >>
        <4>1. e \in Seq(Packet) /\ ms = Append(e, m)
          BY <3>2
        <4>2. Kinds(e) = {} /\ Results(e) = {} /\ Monies(e) = {} /\ Times(e) = {}
          BY NoParts
        <4> HIDE DEF e
        <4>3. QED
          BY <4>1, <4>2, MoreParts
      <3>4. QED
        BY <1>1, <3>2, <3>3, MoreParts
    <2>3. QED
      BY <2>1, <2>2
  <1>4. QED
    BY <1>2, <1>3, NoParts DEF After, o

-----------------------------------------------------------------------------
(***************************************************************************)
(* The players' money and the moment of "FIRE!": no money is made or lost  *)
(* in a match, and two phones that show a duel begin its round alike.      *)
(*                                                                         *)
(* Two invariants beside the one of DuelSessionProofs: the purses (what a  *)
(* phone has been told of the opponent's money is true, and what has been  *)
(* won on one phone is paid, or due, on the other) and the delays (the     *)
(* asked phone has, or is about to take over, the delay that the asking    *)
(* one has chosen).                                                        *)
(***************************************************************************)

-----------------------------------------------------------------------------
(***************************************************************************)
(* Steps that leave the money alone: neither what a player owns, nor what  *)
(* a phone knows of it, nor what is due.                                   *)
(***************************************************************************)

\* A step that concerns neither the players' money nor what they know of it.
Idly(g2, g, h, U, U2, V, W, R, R2) ==
  /\ \/ g2.opMoney = h.money
     \/ /\ g2.opMoney = g.opMoney /\ (Level(g2) => Level(g) /\ g2.open)
        /\ "OPONTYPE_RESPONSE" \in U /\ g2.open => "OPONTYPE_RESPONSE" \in U2
  /\ g2.opMoney = g.opMoney \/ ~Owed(g, U, R)
  /\ g2.money = g.money
  /\ \/ g2.won = g.won /\ g2.lost = g.lost
     \/ g.open /\ g2.open /\ g2.won = 0
  /\ Undecided(g2) => Undecided(g)
  /\ U2 \subseteq U /\ (g2.open /\ "RUN_AWAY" \in U => "RUN_AWAY" \in U2)
  /\ g2.open => g.open /\ R2 = R
  /\ ~g2.open => U2 = {} /\ R2 = {}
  /\ "TIME" \in U /\ g2.open => "TIME" \in U2 \/ "OPONTYPE_RESPONSE" \in W \/ ~Level(h)
  /\ V \subseteq W /\ ("RUN_AWAY" \in W => "RUN_AWAY" \in V)
  /\ g2.open => R = {} \/ g2.tally = g.tally

\* Such a step keeps what the phones know of each other's money.
LEMMA IdlyPurse ==
  ASSUME NEW g, NEW g2, NEW h, NEW U, NEW U2, NEW V, NEW W, NEW R, NEW R2, NEW Q,
         NEW N, NEW N2, NEW L, NEW L2,
         Idly(g2, g, h, U, U2, V, W, R, R2),
         Purse(g, h, U, V, R, N), Purse(h, g, V, U, Q, L),
         N2 \subseteq N, L2 \subseteq L \union {g.money},
         g2.open \/ ~Level(g2)
  PROVE  Purse(g2, h, U2, W, R2, N2) /\ Purse(h, g2, W, U2, Q, L2)
  <1>1. Told(h, N2) /\ Told(g2, L2)
    BY DEF Idly, Purse, Told
  <1>2. (Undecided(h) => g2.won = 0) /\ (Undecided(g2) => h.won = 0)
    BY DEF Idly, Purse
  <1>3. Knows(g2, h, U2, W, R2)
    <2> SUFFICES ASSUME Level(g2), h.open, "TIME" \notin W, "OPONTYPE_RESPONSE" \notin U2,
                        ~Owed(g2, U2, R2), ~Owes(g2, R2), g2.opMoney # h.money
                 PROVE  FALSE
      BY DEF Knows
    <2>1. /\ g2.opMoney = g.opMoney /\ Level(g) /\ g2.open
          /\ "OPONTYPE_RESPONSE" \notin U /\ "TIME" \notin V /\ R2 = R
      BY DEF Idly
    <2>2. ~Owed(g, U, R) /\ ~Owes(g, R)
      BY <2>1 DEF Idly, Owed, Owes, Win, Lose
    <2>3. QED
      BY <2>1, <2>2 DEF Purse, Knows
  <1>4. Knows(h, g2, W, U2, Q)
    <2> SUFFICES ASSUME Level(h), g2.open, "TIME" \notin U2, "OPONTYPE_RESPONSE" \notin W,
                        ~Owed(h, W, Q), ~Owes(h, Q)
                 PROVE  h.opMoney = g2.money
      BY DEF Knows
    <2>1. g.open /\ "TIME" \notin U /\ "OPONTYPE_RESPONSE" \notin V /\ g2.money = g.money
      BY DEF Idly
    <2>2. ~Owed(h, V, Q)
      BY DEF Idly, Owed
    <2>3. QED
      BY <2>1, <2>2 DEF Purse, Knows
  <1>5. QED
    BY <1>1, <1>2, <1>3, <1>4 DEF Purse

\* It keeps the balance: a phone that closes with a result under way was still playing.
LEMMA IdlyBalance ==
  ASSUME NEW g \in Local, NEW g2, NEW h \in Local, NEW U \in SUBSET PacketID, NEW U2,
         NEW V \in SUBSET PacketID, NEW W, NEW R \in SUBSET Result, NEW R2,
         NEW Q \in SUBSET Result, Match(g, h, U, V, R, Q),
         Idly(g2, g, h, U, U2, V, W, R, R2), Balance(g, h, U, V, R, Q)
  PROVE  Balance(g2, h, U2, W, R2, Q)
  <1>1. Due(h, W, Q) = Due(h, V, Q)
    BY DEF Due, Owed, Idly
  <1>2. CASE g2.open
    <2>1. g.open /\ g2.money = g.money /\ R2 = R
      BY <1>2 DEF Idly
    <2>2. Owed(g2, U2, R2) <=> Owed(g, U, R)
      BY <1>2 DEF Idly, Owed, Win
    <2>3. Owes(g2, R2) <=> Owes(g, R)
      BY <1>2 DEF Idly, Owes, Lose
    <2>4. Due(g2, U2, R2) = Due(g, U, R)
      BY <2>1, <2>2, <2>3 DEF Due, Idly
    <2>5. QED
      BY <1>1, <1>2, <2>1, <2>4 DEF Balance, CutOff
  <1>3. CASE ~g2.open
    <2>1. U2 = {} /\ R2 = {} /\ g2.won = g.won /\ g2.lost = g.lost /\ g2.money = g.money
      BY <1>3 DEF Idly
    <2>2. Due(g2, U2, R2) = 0
      BY <2>1 DEF Due, Owed, Owes
    <2>3. CASE Due(g, U, R) = 0
      BY <1>1, <1>3, <2>1, <2>2, <2>3 DEF Balance, CutOff
    <2>4. CASE Due(g, U, R) # 0
      <3>1. "RUN_AWAY" \in U \/ R # {}
        BY <2>4 DEF Due, Owed, Owes
      <3>2. Level(g)
        <4>1. Arriving(g, h, U, V) /\ ("SEND_SHOT_TIME" \notin U => R = {})
          BY DEF Match, Toward, Scored
        <4>2. g.view = "duel" \/ Undecided(g)
          BY <3>1, <4>1 DEF Arriving
        <4>3. QED
          BY <4>2 DEF Level
      <3>3. g.won + g.lost = 0 /\ g.won \in Nat /\ g.lost \in Nat
        <4>1. Verdict(g) /\ g.won \in Nat /\ g.lost \in Nat
          BY FieldTypes DEF Match, Sound
        <4>2. ~(g.won + g.lost > 0)
          BY <3>2, <4>1 DEF Verdict, Level, Undecided
        <4>3. QED
          BY <4>1, <4>2
      <3>4. QED
        BY <1>3, <2>1, <3>3 DEF Balance, CutOff
    <2>5. QED
      BY <2>3, <2>4
  <1>4. QED
    BY <1>2, <1>3

\* What is due is a number.
LEMMA DueType ==
  ASSUME NEW g \in Local, NEW U, NEW R
  PROVE  Due(g, U, R) \in Int
  <1>1. Tenth(g.opMoney) \in Int /\ Tenth(g.money) \in Int
    BY FieldTypes, TenthType
  <1>2. QED
    BY <1>1 DEF Due

\* The balance is the same seen from either side.
LEMMA BalanceTurns ==
  ASSUME NEW g \in Local, NEW h \in Local, NEW U, NEW V, NEW R, NEW Q, Balance(g, h, U, V, R, Q)
  PROVE  Balance(h, g, V, U, Q, R)
  <1> DEFINE d == Due(g, U, R)
             e == Due(h, V, Q)
  <1>1. d \in Int /\ e \in Int /\ g.money \in Int /\ h.money \in Int
    BY FieldTypes, DueType
  <1> HIDE DEF d, e
  <1>2. g.money + h.money + d + e = h.money + g.money + e + d
    BY <1>1
  <1>3. QED
    BY <1>2 DEF Balance, d, e

\* Nobody is broke.
Solvent == \A p \in Phone : ph[p].money > 0

\* What a step must keep.
MoneyKept == Purses' /\ (Solvent /\ Balanced => Balanced')

\* The players' money as phone p and the other one see it.
LEMMA MoneyHere ==
  ASSUME Purses, NEW p \in Phone
  PROVE  LET o == Other(p) IN
         /\ Purse(ph[p], ph[o], Kinds(net[p]), Kinds(net[o]), Results(net[p]), Monies(net[p]))
         /\ Purse(ph[o], ph[p], Kinds(net[o]), Kinds(net[p]), Results(net[o]), Monies(net[o]))
         /\ Balanced =>
              Balance(ph[p], ph[o], Kinds(net[p]), Kinds(net[o]), Results(net[p]), Results(net[o]))
  <1>1. Other(p) \in Phone /\ Other(Other(p)) = p
    BY PhoneFacts
  <1>2. QED
    BY <1>1 DEF Purses, Balanced

\* What both phones know after a step, from what the phone that moved and the other know.
LEMMA PursesThere ==
  ASSUME NEW p \in Phone, NEW o, o = Other(p),
         Purse(ph'[p], ph'[o], Kinds(net'[p]), Kinds(net'[o]), Results(net'[p]), Monies(net'[p])),
         Purse(ph'[o], ph'[p], Kinds(net'[o]), Kinds(net'[p]), Results(net'[o]), Monies(net'[o]))
  PROVE  Purses'
  <1>1. o \in Phone /\ Other(o) = p /\ \A q \in Phone : q = p \/ q = o
    BY PhoneFacts DEF Phone
  <1>2. QED
    BY <1>1 DEF Purses

\* The balance after a step, from that of one phone with the other.
LEMMA BalanceThere ==
  ASSUME TypeOK', NEW p \in Phone, NEW o, o = Other(p),
         Balance(ph'[p], ph'[o], Kinds(net'[p]), Kinds(net'[o]), Results(net'[p]), Results(net'[o]))
  PROVE  Balanced'
  <1>1. o \in Phone /\ Other(o) = p /\ \A q \in Phone : q = p \/ q = o
    BY PhoneFacts DEF Phone
  <1>2. ph'[p] \in Local /\ ph'[o] \in Local
    BY <1>1 DEF TypeOK
  <1>3. Balance(ph'[o], ph'[p], Kinds(net'[o]), Kinds(net'[p]), Results(net'[o]), Results(net'[p]))
    BY <1>2, BalanceTurns
  <1>4. QED
    BY <1>1, <1>3 DEF Balanced

\* A step of phone p that leaves the money alone.
LEMMA IdlyStep ==
  ASSUME TypeOK, TypeOK', MatchInv, Purses, NEW p \in Phone, NEW f, NEW q, NEW ms,
         After(p, f, q, ms), Monies(q) \subseteq Monies(net[p]),
         Monies(ms) \subseteq {ph[p].money}, Results(ms) = {},
         f.open \/ ~Level(f),
         Idly(f, ph[p], ph[Other(p)], Kinds(net[p]), IF f.open THEN Kinds(q) ELSE {},
              Kinds(net[Other(p)]),
              Kinds(net[Other(p)]) \union (IF ph[Other(p)].open THEN Kinds(ms) ELSE {}),
              Results(net[p]), IF f.open THEN Results(q) ELSE {})
  PROVE  MoneyKept
  <1> DEFINE o == Other(p)
             g == ph[p]
             h == ph[o]
             U == Kinds(net[p])
             V == Kinds(net[o])
             R == Results(net[p])
             Q == Results(net[o])
             N == Monies(net[p])
             L == Monies(net[o])
             U2 == Kinds(net'[p])
             W == Kinds(net'[o])
             R2 == Results(net'[p])
             N2 == Monies(net'[p])
             L2 == Monies(net'[o])
  <1>1. ph'[p] = f /\ ph'[o] = h /\ Results(net'[o]) = Q
    BY DEF After
  <1>1a. N2 \subseteq N /\ L2 \subseteq L \union {g.money}
    BY DEF After
  <1>2. Idly(f, g, h, U, U2, V, W, R, R2)
    BY DEF After
  <1>3. /\ g \in Local /\ h \in Local /\ U \in SUBSET PacketID /\ V \in SUBSET PacketID
        /\ R \in SUBSET Result /\ Q \in SUBSET Result /\ Match(g, h, U, V, R, Q)
    BY MatchHere
  <1>4. Purse(g, h, U, V, R, N) /\ Purse(h, g, V, U, Q, L) /\ (Balanced => Balance(g, h, U, V, R, Q))
    BY MoneyHere
  <1> HIDE DEF o, g, h, U, V, R, Q, N, L, U2, W, R2, N2, L2
  <1>5. Purse(f, h, U2, W, R2, N2) /\ Purse(h, f, W, U2, Q, L2)
    <2>1. Purse(g, h, U, V, R, N) /\ Purse(h, g, V, U, Q, L)
      BY <1>4
    <2>2. QED
      BY <1>1a, <1>2, <2>1, f.open \/ ~Level(f), IdlyPurse
  <1>6. Balanced => Balance(f, h, U2, W, R2, Q)
    BY <1>2, <1>3, <1>4, IdlyBalance
  <1>7. /\ Purse(ph'[p], ph'[o], Kinds(net'[p]), Kinds(net'[o]), Results(net'[p]), Monies(net'[p]))
        /\ Purse(ph'[o], ph'[p], Kinds(net'[o]), Kinds(net'[p]), Results(net'[o]), Monies(net'[o]))
    BY <1>1, <1>5 DEF U2, W, R2, N2, L2
  <1>8. Solvent /\ Balanced =>
        Balance(ph'[p], ph'[o], Kinds(net'[p]), Kinds(net'[o]), Results(net'[p]), Results(net'[o]))
    BY <1>1, <1>6 DEF U2, W, R2
  <1>9. o = Other(p)
    BY DEF o
  <1>10. QED
    <2>1. Purses'
      BY <1>7, <1>9, PursesThere
    <2>2. CASE Solvent /\ Balanced
      BY <1>8, <1>9, <2>1, <2>2, BalanceThere DEF MoneyKept
    <2>3. QED
      BY <2>1, <2>2 DEF MoneyKept

-----------------------------------------------------------------------------
(***************************************************************************)
(* Mild packets: introductions and packets that carry no result.           *)
(***************************************************************************)

\* What a phone sends without moving money: nothing, or a packet that is no result.
Mild(g, ms) ==
  \/ ms = << >>
  \/ \E m \in Packet :
       /\ ms = << m >> /\ m.id \notin {"SEND_SHOT_TIME", "RUN_AWAY"}
       /\ m.id \in Introducing => m.money = g.money

\* What a mild packet says of the money, and that it carries no result.
LEMMA MildParts ==
  ASSUME NEW g, NEW ms, Mild(g, ms)
  PROVE  /\ ms = << >> \/ \E m \in Packet : ms = << m >>
         /\ Monies(ms) \subseteq {g.money} /\ Results(ms) = {} /\ "RUN_AWAY" \notin Kinds(ms)
  <1>1. CASE ms = << >>
    BY <1>1, NoParts
  <1>2. ASSUME NEW m \in Packet, ms = << m >>, m.id \notin {"SEND_SHOT_TIME", "RUN_AWAY"},
               m.id \in Introducing => m.money = g.money
        PROVE  Monies(ms) \subseteq {g.money} /\ Results(ms) = {} /\ "RUN_AWAY" \notin Kinds(ms)
    <2>1. ms = Append(<< >>, m) /\ << >> \in Seq(Packet)
      BY <1>2
    <2>2. /\ Kinds(ms) = {m.id}
          /\ Results(ms) = (IF m.id = "SEND_SHOT_TIME" THEN {m.result} ELSE {})
          /\ Monies(ms) = (IF m.id \in Introducing THEN {m.money} ELSE {})
      <3> DEFINE e == << >>
      <3>1. e \in Seq(Packet) /\ ms = Append(e, m)
        BY <2>1
      <3>2. Kinds(e) = {} /\ Results(e) = {} /\ Monies(e) = {} /\ Times(e) = {}
        BY NoParts
      <3> HIDE DEF e
      <3>3. QED
        BY <1>2, <3>1, <3>2, MoreParts, ZenonT(60)
    <2>3. QED
      BY <1>2, <2>2
  <1>3. QED
    BY <1>1, <1>2 DEF Mild

\* Packets that tell a phone nothing of the money.
Plainly == PacketID \ {"TIME", "OPONTYPE_RESPONSE", "RUN_AWAY", "SEND_SHOT_TIME"}

\* A step that changes neither a purse nor the standing.
LEMMA PlainIdly ==
  ASSUME NEW f, NEW g, NEW h, NEW U, NEW U2, NEW V, NEW W, NEW R, NEW R2, SamePurse(f, g),
         f.open => g.open /\ f.tally = g.tally /\ R2 = R /\ U2 \subseteq U /\ U \subseteq U2 \union Plainly,
         ~f.open => U2 = {} /\ R2 = {},
         Level(f) => Level(g) /\ f.open, Undecided(f) => Undecided(g),
         V \subseteq W, "RUN_AWAY" \in W => "RUN_AWAY" \in V
  PROVE  Idly(f, g, h, U, U2, V, W, R, R2)
  BY DEF Idly, SamePurse, Plainly

\* The buttons that leave the money alone, the timers and the lost link.
LEMMA ActedIdly ==
  ASSUME TypeOK, TypeOK', MatchInv, Purses, NEW p \in Phone, NEW f, NEW ms,
         Acts(p, f, ms), ph[p].open \/ ms = << >>, Mild(ph[p], ms), f.open \/ ~Level(f),
         \A W : Kinds(net[Other(p)]) \subseteq W
                  /\ ("RUN_AWAY" \in W => "RUN_AWAY" \in Kinds(net[Other(p)]))
           => Idly(f, ph[p], ph[Other(p)], Kinds(net[p]), IF f.open THEN Kinds(net[p]) ELSE {},
                   Kinds(net[Other(p)]), W,
                   Results(net[p]), IF f.open THEN Results(net[p]) ELSE {})
  PROVE  MoneyKept
  <1> DEFINE q == net[p]
  <1>1. q \in Seq(Packet) /\ [net EXCEPT ![p] = q] = net
    BY PhoneType DEF TypeOK
  <1>2. ph' = [ph EXCEPT ![p] = f] /\ net' = Deliver([net EXCEPT ![p] = q], p, f, ms)
    BY <1>1 DEF Acts
  <1>3. /\ ms = << >> \/ \E m \in Packet : ms = << m >>
        /\ Monies(ms) \subseteq {ph[p].money} /\ Results(ms) = {} /\ "RUN_AWAY" \notin Kinds(ms)
    BY MildParts
  <1>4. After(p, f, q, ms)
    BY <1>1, <1>2, <1>3, StepParts
  <1>5. Idly(f, ph[p], ph[Other(p)], Kinds(net[p]), IF f.open THEN Kinds(q) ELSE {},
             Kinds(net[Other(p)]),
             Kinds(net[Other(p)]) \union (IF ph[Other(p)].open THEN Kinds(ms) ELSE {}),
             Results(net[p]), IF f.open THEN Results(q) ELSE {})
    BY <1>3
  <1>6. QED
    BY <1>3, <1>4, <1>5, IdlyStep

\* The packets that are not about a result.
LEMMA HandledIdly ==
  ASSUME TypeOK, TypeOK', MatchInv, Purses, NEW p \in Phone, NEW id, NEW f, NEW ms,
         Handles(p, id, f, ms), id # "SEND_SHOT_TIME", Mild(ph[p], ms), f.open \/ ~Level(f),
         NEW W, W = Kinds(net[Other(p)]) \union (IF ph[Other(p)].open THEN Kinds(ms) ELSE {}),
         Kinds(net[Other(p)]) \subseteq W
           /\ ("RUN_AWAY" \in W => "RUN_AWAY" \in Kinds(net[Other(p)]))
           => Idly(f, ph[p], ph[Other(p)], Kinds(net[p]),
                   IF f.open THEN Kinds(net[p]) \ {id} ELSE {},
                   Kinds(net[Other(p)]), W,
                   Results(net[p]), IF f.open THEN Results(net[p]) ELSE {})
  PROVE  MoneyKept
  <1> DEFINE q == Tail(net[p])
  <1>1. /\ net[p] # << >> /\ net[p] \in Seq(Packet) /\ q \in Seq(Packet) /\ Kinds(q) = Kinds(net[p]) \ {id}
        /\ Results(q) = Results(net[p])
        /\ ph[p].open /\ ph' = [ph EXCEPT ![p] = f] /\ net' = Deliver([net EXCEPT ![p] = q], p, f, ms)
    BY HeadFacts, PhoneType
  <1>2. Monies(q) \subseteq Monies(net[p])
    BY <1>1, LessParts
  <1>3. /\ ms = << >> \/ \E m \in Packet : ms = << m >>
        /\ Monies(ms) \subseteq {ph[p].money} /\ Results(ms) = {} /\ "RUN_AWAY" \notin Kinds(ms)
    BY MildParts
  <1> HIDE DEF q
  <1>4. After(p, f, q, ms)
    BY <1>1, <1>3, StepParts
  <1>5. Idly(f, ph[p], ph[Other(p)], Kinds(net[p]), IF f.open THEN Kinds(q) ELSE {},
             Kinds(net[Other(p)]),
             Kinds(net[Other(p)]) \union (IF ph[Other(p)].open THEN Kinds(ms) ELSE {}),
             Results(net[p]), IF f.open THEN Results(q) ELSE {})
    BY <1>1, <1>3
  <1>6. QED
    BY <1>2, <1>3, <1>4, <1>5, IdlyStep

-----------------------------------------------------------------------------
(***************************************************************************)
(* Plain steps: another screen, a timer, a packet that says nothing of     *)
(* money.                                                                  *)
(***************************************************************************)

\* A step after which the phone is no more in the match, and no less informed.
PlainStep(f, g) ==
  /\ SamePurse(f, g) /\ (f.open => g.open /\ f.tally = g.tally) /\ f.tried = g.tried
  /\ (Level(f) => Level(g) /\ f.open) /\ (Undecided(f) => Undecided(g))
  /\ f.view = "start" => g.view = "start"

\* Packets that speak neither of money nor of the round's delay.
Later == {"START_DUEL", "START_DUEL_TRUE", "START_DUEL_FALSE", "DUEL_CANSEL"}
Mute(ms) == ms = << >> \/ \E id \in Later : ms = << Plain(id) >>

\* A plain step, caused by the player, by a timer or by a packet that says nothing of
\* money and delay.
PlainlyMoves(p) ==
  \E f, ms :
    /\ PlainStep(f, ph[p]) /\ Mute(ms)
    /\ \/ Acts(p, f, ms) /\ (ph[p].open \/ ms = << >>)
       \/ \E id \in Later : Handles(p, id, f, ms)

\* A mute packet is mild, and asks for nothing.
LEMMA MuteParts ==
  ASSUME NEW ms, Mute(ms)
  PROVE  /\ \A g : Mild(g, ms)
         /\ Times(ms) = {} /\ Kinds(ms) \subseteq Later
  <1>1. ASSUME NEW id \in Later
        PROVE  LET m == Plain(id) IN
               m \in Packet /\ m.id = id /\ m.id \notin Introducing \union {"SEND_SHOT_TIME", "RUN_AWAY"}
    BY <1>1, PacketTypes, KindsOfOne DEF PacketID, Later, Introducing
  <1>2. ms = << >> \/ \E m \in Packet : ms = << m >> /\ m.id \in Later
                        /\ m.id \notin Introducing \union {"SEND_SHOT_TIME", "RUN_AWAY"}
    BY <1>1 DEF Mute
  <1>3. \A g : Mild(g, ms)
    BY <1>2 DEF Mild
  <1>4. Kinds(ms) \subseteq Later
    BY <1>2, KindsOfOne
  <1>5. Times(ms) = {}
    BY <1>4, NoParts DEF Later
  <1>6. QED
    BY <1>3, <1>4, <1>5

\* The readiness handshake sends mute packets only.
LEMMA MuteSends ==
  ASSUME NEW g
  PROVE  /\ Mute(<< >>) /\ Mute(StartDuelSends(g)) /\ Mute(NextDuelStartSends(g))
         /\ \A id \in Later : Mute(<< Plain(id) >>)
  BY DEF Mute, Later, StartDuelSends, NextDuelStartSends

\* A plain step of the player or of a timer keeps the money.
LEMMA ActedPlain ==
  ASSUME TypeOK, TypeOK', MatchInv, Purses, NEW p \in Phone, NEW f, NEW ms,
         Acts(p, f, ms), ph[p].open \/ ms = << >>, Mild(ph[p], ms), PlainStep(f, ph[p])
  PROVE  MoneyKept
  <1> DEFINE g == ph[p]
             h == ph[Other(p)]
             U == Kinds(net[p])
             V == Kinds(net[Other(p)])
             R == Results(net[p])
             U2 == IF f.open THEN U ELSE {}
             R2 == IF f.open THEN R ELSE {}
  <1>1. /\ f.open => R2 = R /\ U2 \subseteq U /\ U \subseteq U2 \union Plainly
        /\ ~f.open => U2 = {} /\ R2 = {}
    OBVIOUS
  <1> HIDE DEF g, h, U, V, R, U2, R2
  <1>2. \A W : V \subseteq W /\ ("RUN_AWAY" \in W => "RUN_AWAY" \in V)
                 => Idly(f, g, h, U, U2, V, W, R, R2)
    BY <1>1, PlainIdly DEF PlainStep, g
  <1>3. f.open \/ ~Level(f)
    BY DEF PlainStep
  <1>4. QED
    BY <1>2, <1>3, ActedIdly DEF g, h, U, V, R, U2, R2

\* A plain step caused by a packet keeps the money.
LEMMA HandledPlain ==
  ASSUME TypeOK, TypeOK', MatchInv, Purses, NEW p \in Phone, NEW id \in Plainly, NEW f, NEW ms,
         Handles(p, id, f, ms), Mild(ph[p], ms), PlainStep(f, ph[p])
  PROVE  MoneyKept
  <1> DEFINE g == ph[p]
             h == ph[Other(p)]
             U == Kinds(net[p])
             V == Kinds(net[Other(p)])
             W == V \union (IF h.open THEN Kinds(ms) ELSE {})
             R == Results(net[p])
             U2 == IF f.open THEN U \ {id} ELSE {}
             R2 == IF f.open THEN R ELSE {}
  <1>1. /\ f.open => R2 = R /\ U2 \subseteq U /\ U \subseteq U2 \union Plainly
        /\ ~f.open => U2 = {} /\ R2 = {}
    OBVIOUS
  <1>2. W = Kinds(net[Other(p)]) \union (IF ph[Other(p)].open THEN Kinds(ms) ELSE {})
    OBVIOUS
  <1> HIDE DEF g, h, U, V, R, U2, R2, W
  <1>3. V \subseteq W /\ ("RUN_AWAY" \in W => "RUN_AWAY" \in V)
          => Idly(f, g, h, U, U2, V, W, R, R2)
    BY <1>1, PlainIdly DEF PlainStep, g
  <1>4. (f.open \/ ~Level(f)) /\ id # "SEND_SHOT_TIME"
    BY DEF PlainStep, Plainly
  <1>5. QED
    BY <1>2, <1>3, <1>4, HandledIdly DEF g, h, U, V, R, U2, R2

\* A step that leaves the money alone keeps the books of both.
LEMMA PlainMoney ==
  ASSUME TypeOK, TypeOK', MatchInv, Purses, NEW p \in Phone, PlainlyMoves(p)
  PROVE  MoneyKept
  <1>1. PICK f, ms : /\ PlainStep(f, ph[p]) /\ Mute(ms)
                     /\ \/ Acts(p, f, ms) /\ (ph[p].open \/ ms = << >>)
                        \/ \E id \in Later : Handles(p, id, f, ms)
    BY DEF PlainlyMoves
  <1>2. Mild(ph[p], ms) /\ Later \subseteq Plainly
    BY <1>1, MuteParts DEF Later, Plainly, PacketID
  <1>3. QED
    BY <1>1, <1>2, ActedPlain, HandledPlain

\* A phone that closes.
LEMMA ClosedPlain ==
  ASSUME NEW f, NEW g, SamePurse(f, g), f.tried = g.tried, f.view = "list", ~f.open
  PROVE  PlainStep(f, g)
  BY DEF PlainStep, Level, Undecided

\* One that stays where it is, or goes on to the main screen.
LEMMA StillPlain ==
  ASSUME NEW f, NEW g, SameDuel(f, g), f.view = g.view \/ f.view = "list", g.open \/ g.view = "list"
  PROVE  PlainStep(f, g)
  BY DEF PlainStep, SameDuel, Level, Undecided

\* One that goes to the duel from a match that goes on.
LEMMA DuelPlain ==
  ASSUME NEW f, NEW g, SameDuel(f, g), f.view \in {g.view, "duel"}, Level(g), g.open
  PROVE  PlainStep(f, g)
  BY DEF PlainStep, SameDuel, Level, Undecided

\* The buttons other than "RUN AWAY" and "TRY AGAIN".
LEMMA ButtonsPlain ==
  ASSUME TypeOK, MatchInv, NEW p \in Phone,
         StartButton(p) \/ CancelButton(p) \/ NextButton(p) \/ BackButton(p)
           \/ DuelBackButton(p)
  PROVE  PlainlyMoves(p)
  <1> DEFINE g == ph[p]
  <1>1. g \in Local /\ Sound(g) /\ (g.open \/ g.view = "list")
    BY MatchHere DEF Match, Sound, Screens
  <1>o. g.view # "list" => ph[p].open
    BY <1>1
  <1>2. CASE StartButton(p)
    <2> DEFINE f == Waiting(StartClicked(g))
    <2>1. Acts(p, f, StartDuelSends(g)) /\ g.view = "start" /\ g.mayStart /\ ~g.waiting
      BY <1>2 DEF StartButton
    <2>2. ~g.server
      BY <1>1, <2>1 DEF Sound, Screens
    <2>3. SameDuel(f, g) /\ f.view = g.view
      BY <1>1, <2>2, ClickedLeaves
    <2> HIDE DEF f
    <2>4. PlainStep(f, g) /\ Mute(StartDuelSends(g))
      BY <1>1, <2>3, StillPlain, MuteSends
    <2>5. QED
      BY <1>o, <2>1, <2>4 DEF PlainlyMoves
  <1>3. CASE CancelButton(p)
    <2> DEFINE f == Cancelled(g)
    <2>1. /\ Acts(p, f, << Plain("START_DUEL_FALSE") >>) /\ Mute(<< Plain("START_DUEL_FALSE") >>)
          /\ g.view = "start"
      BY <1>3, MuteSends DEF CancelButton, Later
    <2>2. SamePurse(f, g) /\ f.tried = g.tried /\ f.view = "list" /\ ~f.open
      BY <1>1, CancelledLeaves
    <2> HIDE DEF f
    <2>3. QED
      BY <1>o, <2>1, <2>2, ClosedPlain DEF PlainlyMoves
  <1>4. CASE NextButton(p)
    <2> DEFINE f == NextDuelStart(g)
    <2>1. Acts(p, f, NextDuelStartSends(g)) /\ g.view = "final" /\ ~g.lastDuel
      BY <1>4 DEF NextButton
    <2>2. SameDuel(f, g) /\ f.view \in {g.view, "duel"}
      BY <1>1, NextLeaves
    <2> HIDE DEF f
    <2>3. Level(g) /\ g.open
      BY <1>1, <2>1 DEF Level, Undecided
    <2>4. QED
      BY <1>o, <2>1, <2>2, <2>3, DuelPlain, MuteSends DEF PlainlyMoves
  <1>5. CASE BackButton(p)
    <2> DEFINE f == [Goes(g, "list") EXCEPT !.userEndMatch = TRUE, !.money = IF @ < 0 THEN 0 ELSE @]
    <2>1. /\ Acts(p, IF f.opponentEndMatch THEN LostConnection(f) ELSE f, << Plain("DUEL_CANSEL") >>)
          /\ Mute(<< Plain("DUEL_CANSEL") >>) /\ g.view = "final"
      BY <1>5, MuteSends DEF BackButton, Later
    <2>2. g.money >= 0
      BY <1>1 DEF Sound, Books
    <2>3. f \in Local /\ SameDuel(f, g) /\ f.view = "list"
      BY <1>1, <2>2, BackLeaves
    <2> HIDE DEF f
    <2>4. LET c == LostConnection(f) IN
          SamePurse(c, f) /\ c.tried = f.tried /\ c.view = "list" /\ ~c.open
      BY <2>3, LostLeaves
    <2>5. LET c == LostConnection(f) IN SamePurse(c, g) /\ c.tried = g.tried
      BY <2>3, <2>4 DEF SameDuel, SamePurse
    <2>6. PlainStep(f, g) /\ PlainStep(LostConnection(f), g)
      BY <1>1, <2>3, <2>4, <2>5, StillPlain, ClosedPlain
    <2>7. QED
      BY <1>o, <2>1, <2>6 DEF PlainlyMoves
  <1>6. CASE DuelBackButton(p)
    <2> DEFINE f == LostConnection(g)
    <2>1. Acts(p, f, << >>)
      BY <1>6 DEF DuelBackButton
    <2>2. SamePurse(f, g) /\ f.tried = g.tried /\ f.view = "list" /\ ~f.open
      BY <1>1, LostLeaves
    <2> HIDE DEF f
    <2>3. QED
      BY <2>1, <2>2, ClosedPlain, MuteSends DEF PlainlyMoves
  <1>7. QED
    BY <1>2, <1>3, <1>4, <1>5, <1>6

\* The timers, the lost link and a hit.
LEMMA TimersPlain ==
  ASSUME TypeOK, MatchInv, NEW p \in Phone, WaitTimer(p) \/ LinkLost(p) \/ Hit(p)
  PROVE  PlainlyMoves(p)
  <1> DEFINE g == ph[p]
  <1>1. g \in Local /\ Sound(g) /\ (g.open \/ g.view = "list")
    BY MatchHere DEF Match, Sound, Screens
  <1>2. CASE WaitTimer(p)
    <2>1. PICK f \in {[Cancelled(g) EXCEPT !.timer = FALSE], [Cancelled(g) EXCEPT !.stray = FALSE]} :
            Acts(p, f, << Plain("START_DUEL_FALSE") >>) /\ ph[p].open
      BY <1>2 DEF WaitTimer
    <2>2. SamePurse(f, g) /\ f.tried = g.tried /\ f.view = "list" /\ ~f.open
      BY <1>1, <2>1, CancelledLeaves
    <2>3. QED
      BY <2>1, <2>2, ClosedPlain, MuteSends DEF PlainlyMoves, Later
  <1>3. CASE LinkLost(p)
    <2> DEFINE f == LostConnection(g)
    <2>1. Acts(p, f, << >>)
      BY <1>3 DEF LinkLost
    <2>2. SamePurse(f, g) /\ f.tried = g.tried /\ f.view = "list" /\ ~f.open
      BY <1>1, LostLeaves
    <2> HIDE DEF f
    <2>3. QED
      BY <2>1, <2>2, ClosedPlain, MuteSends DEF PlainlyMoves
  <1>4. CASE Hit(p)
    <2> DEFINE f == [g EXCEPT !.shot = TRUE, !.btnStartClick = FALSE]
    <2>1. ph' = [ph EXCEPT ![p] = f] /\ net' = net
      BY <1>4 DEF Hit, TypeOK
    <2>2. SameDuel(f, g) /\ f.view = g.view /\ f.open
      BY <1>1, <1>4, NotesLeave, ZenonT(60) DEF SameDuel, Hit, Playing
    <2> HIDE DEF f
    <2>3. net = Deliver(net, p, f, << >>)
      <3> DEFINE o == Other(p)
      <3>1. o \in Phone /\ o # p /\ net[o] \in Seq(Packet) /\ net \in [Phone -> Seq(Packet)]
        BY PhoneFacts, PhoneType DEF TypeOK
      <3>2. net[o] \o << >> = net[o]
        BY <3>1
      <3>3. QED
        BY <3>1, <3>2, <2>2 DEF Deliver
    <2>4. Acts(p, f, << >>)
      BY <2>1, <2>3 DEF Acts
    <2>5. QED
      BY <1>1, <2>2, <2>4, StillPlain, MuteSends DEF PlainlyMoves
  <1>5. QED
    BY <1>2, <1>3, <1>4

\* What a phone has when it handles its oldest packet.
LEMMA Heard ==
  ASSUME TypeOK, MatchInv, NEW p \in Phone, NEW id, NEW f, NEW ms, Handles(p, id, f, ms)
  PROVE  LET m == Head(net[p]) IN
         /\ net[p] # << >> /\ ph[p].open /\ First(id, Kinds(net[p]))
         /\ m.money \in Int /\ m.randomTime \in Nat
         /\ id \in Introducing => m.money \in Monies(net[p])
         /\ id \in Asking => m.randomTime \in Times(net[p])
         /\ id = "SEND_SHOT_TIME" => m.result \in Results(net[p])
  <1>1. /\ net[p] # << >> /\ ph[p].open /\ First(id, Kinds(net[p])) /\ Head(net[p]).id = id
        /\ id = "SEND_SHOT_TIME" => Head(net[p]).result \in Results(net[p])
    BY HeadFacts DEF Handles
  <1>2. net[p] \in Seq(Packet)
    BY PhoneType
  <1>3. QED
    BY <1>1, <1>2, HeadType, LessParts

\* Nothing about a round is behind a packet that introduces the other player.
LEMMA Behind ==
  ASSUME NEW g, NEW h, NEW U \in SUBSET PacketID, NEW V, NEW R, Toward(g, h, U, V, R),
         NEW x \in Introducing, First(x, U)
  PROVE  /\ x \in U /\ "RUN_AWAY" \notin U /\ "SEND_SHOT_TIME" \notin U /\ R = {}
         /\ x = "TIME" => U \subseteq {"TIME", "START_DUEL_FALSE"}
         /\ x # "TIME" => "TIME" \notin U
         /\ x # "OPONTYPE_RESPONSE" => "OPONTYPE_RESPONSE" \notin U
         /\ x = "OPONTYPE_RESPONSE_TRY" => "TIME_TRY" \notin U
  <1>1. \A y \in U : y # x => Ahead(x, y)
    BY DEF First
  <1>2. x \in U /\ "RUN_AWAY" \notin U /\ "SEND_SHOT_TIME" \notin U
    BY <1>1 DEF First, Ahead, Introducing
  <1>3. R = {}
    BY <1>2 DEF Toward, Scored
  <1>4. x = "TIME" => U \subseteq {"TIME", "START_DUEL_FALSE"}
    BY <1>1 DEF Ahead
  <1>5. /\ x # "TIME" => "TIME" \notin U
        /\ x # "OPONTYPE_RESPONSE" => "OPONTYPE_RESPONSE" \notin U
    BY <1>1 DEF Ahead
  <1>6. x = "OPONTYPE_RESPONSE_TRY" => "TIME_TRY" \notin U
    BY <1>1 DEF Ahead
  <1>7. QED
    BY <1>2, <1>3, <1>4, <1>5, <1>6

\* The packets that carry nothing.
LEMMA PacketsPlain ==
  ASSUME TypeOK, MatchInv, NEW p \in Phone,
         \/ ReceiveStartDuel(p) \/ ReceiveStartDuelTrue(p) \/ ReceiveStartDuelFalse(p)
         \/ ReceiveDuelCansel(p)
  PROVE  PlainlyMoves(p)
  <1> DEFINE g == ph[p]
             U == Kinds(net[p])
             V == Kinds(net[Other(p)])
             h == ph[Other(p)]
             R == Results(net[p])
  <1>1. /\ g \in Local /\ Sound(g) /\ (g.open \/ g.view = "list")
        /\ Toward(g, h, U, V, R) /\ Arriving(g, h, U, V) /\ Together(g, h, U, V)
        /\ U \in SUBSET PacketID
    BY MatchHere DEF Match, Sound, Screens, Toward
  <1>2. ASSUME NEW id, NEW f, NEW ms, Handles(p, id, f, ms)
        PROVE  g.open /\ First(id, U)
    BY <1>2, Heard
  <1>3. CASE ReceiveStartDuel(p)
    <2> DEFINE s == [g EXCEPT !.shot = FALSE]
    <2>1. s \in Local /\ SameDuel(s, g) /\ s.view = g.view
      BY <1>1, NotesLeave
    <2>2. s.btnStartClick = g.btnStartClick
      BY <1>1 DEF Local
    <2>3. CASE g.btnStartClick
      <3> DEFINE f == Goes(s, "duel")
      <3>1. Handles(p, "START_DUEL", f, << Plain("START_DUEL_TRUE") >>)
        BY <1>3, <2>2, <2>3 DEF ReceiveStartDuel
      <3>2. g.open /\ First("START_DUEL", U)
        BY <1>2, <3>1
      <3> HIDE DEF s
      <3>3. SameDuel(f, g) /\ f.view = "duel"
        BY <2>1, GoesLeaves, ViewType DEF SameDuel, SamePurse
      <3> HIDE DEF f, g, U, V, h, R
      <3>4. ~Decided(g)
        BY <1>1, <2>3, <3>2 DEF Arriving, First
      <3>5. "TIME" \notin U
        BY <3>2 DEF First, Ahead
      <3>6. Level(g)
        BY <1>1, <3>2, <3>4, <3>5, FieldTypes DEF Together, Level, Decided, Undecided, View
      <3>7. QED
        BY <3>1, <3>2, <3>3, <3>6, DuelPlain, MuteSends DEF PlainlyMoves, Later, g
    <2>4. CASE ~g.btnStartClick
      <3> DEFINE f == [s EXCEPT !.btnStartClick = TRUE]
      <3>1. Handles(p, "START_DUEL", f, << >>)
        BY <1>3, <2>2, <2>4 DEF ReceiveStartDuel
      <3> HIDE DEF s
      <3>2. SameDuel(f, g) /\ f.view = g.view
        BY <2>1, NotesLeave DEF SameDuel, SamePurse
      <3> HIDE DEF f
      <3>3. QED
        BY <1>1, <3>1, <3>2, StillPlain, MuteSends DEF PlainlyMoves, Later
    <2>5. QED
      BY <2>3, <2>4
  <1>4. CASE ReceiveStartDuelTrue(p)
    <2>1. CASE g.view = "duel"
      <3>1. Handles(p, "START_DUEL_TRUE", g, << >>) /\ SameDuel(g, g)
        BY <1>4, <2>1 DEF ReceiveStartDuelTrue, SameDuel, SamePurse
      <3>2. QED
        BY <1>1, <3>1, StillPlain, MuteSends DEF PlainlyMoves, Later
    <2>2. CASE g.view # "duel"
      <3> DEFINE f == Goes(g, "duel")
      <3>1. Handles(p, "START_DUEL_TRUE", f, << >>)
        BY <1>4, <2>2 DEF ReceiveStartDuelTrue
      <3>2. g.open /\ First("START_DUEL_TRUE", U)
        BY <1>2, <3>1
      <3>3. SameDuel(f, g) /\ f.view = "duel"
        BY <1>1, GoesLeaves, ViewType
      <3> HIDE DEF f, g, U, V, h, R
      <3>4. "TIME" \notin U /\ "OPONTYPE_RESPONSE_TRY" \notin U /\ "START_DUEL_TRUE" \in U
        BY <3>2 DEF First, Ahead
      <3>5. ~Decided(g)
        BY <1>1, <3>4 DEF Arriving
      <3>6. Level(g)
        BY <1>1, <3>2, <3>4, <3>5, FieldTypes DEF Together, Level, Decided, Undecided, View
      <3>7. QED
        BY <3>1, <3>2, <3>3, <3>6, DuelPlain, MuteSends DEF PlainlyMoves, Later, g
    <2>3. QED
      BY <2>1, <2>2
  <1>5. ASSUME NEW id \in Later, Handles(p, id, LostConnection(g), << >>)
        PROVE  PlainlyMoves(p)
    <2> DEFINE f == LostConnection(g)
    <2>1. SamePurse(f, g) /\ f.tried = g.tried /\ f.view = "list" /\ ~f.open
      BY <1>1, LostLeaves
    <2>2. Handles(p, id, f, << >>)
      BY <1>5
    <2> HIDE DEF f
    <2>3. QED
      BY <2>1, <2>2, ClosedPlain, MuteSends DEF PlainlyMoves
  <1>6. CASE ReceiveStartDuelFalse(p)
    BY <1>5, <1>6 DEF ReceiveStartDuelFalse, Later
  <1>7. CASE ReceiveDuelCansel(p)
    <2>1. CASE g.userEndMatch
      BY <1>5, <1>7, <2>1 DEF ReceiveDuelCansel, Later
    <2>2. CASE ~g.userEndMatch
      <3> DEFINE f == [g EXCEPT !.opponentEndMatch = TRUE]
      <3>1. Handles(p, "DUEL_CANSEL", f, << >>)
        BY <1>7, <2>2 DEF ReceiveDuelCansel
      <3>2. SameDuel(f, g) /\ f.view = g.view
        BY <1>1, NotesLeave
      <3> HIDE DEF f
      <3>3. QED
        BY <1>1, <3>1, <3>2, StillPlain, MuteSends DEF PlainlyMoves, Later
    <2>3. QED
      BY <2>1, <2>2
  <1>8. QED
    BY <1>3, <1>4, <1>6, <1>7

(***************************************************************************)
(* The packets that introduce a player, and the step each of them causes.  *)
(***************************************************************************)
LEMMA TimeStep ==
  ASSUME TypeOK, MatchInv, NEW p \in Phone, ReceiveTime(p)
  PROVE  \E f \in Local :
           /\ Handles(p, "TIME", f, << Introduction("OPONTYPE_RESPONSE", f) >>)
           /\ f.money = ph[p].money /\ f.opMoney = Head(net[p]).money
           /\ f.randomTime = Head(net[p]).randomTime
           /\ f.won = ph[p].won /\ f.lost = ph[p].lost /\ f.tried = ph[p].tried
           /\ f.open = ph[p].open /\ f.view = "start"
  <1> DEFINE g == ph[p]
             m == Head(net[p])
             f == Met(g, m.money, m.randomTime)
  <1>1. Handles(p, "TIME", f, << Introduction("OPONTYPE_RESPONSE", f) >>)
    BY DEF ReceiveTime, Met
  <1>2. g \in Local /\ m.money \in Int /\ m.randomTime \in Nat
    BY <1>1, Heard, PhoneType
  <1> HIDE DEF g, m
  <1>3. f.money = g.money /\ f.opMoney = m.money /\ f.randomTime = m.randomTime
        /\ f.won = g.won /\ f.lost = g.lost /\ f.tried = g.tried /\ f.open = g.open /\ f.view = "start"
    BY <1>2, MetLeaves
  <1>4. f \in Local
    <2> DEFINE b == MatchStarted(g)
               s == Goes(b, "start")
    <2>1. s \in Local
      BY <1>2, MatchStartedType, GoesType, ViewType
    <2> HIDE DEF s
    <2>2. [s EXCEPT !.server = FALSE, !.opMoney = m.money, !.randomTime = m.randomTime,
                    !.serverType = TRUE, !.mayStart = TRUE] \in Local
      BY <1>2, <2>1, ZenonT(60) DEF Local
    <2>3. QED
      BY <2>2 DEF Met, s
  <1> HIDE DEF f
  <1>5. QED
    BY <1>1, <1>3, <1>4 DEF g, m

\* The answer to a request for a duel, seen from outside.
LEMMA ResponseStep ==
  ASSUME TypeOK, MatchInv, NEW p \in Phone, ReceiveResponse(p)
  PROVE  \E f :
           /\ Handles(p, "OPONTYPE_RESPONSE", f, << >>)
           /\ f.money = ph[p].money /\ f.opMoney = Head(net[p]).money
           /\ f.randomTime = ph[p].randomTime /\ f.tally = ph[p].tally
           /\ f.won = ph[p].won /\ f.lost = ph[p].lost /\ f.tried = ph[p].tried
           /\ f.open = ph[p].open /\ f.view = "start" /\ ph[p].view = "start"
  <1> DEFINE g == ph[p]
             m == Head(net[p])
             s == [g EXCEPT !.endDuel = FALSE, !.server = TRUE, !.opMoney = m.money]
             f == Waiting(StartClicked(s))
  <1>1. Handles(p, "OPONTYPE_RESPONSE", f, StartDuelSends(s))
    BY DEF ReceiveResponse
  <1>2. g \in Local /\ m.money \in Int /\ First("OPONTYPE_RESPONSE", Kinds(net[p]))
        /\ Toward(g, ph[Other(p)], Kinds(net[p]), Kinds(net[Other(p)]), Results(net[p]))
    BY <1>1, Heard, MatchHere DEF Match
  <1>3. ~g.btnStartClick /\ g.view = "start"
    BY <1>2 DEF Toward, Arriving, First
  <1> HIDE DEF g, m
  <1>4. /\ s \in Local /\ s.server = TRUE /\ s.btnStartClick = g.btnStartClick
        /\ s.money = g.money /\ s.opMoney = m.money
        /\ s.randomTime = g.randomTime /\ s.won = g.won /\ s.lost = g.lost /\ s.tried = g.tried
        /\ s.open = g.open /\ s.view = g.view /\ s.tally = g.tally
    BY <1>2 DEF Local
  <1> HIDE DEF s
  <1>5. StartDuelSends(s) = << >>
    BY <1>3, <1>4 DEF StartDuelSends
  <1>6. SameDuel(f, s) /\ f.view = s.view
    BY <1>3, <1>4, ClickedLeaves
  <1> HIDE DEF f
  <1>7. QED
    BY <1>1, <1>3, <1>4, <1>5, <1>6 DEF SameDuel, SamePurse, g, m

\* A request for another duel, seen from outside.
LEMMA TimeTryStep ==
  ASSUME TypeOK, MatchInv, NEW p \in Phone, ReceiveTimeTry(p)
  PROVE  \E f \in Local :
           /\ Handles(p, "TIME_TRY", f, << Introduction("OPONTYPE_RESPONSE_TRY", f) >>)
           /\ f.money = ph[p].money /\ f.opMoney = Head(net[p]).money
           /\ f.randomTime = Head(net[p]).randomTime
           /\ f.won = 0 /\ f.lost = 0 /\ f.tried = ph[p].tried
           /\ f.open = ph[p].open /\ f.view = "start"
  <1> DEFINE g == ph[p]
             m == Head(net[p])
             f == Asked(g, m.money, m.randomTime)
  <1>1. Handles(p, "TIME_TRY", f, << Introduction("OPONTYPE_RESPONSE_TRY", f) >>)
    BY DEF ReceiveTimeTry, Asked
  <1>2. g \in Local /\ Timed(g) /\ m.money \in Int /\ m.randomTime \in Nat
    BY <1>1, Heard, PhoneType
  <1> HIDE DEF g, m
  <1>3. f.money = g.money /\ f.opMoney = m.money /\ f.randomTime = m.randomTime
        /\ f.won = 0 /\ f.lost = 0 /\ f.tried = g.tried /\ f.open = g.open /\ f.view = "start"
    BY <1>2, AskedLeaves
  <1>4. f \in Local
    BY <1>2, AskedType
  <1> HIDE DEF f
  <1>5. QED
    BY <1>1, <1>3, <1>4 DEF g, m

\* The answer to a request for another duel, seen from outside.
LEMMA ResponseTryStep ==
  ASSUME TypeOK, MatchInv, NEW p \in Phone, ReceiveResponseTry(p)
  PROVE  \E f :
           /\ Handles(p, "OPONTYPE_RESPONSE_TRY", f, << >>)
           /\ f.money = ph[p].money /\ f.opMoney = Head(net[p]).money
           /\ f.randomTime = ph[p].randomTime /\ f.tally = ph[p].tally
           /\ f.won = ph[p].won /\ f.lost = ph[p].lost /\ ~f.tried
           /\ f.open = ph[p].open /\ f.view = "start" /\ ph[p].tried
  <1> DEFINE g == ph[p]
             m == Head(net[p])
             s == Ready(g, m.money)
  <1>1. PICK covered \in {TRUE, g.view = "start"} :
          Handles(p, "OPONTYPE_RESPONSE_TRY", Agreed(g, m.money, covered), StartDuelSends(s))
    BY DEF ReceiveResponseTry, Agreed, Ready
  <1> DEFINE f == Agreed(g, m.money, covered)
  <1>2. g \in Local /\ m.money \in Int /\ First("OPONTYPE_RESPONSE_TRY", Kinds(net[p]))
        /\ Toward(g, ph[Other(p)], Kinds(net[p]), Kinds(net[Other(p)]), Results(net[p])) /\ Sound(g)
    BY <1>1, Heard, MatchHere DEF Match
  <1>3. ~g.btnStartClick /\ g.tried
    BY <1>2 DEF Toward, Arriving, First, Sound, Screens
  <1>4. covered \in BOOLEAN
    BY <1>1
  <1> HIDE DEF g, m
  <1>5. StartDuelSends(s) = << >>
    <2>1. s.server = TRUE /\ s.btnStartClick = g.btnStartClick
      BY <1>2, ReadyFields
    <2> HIDE DEF s
    <2>2. QED
      BY <1>3, <2>1 DEF StartDuelSends
  <1>6. /\ f.money = g.money /\ f.opMoney = m.money /\ f.randomTime = g.randomTime
        /\ f.won = g.won /\ f.lost = g.lost /\ ~f.tried /\ f.open = g.open
        /\ f.tally = g.tally /\ f.view = "start"
    BY <1>2, <1>3, <1>4, AgreedLeaves
  <1>7. Handles(p, "OPONTYPE_RESPONSE_TRY", f, << >>)
    BY <1>1, <1>5
  <1> HIDE DEF f, s
  <1>8. QED
    BY <1>3, <1>6, <1>7 DEF g, m

-----------------------------------------------------------------------------
(***************************************************************************)
(* Another duel: "TRY AGAIN" and the packets that answer it.               *)
(***************************************************************************)

\* "TRY AGAIN", seen from outside.
LEMMA TryStep ==
  ASSUME TypeOK, TypeOK', MatchInv, NEW p \in Phone, TryButton(p)
  PROVE  \E f \in Local :
           /\ Acts(p, f, << Introduction("TIME_TRY", f) >>)
           /\ f.money = ph[p].money /\ f.opMoney = ph[p].opMoney /\ f.won = 0 /\ f.lost = 0
           /\ f.tried /\ f.open = ph[p].open /\ f.lastDuel = ph[p].lastDuel /\ f.view = ph[p].view
           /\ ph[p].view = "final" /\ ph[p].lastDuel /\ ph[p].open
           /\ ph[p].tried => "twoTries" \in mishaps'
  <1> DEFINE g == ph[p]
  <1>1. PICK t \in RandomTimes : TryButton(p)!(t)
    BY DEF TryButton
  <1> DEFINE f == [MatchStarted(g) EXCEPT !.randomTime = t, !.waiting = TRUE, !.won = 0,
                                          !.lost = 0, !.tried = TRUE]
  <1>2. /\ Acts(p, f, << Introduction("TIME_TRY", f) >>) /\ t \in Nat
        /\ g.view = "final" /\ g.lastDuel /\ (g.tried => "twoTries" \in mishaps')
    BY <1>1, SessionAssumption
  <1>3. g \in Local /\ Sound(g)
    BY MatchHere DEF Match
  <1>4. /\ f.money = g.money /\ f.opMoney = g.opMoney /\ f.won = 0 /\ f.lost = 0 /\ f.tried
        /\ f.open = g.open /\ f.lastDuel = g.lastDuel /\ f.view = g.view
    BY <1>2, <1>3, TryLeaves
  <1>5. f \in Local
    <2>1. ph'[p] = f
      BY <1>2 DEF Acts, TypeOK
    <2> HIDE DEF f
    <2>2. QED
      BY <2>1 DEF TypeOK
  <1>6. g.open
    BY <1>2, <1>3 DEF Sound, Screens
  <1> HIDE DEF f
  <1>7. QED
    BY <1>2, <1>4, <1>5, <1>6

\* A phone that introduces itself tells what it owns.
LEMMA MildIntroduction ==
  ASSUME NEW g, NEW f \in Local, NEW id \in Introducing, f.money = g.money
  PROVE  Mild(g, << Introduction(id, f) >>)
  <1> DEFINE m == Introduction(id, f)
  <1>1. m \in Packet /\ m.id = id
    BY PacketTypes, KindsOfOne DEF Introducing, PacketID
  <1>2. m.money = f.money
    BY DEF Introduction, Plain
  <1> HIDE DEF m
  <1>3. m.id \notin {"SEND_SHOT_TIME", "RUN_AWAY"}
    BY <1>1 DEF Introducing
  <1>4. Mild(g, << m >>)
    BY <1>1, <1>2, <1>3 DEF Mild
  <1>5. QED
    BY <1>4 DEF m

\* "TRY AGAIN" leaves the money alone: nobody is playing.
LEMMA TryMoney ==
  ASSUME TypeOK, TypeOK', MatchInv, Purses, NEW p \in Phone, TryButton(p)
  PROVE  MoneyKept
  <1> DEFINE g == ph[p]
             h == ph[Other(p)]
             U == Kinds(net[p])
             V == Kinds(net[Other(p)])
             R == Results(net[p])
  <1>1. PICK f \in Local :
             /\ Acts(p, f, << Introduction("TIME_TRY", f) >>)
             /\ f.money = g.money /\ f.opMoney = g.opMoney /\ f.won = 0 /\ f.lost = 0
             /\ f.tried /\ f.open = g.open /\ f.lastDuel = g.lastDuel /\ f.view = g.view
             /\ g.view = "final" /\ g.lastDuel /\ g.open
    BY TryStep
  <1>2. Mild(g, << Introduction("TIME_TRY", f) >>)
    BY <1>1, MildIntroduction DEF Introducing
  <1>3. Toward(g, h, U, V, R)
    BY MatchHere DEF Match
  <1> HIDE DEF g, h, U, V, R
  <1>4. R = {}
    BY <1>1, <1>3 DEF Toward, Arriving, Scored
  <1>5. ~Level(f) /\ ~Undecided(f)
    BY <1>1 DEF Level, Undecided
  <1>6. \A W : V \subseteq W /\ ("RUN_AWAY" \in W => "RUN_AWAY" \in V)
           => Idly(f, g, h, U, IF f.open THEN U ELSE {}, V, W, R, IF f.open THEN R ELSE {})
    BY <1>1, <1>4, <1>5 DEF Idly
  <1>7. QED
    BY <1>1, <1>2, <1>5, <1>6, ActedIdly DEF g, h, U, V, R

\* A packet that introduces the other player is believed, and is true.
LEMMA BelievedIdly ==
  ASSUME NEW f, NEW g, NEW h, NEW U, NEW V, NEW W, NEW R, NEW N, NEW x, NEW m \in N,
         Told(h, N), f.opMoney = m, f.money = g.money, R = {}, "RUN_AWAY" \notin U,
         (f.won = g.won /\ f.lost = g.lost) \/ f.won = 0, f.open, g.open, f.view = "start",
         "TIME" \in U /\ x = "TIME" => "OPONTYPE_RESPONSE" \in W \/ ~Level(h),
         V \subseteq W, "RUN_AWAY" \in W => "RUN_AWAY" \in V
  PROVE  Idly(f, g, h, U, IF f.open THEN U \ {x} ELSE {}, V, W, R, IF f.open THEN R ELSE {})
  BY DEF Idly, Told, Owed, Undecided

\* Introductions keep the money: whoever is told believes what is true.
LEMMA ReceivesMoney ==
  ASSUME TypeOK, TypeOK', MatchInv, Purses, NEW p \in Phone,
         ReceiveTime(p) \/ ReceiveResponse(p) \/ ReceiveTimeTry(p) \/ ReceiveResponseTry(p)
  PROVE  MoneyKept
  <1> DEFINE g == ph[p]
             h == ph[Other(p)]
             U == Kinds(net[p])
             V == Kinds(net[Other(p)])
             R == Results(net[p])
             N == Monies(net[p])
             m == Head(net[p]).money
  <1>1. Toward(g, h, U, V, R) /\ U \in SUBSET PacketID /\ Told(h, N) /\ Sound(h)
    BY MatchHere, MoneyHere DEF Match, Purse
  <1>2. ASSUME NEW x \in Introducing, NEW f, NEW ms, Handles(p, x, f, ms), Mild(g, ms),
               f.opMoney = m, f.money = g.money, f.open = g.open, f.view = "start",
               (f.won = g.won /\ f.lost = g.lost) \/ f.won = 0,
               x = "TIME" /\ h.open => "OPONTYPE_RESPONSE" \in Kinds(ms)
        PROVE  MoneyKept
    <2> DEFINE W == V \union (IF h.open THEN Kinds(ms) ELSE {})
    <2>1. g.open /\ First(x, U) /\ m \in N
      BY <1>2, Heard
    <2>2. R = {} /\ "RUN_AWAY" \notin U /\ x # "SEND_SHOT_TIME"
      BY <1>1, <1>2, <2>1, Behind DEF Introducing
    <2>3. x = "TIME" => "OPONTYPE_RESPONSE" \in W \/ ~Level(h)
      <3>1. ~h.open => ~Level(h)
        BY <1>1 DEF Sound, Screens, Level, Undecided
      <3>2. QED
        BY <1>2, <3>1
    <2>4. W = Kinds(net[Other(p)]) \union (IF ph[Other(p)].open THEN Kinds(ms) ELSE {})
      OBVIOUS
    <2>4a. V \subseteq W
      OBVIOUS
    <2> HIDE DEF g, h, U, V, R, N, m, W
    <2>5. V \subseteq W /\ ("RUN_AWAY" \in W => "RUN_AWAY" \in V)
           => Idly(f, g, h, U, IF f.open THEN U \ {x} ELSE {}, V, W, R, IF f.open THEN R ELSE {})
      BY <1>1, <1>2, <2>1, <2>2, <2>3, BelievedIdly
    <2>6. QED
      BY <1>2, <2>1, <2>2, <2>4, <2>5, HandledIdly DEF g, h, U, V, R
  <1>3. CASE ReceiveTime(p)
    <2>1. PICK f \in Local :
             /\ Handles(p, "TIME", f, << Introduction("OPONTYPE_RESPONSE", f) >>)
             /\ f.money = g.money /\ f.opMoney = m
             /\ f.won = g.won /\ f.lost = g.lost /\ f.open = g.open /\ f.view = "start"
      BY <1>3, TimeStep
    <2>2. /\ Mild(g, << Introduction("OPONTYPE_RESPONSE", f) >>)
          /\ "OPONTYPE_RESPONSE" \in Kinds(<< Introduction("OPONTYPE_RESPONSE", f) >>)
      <3> DEFINE i == Introduction("OPONTYPE_RESPONSE", f)
      <3>1. Mild(g, << i >>)
        BY <2>1, MildIntroduction DEF Introducing
      <3>2. i.id = "OPONTYPE_RESPONSE"
        BY KindsOfOne
      <3> HIDE DEF i
      <3>3. Kinds(<< i >>) = {i.id}
        BY KindsOfOne
      <3>4. QED
        BY <3>1, <3>2, <3>3 DEF i
    <2> HIDE DEF g, h, m
    <2>3. QED
      BY <1>2, <2>1, <2>2 DEF Introducing
  <1>4. CASE ReceiveResponse(p)
    <2>1. PICK f :
             /\ Handles(p, "OPONTYPE_RESPONSE", f, << >>)
             /\ f.money = g.money /\ f.opMoney = m
             /\ f.won = g.won /\ f.lost = g.lost /\ f.open = g.open /\ f.view = "start"
      BY <1>4, ResponseStep
    <2>2. Mild(g, << >>)
      BY DEF Mild
    <2> HIDE DEF g, h, m
    <2>3. QED
      BY <1>2, <2>1, <2>2 DEF Introducing
  <1>5. CASE ReceiveTimeTry(p)
    <2>1. PICK f \in Local :
             /\ Handles(p, "TIME_TRY", f, << Introduction("OPONTYPE_RESPONSE_TRY", f) >>)
             /\ f.money = g.money /\ f.opMoney = m
             /\ f.won = 0 /\ f.lost = 0 /\ f.open = g.open /\ f.view = "start"
      BY <1>5, TimeTryStep
    <2>2. Mild(g, << Introduction("OPONTYPE_RESPONSE_TRY", f) >>)
      BY <2>1, MildIntroduction DEF Introducing
    <2> HIDE DEF g, h, m
    <2>3. QED
      BY <1>2, <2>1, <2>2 DEF Introducing
  <1>6. CASE ReceiveResponseTry(p)
    <2>1. PICK f :
             /\ Handles(p, "OPONTYPE_RESPONSE_TRY", f, << >>)
             /\ f.money = g.money /\ f.opMoney = m
             /\ f.won = g.won /\ f.lost = g.lost /\ f.open = g.open /\ f.view = "start"
      BY <1>6, ResponseTryStep
    <2>2. Mild(g, << >>)
      BY DEF Mild
    <2> HIDE DEF g, h, m
    <2>3. QED
      BY <1>2, <2>1, <2>2 DEF Introducing
  <1>7. QED
    BY <1>3, <1>4, <1>5, <1>6

-----------------------------------------------------------------------------
(***************************************************************************)
(* The end of a round: the phone that is the first to know the result.     *)
(***************************************************************************)

\* What the end of a round does to one who was playing.
LEMMA SettledPays ==
  ASSUME NEW g \in Local, NEW r \in Result \ {"none"}, Sound(g), g.view = "duel"
  PROVE  LET f == Settled(g, r) IN
         /\ f.open = g.open /\ f.view = "final" /\ f.tried = g.tried /\ f.randomTime = g.randomTime
         /\ f.lastDuel <=> (Win(g, r) = 2 \/ Lose(g, r) = 2)
         /\ f.won = (IF Win(g, r) = 2 THEN 1 ELSE 0) /\ f.lost = (IF Lose(g, r) = 2 THEN 1 ELSE 0)
         /\ Win(g, r) = 2 => f.money = g.money + Tenth(g.opMoney)
         /\ Lose(g, r) = 2 => f.money = g.money - Paid(g.money)
         /\ Win(g, r) # 2 /\ Lose(g, r) # 2 => f.money = g.money /\ f.opMoney = g.opMoney
         /\ ~(Win(g, r) = 2 /\ Lose(g, r) = 2)
  <1> DEFINE f == Settled(g, r)
             n == NewFinal(g, r)
  <1>1. /\ f.open = g.open /\ f.view = "final" /\ f.tried = g.tried
        /\ f.lastDuel <=> (Win(g, r) = 2 \/ Lose(g, r) = 2)
        /\ f.won = (IF Win(g, r) = 2 THEN 1 ELSE 0) /\ f.lost = (IF Lose(g, r) = 2 THEN 1 ELSE 0)
    BY SettledFacts
  <1>2. g.tally.win < 2 /\ g.tally.lose < 2 /\ g.money >= 0
    BY NotYet DEF Sound, Decided, Books
  <1>3. ~(Win(g, r) = 2 /\ Lose(g, r) = 2)
    BY <1>2, FieldTypes DEF Win, Lose
  <1>4. f.money = n.money /\ f.opMoney = n.opMoney /\ f.randomTime = n.randomTime
    BY <1>2, ScreensPay
  <1>5. /\ n.money = (IF Win(g, r) = 2 THEN g.money + Tenth(g.opMoney)
                      ELSE IF Lose(g, r) = 2 THEN g.money - Paid(g.money) ELSE g.money)
        /\ n.opMoney = (IF Win(g, r) = 2 THEN g.opMoney - Tenth(g.opMoney)
                        ELSE IF Lose(g, r) = 2 THEN g.opMoney + Tenth(g.money) ELSE g.opMoney)
        /\ n.randomTime = g.randomTime
    BY <1>2, FinalPays
  <1> HIDE DEF f, n
  <1>6. QED
    BY <1>1, <1>3, <1>4, <1>5 DEF f

\* A round that nobody won costs nothing.
LEMMA EvenPays ==
  ASSUME NEW g \in Local, Sound(g), g.view = "duel"
  PROVE  LET f == [NewFinal(g, "even") EXCEPT !.btnStartClick = FALSE] IN
         /\ f.money = g.money /\ f.opMoney = g.opMoney /\ f.randomTime = g.randomTime
         /\ f.open = g.open /\ f.view = "final" /\ f.tried = g.tried
         /\ ~f.lastDuel /\ f.won = 0 /\ f.lost = 0
  <1> DEFINE f == [NewFinal(g, "even") EXCEPT !.btnStartClick = FALSE]
             n == NewFinal(g, "even")
  <1>1. /\ f.open = g.open /\ f.view = "final" /\ f.tried = g.tried
        /\ ~f.lastDuel /\ f.won = 0 /\ f.lost = 0
    BY EvenFacts
  <1>2. g.tally.win < 2 /\ g.tally.lose < 2 /\ g.money >= 0 /\ g.tally.win \in Nat /\ g.tally.lose \in Nat
    BY NotYet, FieldTypes DEF Sound, Decided, Books
  <1>3. f.money = n.money /\ f.opMoney = n.opMoney /\ f.randomTime = n.randomTime
    BY <1>2, ScreensPay
  <1>4. "even" \in Result \ {"none"} /\ Win(g, "even") # 2 /\ Lose(g, "even") # 2
    BY <1>2 DEF Result, Win, Lose
  <1>5. n.money = g.money /\ n.opMoney = g.opMoney /\ n.randomTime = g.randomTime
    BY <1>2, <1>4, FinalPays
  <1> HIDE DEF f, n
  <1>6. QED
    BY <1>1, <1>3, <1>5 DEF f

\* The first phone to settle a round: the other's result is under way.
LEMMA FirstToSettlePays ==
  ASSUME NEW g \in Local, NEW h \in Local, NEW U \in SUBSET PacketID, NEW V \in SUBSET PacketID,
         NEW R \in SUBSET Result, NEW Q \in SUBSET Result, Match(g, h, U, V, R, Q),
         NEW N, NEW N2, NEW L, Purse(g, h, U, V, R, N), Purse(h, g, V, U, Q, L),
         NEW r \in Result \ {"none"}, g.view = "duel", g.open, h.view = "duel", h.open, U = {},
         N2 \subseteq N, V \intersect Introducing = {} => L = {},
         NEW f, f = Settled(g, r)
  PROVE  LET W == V \union {"SEND_SHOT_TIME"}
             Q2 == Q \union {Opposite(r)}
         IN  /\ Purse(f, h, U, W, R, N2) /\ Purse(h, f, W, U, Q2, L)
             /\ g.money > 0 /\ Balance(g, h, U, V, R, Q) => Balance(f, h, U, W, R, Q2)
  <1> DEFINE W == V \union {"SEND_SHOT_TIME"}
             Q2 == Q \union {Opposite(r)}
             x == Opposite(r)
  <1>1. /\ Sound(g) /\ Sound(h) /\ Toward(g, h, U, V, R) /\ Toward(h, g, V, U, Q)
        /\ Scored(g, h, U, V, R) /\ Scored(h, g, V, U, Q)
    BY DEF Match, Toward
  <1>2. V \subseteq {"START_DUEL_TRUE"}
    <2>1. Last("SEND_SHOT_TIME", V)
      BY FirstToSettleMatch
    <2>2. QED
      BY <2>1 DEF Last, Ahead
  <1>3. R = {} /\ Q = {} /\ L = {} /\ Q2 = {x}
    BY <1>1, <1>2 DEF Scored, Introducing
  <1>4. Level(g) /\ Level(h)
    BY DEF Level
  <1>5. g.tally.win = h.tally.lose /\ g.tally.lose = h.tally.win
    BY <1>1, <1>2, <1>4 DEF Scored
  <1>6. Win(h, x) = Lose(g, r) /\ Lose(h, x) = Win(g, r)
    <2>1. (x = "won" <=> r = "lost") /\ (x = "lost" <=> r = "won")
      BY DEF Opposite, Result
    <2>2. QED
      BY <1>5, <2>1 DEF Win, Lose
  <1>7. g.opMoney = h.money /\ h.opMoney = g.money
    <2>1. ~Owed(g, U, R) /\ ~Owes(g, R) /\ ~Owed(h, V, Q) /\ ~Owes(h, Q)
      BY <1>2, <1>3 DEF Owed, Owes
    <2>2. "TIME" \notin V /\ "OPONTYPE_RESPONSE" \notin U /\ "TIME" \notin U /\ "OPONTYPE_RESPONSE" \notin V
      BY <1>2
    <2>3. QED
      BY <1>4, <2>1, <2>2 DEF Purse, Knows
  <1>8. /\ f.open /\ f.view = "final"
        /\ f.lastDuel <=> (Win(g, r) = 2 \/ Lose(g, r) = 2)
        /\ Win(g, r) = 2 => f.money = g.money + Tenth(g.opMoney)
        /\ Lose(g, r) = 2 => f.money = g.money - Paid(g.money)
        /\ Win(g, r) # 2 /\ Lose(g, r) # 2 => f.money = g.money /\ f.opMoney = g.opMoney
        /\ ~(Win(g, r) = 2 /\ Lose(g, r) = 2)
    BY <1>1, SettledPays
  <1>9. h.won = 0
    BY <1>1, NotYet DEF Sound, Decided
  <1> HIDE DEF x
  <1>10. Purse(f, h, U, W, R, N2)
    <2>1. Told(h, N2)
      BY DEF Purse, Told
    <2>2. Level(f) => f.opMoney = h.money
      BY <1>7, <1>8 DEF Level, Undecided
    <2>3. ~Undecided(h)
      BY DEF Undecided
    <2>4. QED
      BY <2>1, <2>2, <2>3 DEF Purse, Knows
  <1>11. Purse(h, f, W, U, Q2, L)
    <2>1. Told(f, L)
      BY <1>3 DEF Told
    <2>2. ~Owed(h, W, Q2) /\ ~Owes(h, Q2) => h.opMoney = f.money
      BY <1>3, <1>6, <1>7, <1>8 DEF Owed, Owes
    <2>3. QED
      BY <1>9, <2>1, <2>2 DEF Purse, Knows
  <1>12. ASSUME g.money > 0, Balance(g, h, U, V, R, Q)
         PROVE  Balance(f, h, U, W, R, Q2)
    <2>1. Due(g, U, R) = 0 /\ Due(h, V, Q) = 0 /\ Due(f, U, R) = 0
      BY <1>2, <1>3 DEF Due, Owed, Owes
    <2>2. g.money + h.money = 2 * Money
      <3>1. ~CutOff(g) /\ ~CutOff(h)
        BY DEF CutOff
      <3>2. g.money + h.money + 0 + 0 = 2 * Money
        BY <1>12, <2>1, <3>1 DEF Balance
      <3>3. QED
        BY <3>2, FieldTypes
    <2>3. /\ Tenth(g.money) \in Int /\ Tenth(h.money) \in Int /\ Paid(g.money) = Tenth(g.money)
          /\ g.money \in Int /\ h.money \in Int
      BY <1>12, FieldTypes, PaidTenth, TenthType
    <2>4. Owed(h, W, Q2) <=> Lose(g, r) = 2
      BY <1>2, <1>3, <1>6 DEF Owed
    <2>5. Owes(h, Q2) <=> Win(g, r) = 2
      BY <1>3, <1>6 DEF Owes
    <2>6. Due(h, W, Q2) = (IF Lose(g, r) = 2 THEN Tenth(g.money)
                           ELSE IF Win(g, r) = 2 THEN -Tenth(h.money) ELSE 0)
      BY <1>7, <2>4, <2>5 DEF Due
    <2>7. f.money + h.money + Due(f, U, R) + Due(h, W, Q2) = 2 * Money
      <3> HIDE DEF W, Q2
      <3>1. CASE Win(g, r) = 2
        <4>1. f.money = g.money + Tenth(h.money) /\ Due(h, W, Q2) = -Tenth(h.money)
          BY <1>7, <1>8, <2>6, <3>1
        <4>2. QED
          BY <2>1, <2>2, <2>3, <4>1
      <3>2. CASE Lose(g, r) = 2
        <4>1. f.money = g.money - Tenth(g.money) /\ Due(h, W, Q2) = Tenth(g.money)
          BY <1>8, <2>3, <2>6, <3>2
        <4>2. QED
          BY <2>1, <2>2, <2>3, <4>1
      <3>3. CASE Win(g, r) # 2 /\ Lose(g, r) # 2
        <4>1. f.money = g.money /\ Due(h, W, Q2) = 0
          BY <1>8, <2>6, <3>3
        <4>2. QED
          BY <2>1, <2>2, <2>3, <4>1
      <3>4. QED
        BY <3>1, <3>2, <3>3
    <2>8. QED
      BY <2>7 DEF Balance
  <1>13. QED
    BY <1>10, <1>11, <1>12

-----------------------------------------------------------------------------
(***************************************************************************)
(* The other phone takes the result over; one of the two runs away.        *)
(***************************************************************************)

\* The other phone takes over the result that is under way to it.
LEMMA ShotTimePays ==
  ASSUME NEW g \in Local, NEW h \in Local, NEW U \in SUBSET PacketID, NEW V \in SUBSET PacketID,
         NEW R \in SUBSET Result, NEW Q \in SUBSET Result, Match(g, h, U, V, R, Q),
         NEW N, NEW N2, NEW L, Purse(g, h, U, V, R, N), Purse(h, g, V, U, Q, L),
         NEW r \in Result, R = {r}, g.open, First("SEND_SHOT_TIME", U),
         N2 \subseteq N, V = {} => L = {},
         NEW f, f = Settled(g, r)
  PROVE  LET U2 == U \ {"SEND_SHOT_TIME"}
         IN  /\ Purse(f, h, U2, V, {}, N2) /\ Purse(h, f, V, U2, Q, L)
             /\ g.money > 0 /\ Balance(g, h, U, V, R, Q) => Balance(f, h, U2, V, {}, Q)
  <1> DEFINE U2 == U \ {"SEND_SHOT_TIME"}
  <1>1. /\ Sound(g) /\ Sound(h) /\ Toward(g, h, U, V, R) /\ Toward(h, g, V, U, Q)
        /\ Scored(g, h, U, V, R) /\ Scored(h, g, V, U, Q) /\ Arriving(g, h, U, V)
        /\ "SEND_SHOT_TIME" \in U
    BY DEF Match, Toward, First
  <1>2. g.view = "duel" /\ V = {} /\ h.view \in {"final", "list"} /\ L = {} /\ Q = {}
    BY <1>1 DEF Arriving, Scored
  <1>3. /\ (Win(g, r) = 2 \/ Lose(g, r) = 2) <=> (h.lastDuel /\ "RUN_AWAY" \notin U)
        /\ r # "none"
    BY <1>1 DEF Scored
  <1>4. /\ f.open /\ f.view = "final"
        /\ f.lastDuel <=> (Win(g, r) = 2 \/ Lose(g, r) = 2)
        /\ f.won = (IF Win(g, r) = 2 THEN 1 ELSE 0)
        /\ Win(g, r) = 2 => f.money = g.money + Tenth(g.opMoney)
        /\ Lose(g, r) = 2 => f.money = g.money - Paid(g.money)
        /\ Win(g, r) # 2 /\ Lose(g, r) # 2 => f.money = g.money /\ f.opMoney = g.opMoney
        /\ ~(Win(g, r) = 2 /\ Lose(g, r) = 2)
    BY <1>1, <1>2, <1>3, SettledPays
  <1>5. "RUN_AWAY" \in U => h.lastDuel /\ h.won = 0
    BY <1>1 DEF Arriving
  <1>6. ~h.lastDuel => h.won = 0
    BY <1>1, NotYet DEF Sound, Decided
  <1>7. Told(h, N2) /\ Told(f, L)
    BY <1>2 DEF Purse, Told
  <1>8. /\ Owed(g, U, R) <=> "RUN_AWAY" \in U \/ Win(g, r) = 2
        /\ Owes(g, R) <=> Lose(g, r) = 2
        /\ Owed(f, U2, {}) <=> "RUN_AWAY" \in U
        /\ ~Owes(f, {})
    BY DEF Owed, Owes
  <1>9. Purse(f, h, U2, V, {}, N2)
    <2>1. Knows(f, h, U2, V, {})
      <3> SUFFICES ASSUME Level(f), h.open, "TIME" \notin V, "OPONTYPE_RESPONSE" \notin U2,
                          ~Owed(f, U2, {})
                   PROVE  f.opMoney = h.money
        BY DEF Knows
      <3>1. Win(g, r) # 2 /\ Lose(g, r) # 2 /\ "RUN_AWAY" \notin U /\ "OPONTYPE_RESPONSE" \notin U
        BY <1>4, <1>8 DEF Level, Undecided
      <3>2. g.opMoney = h.money
        BY <1>2, <1>8, <3>1 DEF Purse, Knows, Level
      <3>3. QED
        BY <1>4, <3>1, <3>2
    <2>2. Undecided(h) => f.won = 0
      BY <1>3, <1>4 DEF Undecided
    <2>3. QED
      BY <1>7, <2>1, <2>2 DEF Purse
  <1>10. Purse(h, f, V, U2, Q, L)
    <2>1. Knows(h, f, V, U2, Q)
      <3> SUFFICES ASSUME Level(h), "TIME" \notin U2, "OPONTYPE_RESPONSE" \notin V,
                          ~Owed(h, V, Q), ~Owes(h, Q)
                   PROVE  h.opMoney = f.money
        BY DEF Knows
      <3>1. ~h.lastDuel
        BY <1>2 DEF Level, Undecided
      <3>2. f.money = g.money
        BY <1>3, <1>4, <3>1
      <3>3. QED
        BY <3>2 DEF Purse, Knows
    <2>2. Undecided(f) => h.won = 0
      BY <1>3, <1>4, <1>5, <1>6 DEF Undecided
    <2>3. QED
      BY <1>7, <2>1, <2>2 DEF Purse
  <1>11. ASSUME g.money > 0, Balance(g, h, U, V, R, Q)
         PROVE  Balance(f, h, U2, V, {}, Q)
    <2>1. CASE CutOff(h)
      BY <2>1 DEF Balance
    <2>2. CASE ~CutOff(h)
      <3>1. ~CutOff(g)
        BY DEF CutOff
      <3>2. g.money + h.money + Due(g, U, R) + Due(h, V, Q) = 2 * Money
        BY <1>11, <2>2, <3>1 DEF Balance
      <3>3. Due(h, V, Q) = 0
        BY <1>2 DEF Due, Owed, Owes
      <3>4. /\ g.money \in Int /\ h.money \in Int /\ Tenth(g.money) \in Int /\ Tenth(g.opMoney) \in Int
            /\ Paid(g.money) = Tenth(g.money)
        BY <1>11, FieldTypes, PaidTenth, TenthType
      <3>5. f.money + Due(f, U2, {}) = g.money + Due(g, U, R)
        <4>1. CASE Win(g, r) = 2
          <5>1. Due(g, U, R) = Tenth(g.opMoney) /\ Due(f, U2, {}) = 0
            BY <1>3, <1>8, <4>1 DEF Due
          <5>2. QED
            BY <1>4, <3>4, <4>1, <5>1
        <4>2. CASE Lose(g, r) = 2
          <5>1. Due(g, U, R) = -Tenth(g.money) /\ Due(f, U2, {}) = 0
            BY <1>3, <1>4, <1>8, <4>2 DEF Due
          <5>2. QED
            BY <1>4, <3>4, <4>2, <5>1
        <4>3. CASE Win(g, r) # 2 /\ Lose(g, r) # 2
          <5>1. Due(f, U2, {}) = Due(g, U, R)
            BY <1>4, <1>8, <4>3 DEF Due
          <5>2. QED
            BY <1>4, <4>3, <5>1
        <4>4. QED
          BY <4>1, <4>2, <4>3
      <3>6. Due(g, U, R) \in Int /\ Due(f, U2, {}) \in Int /\ f.money \in Int
        <4>1. f \in Local
          BY SettledType
        <4>2. QED
          BY <4>1, DueType, FieldTypes
      <3>7. f.money + h.money + Due(f, U2, {}) + Due(h, V, Q) = 2 * Money
        <4> HIDE DEF U2
        <4>1. QED
          BY <3>2, <3>3, <3>4, <3>5, <3>6
      <3>8. QED
        BY <3>7 DEF Balance
    <2>3. QED
      BY <2>1, <2>2
  <1>12. QED
    BY <1>9, <1>10, <1>11

\* Nothing that introduces a player is under way from one who sees the result of a
\* round, and the other one is not decided unless it has run away.
LEMMA NotIntroducing ==
  ASSUME NEW g \in Local, NEW h \in Local, NEW U \in SUBSET PacketID, NEW V \in SUBSET PacketID,
         NEW R \in SUBSET Result, NEW Q \in SUBSET Result, Match(g, h, U, V, R, Q),
         Undecided(g), g.open
  PROVE  V \intersect Introducing = {} /\ U \intersect Introducing \subseteq {"TIME_TRY"} /\ h.view # "start"
         /\ ~g.tried
  <1>1. /\ Arriving(g, h, U, V) /\ Arriving(h, g, V, U) /\ Together(h, g, V, U)
        /\ Screens(g) /\ Verdict(g) /\ g.view = "final" /\ ~g.lastDuel
    BY DEF Match, Toward, Sound, Undecided
  <1>2. ~g.tried
    BY <1>1 DEF Screens, Undecided
  <1>3. "TIME" \notin U /\ "OPONTYPE_RESPONSE" \notin U /\ "OPONTYPE_RESPONSE_TRY" \notin U
    BY <1>1, <1>2 DEF Arriving
  <1>4. h.view # "start"
    BY <1>1, <1>2, <1>3 DEF Together
  <1>5. "TIME" \notin V /\ "OPONTYPE_RESPONSE" \notin V /\ "TIME_TRY" \notin V /\ "OPONTYPE_RESPONSE_TRY" \notin V
    BY <1>1, <1>2, <1>4 DEF Arriving
  <1>6. QED
    BY <1>2, <1>3, <1>4, <1>5 DEF Introducing

\* One who runs away.
Fled(g) == [LastScene(LoseScene(g)) EXCEPT !.shot = FALSE, !.tally = NoRounds]

\* One who runs away pays, and the other will be told.
LEMMA RunAwayPays ==
  ASSUME NEW g \in Local, NEW h \in Local, NEW U \in SUBSET PacketID, NEW V \in SUBSET PacketID,
         NEW R \in SUBSET Result, NEW Q \in SUBSET Result, Match(g, h, U, V, R, Q),
         NEW N, NEW L, Purse(g, h, U, V, R, N), Purse(h, g, V, U, Q, L),
         Undecided(g), ~g.waiting, "RUN_AWAY" \notin U,
         V \intersect Introducing = {} => L = {},
         NEW f, f = Fled(g),
         NEW W, W = V \union (IF h.open THEN {"RUN_AWAY"} ELSE {})
  PROVE  /\ Purse(f, h, U, W, R, N) /\ Purse(h, f, W, U, Q, L)
         /\ g.money > 0 /\ Balance(g, h, U, V, R, Q) => Balance(f, h, U, W, R, Q)
  <1>1. /\ Sound(g) /\ Sound(h) /\ Toward(g, h, U, V, R) /\ Toward(h, g, V, U, Q)
        /\ Scored(g, h, U, V, R) /\ Scored(h, g, V, U, Q) /\ Arriving(g, h, U, V)
        /\ Arriving(h, g, V, U) /\ Together(h, g, V, U) /\ g.open /\ g.view = "final" /\ ~g.lastDuel
    BY DEF Match, Toward, Undecided, Sound, Screens
  <1>2. /\ f.open = g.open /\ f.view = "final" /\ f.lastDuel = TRUE /\ f.won = 0 /\ f.lost = 1
    BY <1>1, RunAwayFacts DEF Kept, Fled
  <1>3. f.money = g.money - Paid(g.money)
    BY <1>1, ScreensPay DEF Sound, Books, Fled
  <1>4. V \intersect Introducing = {} /\ L = {} /\ U \intersect Introducing \subseteq {"TIME_TRY"}
    BY <1>1, NotIntroducing
  <1>5. ~Level(f) /\ ~Undecided(f) /\ (~h.open => ~Level(h))
    BY <1>1, <1>2 DEF Level, Undecided, Sound, Screens
  <1>6. R = {} /\ "RUN_AWAY" \notin V /\ \A r \in Q : Win(h, r) # 2 /\ Lose(h, r) # 2
    BY <1>1 DEF Arriving, Scored
  <1>7. Purse(f, h, U, W, R, N)
    BY <1>2, <1>5 DEF Purse, Knows
  <1>8. Purse(h, f, W, U, Q, L)
    BY <1>4, <1>5 DEF Purse, Knows, Told, Owed
  <1>9. ASSUME g.money > 0, Balance(g, h, U, V, R, Q)
        PROVE  Balance(f, h, U, W, R, Q)
    <2>1. Due(g, U, R) = 0 /\ Due(h, V, Q) = 0 /\ Due(f, U, R) = 0
      BY <1>6 DEF Due, Owed, Owes
    <2>2. CASE ~h.open
      <3>1. h.won = 0
        BY DEF Purse
      <3>2. ~(h.lost > 0) /\ h.lost \in Nat
        BY <1>1, FieldTypes DEF Together
      <3>3. h.lost = 0
        BY <3>2
      <3>4. QED
        BY <2>2, <3>1, <3>3 DEF Balance, CutOff
    <2>3. CASE h.open
      <3>1. Level(h)
        <4>1. ~Decided(h)
          BY <1>1, <2>3 DEF Together
        <4>2. ~(h.view = "list" /\ ~h.lastDuel)
          BY <1>1, <1>4, <2>3 DEF Together, Introducing
        <4>3. QED
          BY <4>1, <4>2, FieldTypes DEF Level, Decided, Undecided, View
      <3>2. h.opMoney = g.money
        <4>1. ~Owed(h, V, Q) /\ ~Owes(h, Q)
          BY <1>6 DEF Owed, Owes
        <4>2. "TIME" \notin U /\ "OPONTYPE_RESPONSE" \notin V
          BY <1>4 DEF Introducing
        <4>3. QED
          BY <1>1, <3>1, <4>1, <4>2 DEF Purse, Knows
      <3>3. Due(h, W, Q) = Tenth(g.money)
        BY <2>3, <3>2 DEF Due, Owed
      <3>4. ~CutOff(g) /\ ~CutOff(h)
        BY <1>1, <2>3 DEF CutOff
      <3>5. g.money + h.money + 0 + 0 = 2 * Money
        BY <1>9, <2>1, <3>4 DEF Balance
      <3>6. /\ g.money \in Int /\ h.money \in Int /\ Tenth(g.money) \in Int
            /\ Paid(g.money) = Tenth(g.money)
        BY <1>9, FieldTypes, PaidTenth, TenthType
      <3>7. f.money + h.money + Due(f, U, R) + Due(h, W, Q) = 2 * Money
        BY <1>3, <2>1, <3>3, <3>5, <3>6
      <3>8. QED
        BY <3>7 DEF Balance
    <2>4. QED
      BY <2>2, <2>3
  <1>10. QED
    BY <1>7, <1>8, <1>9

\* One who is told that the other has run away is paid.
LEMMA RanAwayPays ==
  ASSUME NEW g \in Local, NEW h \in Local, NEW U \in SUBSET PacketID, NEW V \in SUBSET PacketID,
         NEW R \in SUBSET Result, NEW Q \in SUBSET Result, Match(g, h, U, V, R, Q),
         NEW N, NEW N2, NEW L, Purse(g, h, U, V, R, N), Purse(h, g, V, U, Q, L),
         g.open, First("RUN_AWAY", U), N2 \subseteq N, V \intersect Introducing = {} => L = {},
         NEW f, f = LastScene(WinScene(g))
  PROVE  LET U2 == U \ {"RUN_AWAY"}
         IN  /\ Purse(f, h, U2, V, R, N2) /\ Purse(h, f, V, U2, Q, L)
             /\ Balance(g, h, U, V, R, Q) => Balance(f, h, U2, V, R, Q)
  <1> DEFINE U2 == U \ {"RUN_AWAY"}
  <1>1. /\ Sound(g) /\ Sound(h) /\ Toward(g, h, U, V, R) /\ Toward(h, g, V, U, Q)
        /\ Scored(g, h, U, V, R) /\ Scored(h, g, V, U, Q) /\ Arriving(g, h, U, V)
        /\ Arriving(h, g, V, U) /\ Together(h, g, V, U)
    BY DEF Match, Toward
  <1>2. "RUN_AWAY" \in U /\ "SEND_SHOT_TIME" \notin U /\ "START_DUEL_TRUE" \notin U
    BY DEF First, Ahead
  <1>3. Undecided(g) /\ g.view = "final" /\ ~g.lastDuel /\ h.lastDuel /\ R = {}
    BY <1>1, <1>2 DEF Arriving, Undecided, Scored
  <1>4. V \intersect Introducing = {} /\ L = {} /\ h.view # "start"
    BY <1>3, NotIntroducing
  <1>5. h.view # "duel"
    <2>1. "SEND_SHOT_TIME" \notin V
      BY <1>1, <1>2 DEF Arriving
    <2>2. QED
      BY <1>1, <1>2, <1>3, <2>1 DEF Together
  <1>6. ~Level(h) /\ ~Undecided(h)
    BY <1>3, <1>4, <1>5 DEF Level, Undecided
  <1>7. /\ f.open = g.open /\ f.view = g.view /\ f.lastDuel = TRUE
    BY <1>1, <1>3, RanAwayFacts DEF Kept
  <1>8. f.money = g.money + Tenth(g.opMoney)
    BY <1>1, ScenesPay DEF Sound, Books
  <1>9. ~Level(f) /\ ~Undecided(f)
    BY <1>3, <1>7 DEF Level, Undecided
  <1>10. Purse(f, h, U2, V, R, N2)
    BY <1>6, <1>9 DEF Purse, Knows, Told
  <1>11. Purse(h, f, V, U2, Q, L)
    BY <1>4, <1>6, <1>9 DEF Purse, Knows, Told
  <1>12. ASSUME Balance(g, h, U, V, R, Q)
         PROVE  Balance(f, h, U2, V, R, Q)
    <2>1. CASE CutOff(h)
      BY <2>1 DEF Balance
    <2>2. CASE ~CutOff(h)
      <3>1. g.money + h.money + Due(g, U, R) + Due(h, V, Q) = 2 * Money
        BY <1>12, <2>2 DEF Balance, CutOff
      <3>2. Due(g, U, R) = Tenth(g.opMoney) /\ Due(f, U2, R) = 0
        BY <1>2, <1>3 DEF Due, Owed, Owes
      <3>3. /\ g.money \in Int /\ h.money \in Int /\ Tenth(g.opMoney) \in Int /\ Due(h, V, Q) \in Int
        BY FieldTypes, TenthType, DueType
      <3>4. f.money + h.money + Due(f, U2, R) + Due(h, V, Q) = 2 * Money
        BY <1>8, <3>1, <3>2, <3>3
      <3>5. QED
        BY <3>4 DEF Balance
    <2>3. QED
      BY <2>1, <2>2
  <1>13. QED
    BY <1>10, <1>11, <1>12

-----------------------------------------------------------------------------
(***************************************************************************)
(* The steps that move money.                                              *)
(***************************************************************************)

\* What a packet by itself says.
LEMMA SingleParts ==
  ASSUME NEW m \in Packet
  PROVE  LET w == << m >> IN
         /\ w \in Seq(Packet) /\ Kinds(w) = {m.id}
         /\ Results(w) = (IF m.id = "SEND_SHOT_TIME" THEN {m.result} ELSE {})
         /\ Monies(w) = (IF m.id \in Introducing THEN {m.money} ELSE {})
         /\ Times(w) = (IF m.id \in Asking THEN {m.randomTime} ELSE {})
  <1> DEFINE e == << >>
             w == << m >>
  <1>1. e \in Seq(Packet) /\ w = Append(e, m)
    OBVIOUS
  <1>2. Kinds(e) = {} /\ Results(e) = {} /\ Monies(e) = {} /\ Times(e) = {}
    BY NoParts
  <1> HIDE DEF e, w
  <1>3. /\ w \in Seq(Packet) /\ Kinds(w) = {m.id}
        /\ Results(w) = (IF m.id = "SEND_SHOT_TIME" THEN {m.result} ELSE {})
        /\ Monies(w) = (IF m.id \in Introducing THEN {m.money} ELSE {})
        /\ Times(w) = (IF m.id \in Asking THEN {m.randomTime} ELSE {})
    BY <1>1, <1>2, MoreParts
  <1>4. QED
    BY <1>3 DEF w

\* A queue whose first packet is a result holds no other.
LEMMA OnlyResult ==
  ASSUME NEW q \in Seq(Packet), q # << >>, InOrder(q), Head(q).id = "SEND_SHOT_TIME"
  PROVE  Results(q) = {Head(q).result}
  <1> DEFINE x == Head(q)
  <1>1. /\ 1 \in DOMAIN q /\ x = q[1]
        /\ \A i \in DOMAIN q : i # 1 => 1 < i
    OBVIOUS
  <1> HIDE DEF x
  <1>2. \A i \in DOMAIN q : i # 1 => q[i].id # "SEND_SHOT_TIME"
    <2>1. ~Ahead("SEND_SHOT_TIME", "SEND_SHOT_TIME")
      BY DEF Ahead
    <2>2. q[1].id = "SEND_SHOT_TIME"
      BY <1>1 DEF x
    <2>3. QED
      BY <1>1, <2>1, <2>2 DEF InOrder
  <1>3. QED
    BY <1>1, <1>2 DEF Results, x

\* Where a step has led.
LEMMA MoneyThere ==
  ASSUME TypeOK', NEW p \in Phone, NEW f, NEW h, NEW U, NEW V, NEW R, NEW Q, NEW N, NEW L,
         ph'[p] = f, ph'[Other(p)] = h, Kinds(net'[p]) = U, Kinds(net'[Other(p)]) = V,
         Results(net'[p]) = R, Results(net'[Other(p)]) = Q,
         Monies(net'[p]) = N, Monies(net'[Other(p)]) = L,
         Purse(f, h, U, V, R, N), Purse(h, f, V, U, Q, L),
         Solvent /\ Balanced => Balance(f, h, U, V, R, Q)
  PROVE  MoneyKept
  <1> DEFINE o == Other(p)
  <1>1. o = Other(p)
    OBVIOUS
  <1>2. /\ Purse(ph'[p], ph'[o], Kinds(net'[p]), Kinds(net'[o]), Results(net'[p]), Monies(net'[p]))
        /\ Purse(ph'[o], ph'[p], Kinds(net'[o]), Kinds(net'[p]), Results(net'[o]), Monies(net'[o]))
    OBVIOUS
  <1>3. Solvent /\ Balanced =>
          Balance(ph'[p], ph'[o], Kinds(net'[p]), Kinds(net'[o]), Results(net'[p]), Results(net'[o]))
    OBVIOUS
  <1> HIDE DEF o
  <1>4. Purses'
    BY <1>1, <1>2, PursesThere
  <1>5. CASE Solvent /\ Balanced
    BY <1>1, <1>3, <1>4, <1>5, BalanceThere DEF MoneyKept
  <1>6. CASE ~(Solvent /\ Balanced)
    BY <1>4, <1>6 DEF MoneyKept
  <1>7. QED
    BY <1>5, <1>6

\* The first phone to settle a round.
LEMMA FirstMoney ==
  ASSUME TypeOK, TypeOK', MatchInv, Purses, NEW p \in Phone, FirstToSettle(p)
  PROVE  MoneyKept
  <1> DEFINE g == ph[p]
             h == ph[Other(p)]
             U == Kinds(net[p])
             V == Kinds(net[Other(p)])
             R == Results(net[p])
             Q == Results(net[Other(p)])
             N == Monies(net[p])
             L == Monies(net[Other(p)])
  <1>1. PICK r \in Result \ {"none"} : Acts(p, Settled(g, r), << ShotTime(Opposite(r)) >>)
    BY DEF FirstToSettle
  <1> DEFINE f == Settled(g, r)
             m == ShotTime(Opposite(r))
             q == net[p]
  <1>2. g.view = "duel" /\ g.open /\ h.view = "duel" /\ h.open /\ U = {}
    BY KindsOfOne DEF FirstToSettle, Playing
  <1>3. m \in Packet /\ m.id = "SEND_SHOT_TIME" /\ m.result = Opposite(r)
    <2>1. ShotTime(Opposite(r)).result = Opposite(r)
      BY DEF ShotTime, Plain
    <2>2. QED
      BY <2>1, PacketTypes, OppositeType, KindsOfOne
  <1>4. /\ g \in Local /\ h \in Local /\ U \in SUBSET PacketID /\ V \in SUBSET PacketID
        /\ R \in SUBSET Result /\ Q \in SUBSET Result /\ Match(g, h, U, V, R, Q) /\ Sound(g)
    BY MatchHere DEF Match
  <1>5. Purse(g, h, U, V, R, N) /\ Purse(h, g, V, U, Q, L) /\ (Balanced => Balance(g, h, U, V, R, Q))
    BY MoneyHere
  <1>6. f.open
    BY <1>2, <1>4, SettledPays
  <1>7. V \intersect Introducing = {} => L = {}
    BY NoParts
  <1>8. q \in Seq(Packet) /\ ph[p].open /\ ph' = [ph EXCEPT ![p] = f]
        /\ net' = Deliver([net EXCEPT ![p] = q], p, f, << m >>)
    BY <1>1, <1>2, PhoneType DEF Acts, TypeOK
  <1>9. g.money > 0 \/ ~Solvent
    BY DEF Solvent
  <1> HIDE DEF f, m, q
  <1> DEFINE ms == << m >>
  <1>10. ms = << >> \/ \E n \in Packet : ms = << n >>
    BY <1>3
  <1>11. Kinds(ms) = {"SEND_SHOT_TIME"} /\ Results(ms) = {Opposite(r)} /\ Monies(ms) = {}
    BY <1>3, SingleParts DEF Introducing
  <1> HIDE DEF ms
  <1>12. After(p, f, q, ms)
    BY <1>8, <1>10, StepParts DEF ms
  <1>13. /\ ph'[p] = f /\ ph'[Other(p)] = h /\ Kinds(net'[p]) = U
         /\ Kinds(net'[Other(p)]) = V \union {"SEND_SHOT_TIME"}
         /\ Results(net'[p]) = R /\ Results(net'[Other(p)]) = Q \union {Opposite(r)}
         /\ Monies(net'[p]) = N /\ Monies(net'[Other(p)]) = L
    BY <1>2, <1>6, <1>11, <1>12 DEF After, q
  <1> DEFINE W == V \union {"SEND_SHOT_TIME"}
             Q2 == Q \union {Opposite(r)}
  <1>14. f = Settled(g, r)
    BY DEF f
  <1> HIDE DEF g, h, U, V, R, Q, N, L
  <1>15. /\ Purse(f, h, U, W, R, N) /\ Purse(h, f, W, U, Q2, L)
         /\ g.money > 0 /\ Balance(g, h, U, V, R, Q) => Balance(f, h, U, W, R, Q2)
    BY <1>2, <1>4, <1>5, <1>7, <1>14, FirstToSettlePays
  <1> HIDE DEF W, Q2
  <1>16. Solvent /\ Balanced => Balance(f, h, U, W, R, Q2)
    BY <1>5, <1>9, <1>15
  <1>17. QED
    BY <1>13, <1>15, <1>16, MoneyThere DEF W, Q2

\* The other one, and the one to whom the other's flight is told.
LEMMA ResultsMoney ==
  ASSUME TypeOK, TypeOK', MatchInv, Purses, NEW p \in Phone, ReceiveShotTime(p) \/ ReceiveRunAway(p)
  PROVE  MoneyKept
  <1> DEFINE g == ph[p]
             h == ph[Other(p)]
             U == Kinds(net[p])
             V == Kinds(net[Other(p)])
             R == Results(net[p])
             Q == Results(net[Other(p)])
             N == Monies(net[p])
             L == Monies(net[Other(p)])
             r == Head(net[p]).result
             q == Tail(net[p])
  <1>1. /\ g \in Local /\ h \in Local /\ U \in SUBSET PacketID /\ V \in SUBSET PacketID
        /\ R \in SUBSET Result /\ Q \in SUBSET Result /\ Match(g, h, U, V, R, Q) /\ Sound(g)
        /\ net[p] \in Seq(Packet) /\ InOrder(net[p])
    BY MatchHere DEF Match
  <1>2. Purse(g, h, U, V, R, N) /\ Purse(h, g, V, U, Q, L) /\ (Balanced => Balance(g, h, U, V, R, Q))
    BY MoneyHere
  <1>3. /\ V \intersect Introducing = {} => L = {}
        /\ V = {} => L = {}
    BY NoParts
  <1>4. g.money > 0 \/ ~Solvent
    BY DEF Solvent
  <1>5. ASSUME NEW id, NEW f, Handles(p, id, f, << >>)
        PROVE  /\ After(p, f, q, << >>) /\ Monies(q) \subseteq N /\ Kinds(q) = U \ {id}
               /\ Results(q) = (IF id = "SEND_SHOT_TIME" THEN {} ELSE R)
               /\ First(id, U) /\ g.open /\ (id = "SEND_SHOT_TIME" => R = {r} /\ r \in Result)
    <2>1. /\ net[p] # << >> /\ Head(net[p]) \in Packet /\ g.open
          /\ First(id, U) /\ q \in Seq(Packet) /\ Kinds(q) = U \ {id}
          /\ Results(q) = (IF id = "SEND_SHOT_TIME" THEN {} ELSE R)
          /\ ph' = [ph EXCEPT ![p] = f] /\ net' = Deliver([net EXCEPT ![p] = q], p, f, << >>)
      BY <1>5, HeadFacts
    <2>2. Head(net[p]).id = id
      BY <1>5 DEF Handles
    <2>3. Monies(q) \subseteq N
      BY <1>1, <2>1, LessParts
    <2>4. id = "SEND_SHOT_TIME" => R = {r} /\ r \in Result
      BY <1>1, <2>1, <2>2, OnlyResult, PacketFields
    <2> DEFINE ms == << >>
    <2>5. /\ ms = << >> \/ \E m \in Packet : ms = << m >>
          /\ net' = Deliver([net EXCEPT ![p] = q], p, f, ms)
      BY <2>1
    <2> HIDE DEF ms, q
    <2>6. After(p, f, q, ms)
      BY <2>1, <2>5, StepParts
    <2>7. QED
      BY <2>1, <2>3, <2>4, <2>6 DEF ms
  <1>6. ASSUME NEW id, NEW f, Handles(p, id, f, << >>), f.open, NEW R2, NEW N2,
               R2 = Results(q), N2 = Monies(q),
               Purse(f, h, U \ {id}, V, R2, N2), Purse(h, f, V, U \ {id}, Q, L),
               g.money > 0 /\ Balance(g, h, U, V, R, Q) => Balance(f, h, U \ {id}, V, R2, Q)
        PROVE  MoneyKept
    <2> DEFINE U2 == U \ {id}
    <2>1. After(p, f, q, << >>) /\ Kinds(q) = U2
      BY <1>5, <1>6
    <2>2. Kinds(<< >>) = {} /\ Results(<< >>) = {} /\ Monies(<< >>) = {}
      BY NoParts
    <2>3. /\ ph'[p] = f /\ ph'[Other(p)] = h /\ Kinds(net'[p]) = U2 /\ Kinds(net'[Other(p)]) = V
          /\ Results(net'[p]) = R2 /\ Results(net'[Other(p)]) = Q
          /\ Monies(net'[p]) = N2 /\ Monies(net'[Other(p)]) = L
      BY <1>6, <2>1, <2>2 DEF After
    <2>4. Solvent /\ Balanced => Balance(f, h, U2, V, R2, Q)
      BY <1>2, <1>4, <1>6
    <2> HIDE DEF U2
    <2>5. Purse(f, h, U2, V, R2, N2) /\ Purse(h, f, V, U2, Q, L)
      BY <1>6 DEF U2
    <2> HIDE DEF g, h, U, V, R, Q, N, L, q, r
    <2>6. QED
      BY <2>3, <2>4, <2>5, MoneyThere DEF h, V, Q, L
  <1>7. CASE ReceiveShotTime(p)
    <2> DEFINE f == Settled(g, r)
               U2 == U \ {"SEND_SHOT_TIME"}
               N2 == Monies(q)
    <2>1. Handles(p, "SEND_SHOT_TIME", IF g.endDuel THEN g ELSE f, << >>)
      BY <1>7 DEF ReceiveShotTime
    <2>2. /\ First("SEND_SHOT_TIME", U) /\ g.open /\ R = {r} /\ r \in Result
          /\ N2 \subseteq N /\ Results(q) = {}
      BY <1>5, <2>1
    <2>3. ~g.endDuel
      BY <1>1, <2>2 DEF Match, Toward, Arriving, First, Sound, Screens
    <2>4. Handles(p, "SEND_SHOT_TIME", f, << >>)
      BY <2>1, <2>3
    <2>5. f = Settled(g, r)
      OBVIOUS
    <2>6. f.open
      <3>1. g.view = "duel" /\ r # "none"
        BY <1>1, <2>2 DEF Match, Toward, Arriving, First, Scored
      <3>2. QED
        BY <1>1, <2>2, <3>1, SettledPays
    <2> HIDE DEF f, g, h, U, V, R, Q, N, L, q, r, N2
    <2>7. /\ Purse(f, h, U2, V, {}, N2) /\ Purse(h, f, V, U2, Q, L)
          /\ g.money > 0 /\ Balance(g, h, U, V, R, Q) => Balance(f, h, U2, V, {}, Q)
      BY <1>1, <1>2, <1>3, <2>2, <2>5, ShotTimePays
    <2>8. QED
      BY <1>6, <2>2, <2>4, <2>6, <2>7 DEF N2
  <1>8. CASE ReceiveRunAway(p)
    <2> DEFINE f == LastScene(WinScene(g))
               U2 == U \ {"RUN_AWAY"}
               N2 == Monies(q)
    <2>1. Handles(p, "RUN_AWAY", IF g.hasFinal THEN f ELSE g, << >>)
      BY <1>8 DEF ReceiveRunAway
    <2>2. /\ First("RUN_AWAY", U) /\ g.open /\ N2 \subseteq N /\ Results(q) = R
      BY <1>5, <2>1
    <2>3. Undecided(g) /\ g.hasFinal
      <3>1. Arriving(g, h, U, V) /\ Screens(g)
        BY <1>1 DEF Match, Toward, Sound
      <3>2. "RUN_AWAY" \in U /\ "SEND_SHOT_TIME" \notin U
        BY <2>2 DEF First, Ahead
      <3>3. Undecided(g)
        BY <3>1, <3>2 DEF Arriving
      <3> QED BY <3>1, <3>3 DEF Screens, Undecided
    <2>4. Handles(p, "RUN_AWAY", f, << >>)
      BY <2>1, <2>3
    <2>5. f = LastScene(WinScene(g))
      OBVIOUS
    <2>6. f.open
      BY <1>1, <2>2, <2>3, RanAwayFacts DEF Kept, Undecided, Sound
    <2> HIDE DEF f, g, h, U, V, R, Q, N, L, q, r, N2
    <2>7. /\ Purse(f, h, U2, V, R, N2) /\ Purse(h, f, V, U2, Q, L)
          /\ Balance(g, h, U, V, R, Q) => Balance(f, h, U2, V, R, Q)
      BY <1>1, <1>2, <1>3, <2>2, <2>5, RanAwayPays
    <2>8. QED
      BY <1>6, <2>2, <2>4, <2>6, <2>7 DEF N2
  <1>9. QED
    BY <1>7, <1>8

\* One who runs away from a player who has not.
LEMMA RunAwayMoney ==
  ASSUME TypeOK, TypeOK', MatchInv, NoCrossing', Purses, NEW p \in Phone, RunAwayButton(p)
  PROVE  MoneyKept
  <1> DEFINE g == ph[p]
             h == ph[Other(p)]
             U == Kinds(net[p])
             V == Kinds(net[Other(p)])
             R == Results(net[p])
             Q == Results(net[Other(p)])
             N == Monies(net[p])
             L == Monies(net[Other(p)])
             f == [LastScene(LoseScene(g)) EXCEPT !.shot = FALSE, !.tally = NoRounds]
             m == Plain("RUN_AWAY")
             q == net[p]
             W == V \union (IF h.open THEN {"RUN_AWAY"} ELSE {})
  <1>1. /\ Acts(p, f, << m >>) /\ Undecided(g) /\ ~g.waiting /\ "RUN_AWAY" \notin U
    BY DEF RunAwayButton, NoCrossing, Without, UnderWay, Kinds, Undecided
  <1>2. m \in Packet /\ m.id = "RUN_AWAY"
    BY PacketTypes, KindsOfOne DEF PacketID
  <1>3. /\ g \in Local /\ h \in Local /\ U \in SUBSET PacketID /\ V \in SUBSET PacketID
        /\ R \in SUBSET Result /\ Q \in SUBSET Result /\ Match(g, h, U, V, R, Q) /\ Sound(g)
    BY MatchHere DEF Match
  <1>4. Purse(g, h, U, V, R, N) /\ Purse(h, g, V, U, Q, L) /\ (Balanced => Balance(g, h, U, V, R, Q))
    BY MoneyHere
  <1>5. V \intersect Introducing = {} => L = {}
    BY NoParts
  <1>6. g.money > 0 \/ ~Solvent
    BY DEF Solvent
  <1>o. g.open
    BY <1>1, <1>3 DEF Sound, Screens, Undecided
  <1>7. f.open
    BY <1>1, <1>3, <1>o, RunAwayFacts DEF Kept, Undecided, Sound
  <1>8. q \in Seq(Packet) /\ ph[p].open /\ ph' = [ph EXCEPT ![p] = f]
        /\ net' = Deliver([net EXCEPT ![p] = q], p, f, << m >>)
    BY <1>1, <1>o, PhoneType DEF Acts, TypeOK
  <1>9. f = Fled(g)
    BY DEF Fled
  <1> HIDE DEF f, m, q
  <1> DEFINE ms == << m >>
  <1>10. ms = << >> \/ \E n \in Packet : ms = << n >>
    BY <1>2
  <1>11. Kinds(ms) = {"RUN_AWAY"} /\ Results(ms) = {} /\ Monies(ms) = {}
    BY <1>2, SingleParts DEF Introducing
  <1> HIDE DEF ms
  <1>12. After(p, f, q, ms)
    BY <1>8, <1>10, StepParts DEF ms
  <1>13. /\ ph'[p] = f /\ ph'[Other(p)] = h /\ Kinds(net'[p]) = U /\ Kinds(net'[Other(p)]) = W
         /\ Results(net'[p]) = R /\ Results(net'[Other(p)]) = Q
         /\ Monies(net'[p]) = N /\ Monies(net'[Other(p)]) = L
    BY <1>7, <1>11, <1>12 DEF After, q
  <1>14. W = V \union (IF h.open THEN {"RUN_AWAY"} ELSE {})
    OBVIOUS
  <1> HIDE DEF g, h, U, V, R, Q, N, L, W
  <1>15. /\ Purse(f, h, U, W, R, N) /\ Purse(h, f, W, U, Q, L)
         /\ g.money > 0 /\ Balance(g, h, U, V, R, Q) => Balance(f, h, U, W, R, Q)
    BY <1>1, <1>3, <1>4, <1>5, <1>9, <1>14, RunAwayPays
  <1>16. Solvent /\ Balanced => Balance(f, h, U, W, R, Q)
    BY <1>4, <1>6, <1>15
  <1>17. QED
    BY <1>13, <1>15, <1>16, MoneyThere DEF h

\* A round in which nobody hit.
LEMMA NobodyMoney ==
  ASSUME TypeOK, TypeOK', MatchInv, Purses, NEW p \in Phone, NobodyShot
  PROVE  MoneyKept
  <1> DEFINE g == ph[p]
             h == ph[Other(p)]
             U == Kinds(net[p])
             V == Kinds(net[Other(p)])
             R == Results(net[p])
             Q == Results(net[Other(p)])
             N == Monies(net[p])
             L == Monies(net[Other(p)])
             f == [NewFinal(g, "even") EXCEPT !.btnStartClick = FALSE]
             e == [NewFinal(h, "even") EXCEPT !.btnStartClick = FALSE]
  <1>1. /\ g.view = "duel" /\ g.open /\ h.view = "duel" /\ h.open /\ net' = net
        /\ net[p] = << >> /\ net[Other(p)] = << >> /\ ph'[p] = f /\ ph'[Other(p)] = e
    BY PhoneFacts DEF NobodyShot, Playing
  <1>2. U = {} /\ V = {} /\ R = {} /\ Q = {} /\ N = {} /\ L = {}
    BY <1>1, NoParts
  <1>3. g \in Local /\ h \in Local /\ Sound(g) /\ Sound(h)
    BY MatchHere DEF Match
  <1>4. Purse(g, h, U, V, R, N) /\ Purse(h, g, V, U, Q, L) /\ (Balanced => Balance(g, h, U, V, R, Q))
    BY MoneyHere
  <1>5. /\ f.money = g.money /\ f.opMoney = g.opMoney /\ f.open /\ f.won = 0
        /\ e.money = h.money /\ e.opMoney = h.opMoney /\ e.open /\ e.won = 0
    BY <1>1, <1>3, EvenPays
  <1>6. /\ ph'[p] = f /\ ph'[Other(p)] = e /\ Kinds(net'[p]) = U /\ Kinds(net'[Other(p)]) = V
        /\ Results(net'[p]) = R /\ Results(net'[Other(p)]) = Q
        /\ Monies(net'[p]) = N /\ Monies(net'[Other(p)]) = L
    BY <1>1
  <1> HIDE DEF f, e, g, h, U, V, R, Q, N, L
  <1>7. ~Owed(g, U, R) /\ ~Owes(g, R) /\ ~Owed(h, V, Q) /\ ~Owes(h, Q)
    BY <1>2 DEF Owed, Owes
  <1>8. ~Owed(f, U, R) /\ ~Owes(f, R) /\ ~Owed(e, V, Q) /\ ~Owes(e, Q)
    BY <1>2 DEF Owed, Owes
  <1>9. g.opMoney = h.money /\ h.opMoney = g.money
    BY <1>1, <1>2, <1>4, <1>7 DEF Purse, Knows, Level
  <1>10. Purse(f, e, U, V, R, N) /\ Purse(e, f, V, U, Q, L)
    BY <1>2, <1>5, <1>9 DEF Purse, Knows, Told
  <1>11. Solvent /\ Balanced => Balance(f, e, U, V, R, Q)
    <2>1. ~CutOff(g) /\ ~CutOff(h)
      BY <1>1 DEF CutOff
    <2>2. Due(g, U, R) = 0 /\ Due(h, V, Q) = 0 /\ Due(f, U, R) = 0 /\ Due(e, V, Q) = 0
      BY <1>7, <1>8 DEF Due
    <2>3. QED
      BY <1>4, <1>5, <2>1, <2>2 DEF Balance
  <1>12. QED
    BY <1>6, <1>10, <1>11, MoneyThere

-----------------------------------------------------------------------------
(***************************************************************************)
(* Every step keeps the players' money.                                    *)
(***************************************************************************)

\* Every step of a match keeps the players' purses.
LEMMA NextMoney ==
  ASSUME TypeOK, TypeOK', MatchInv, NoCrossing', Purses, [Next]_vars
  PROVE  MoneyKept
  <1>1. CASE Next
    <2>1. PICK p \in Phone : Player(p) \/ Round(p) \/ Receive(p) \/ WaitTimer(p) \/ LinkLost(p)
      BY <1>1 DEF Next
    <2>2. CASE Player(p)
      <3>1. StartButton(p) \/ CancelButton(p) \/ NextButton(p) \/ BackButton(p)
              \/ DuelBackButton(p) => MoneyKept
        BY ButtonsPlain, PlainMoney
      <3>2. RunAwayButton(p) => MoneyKept
        BY RunAwayMoney
      <3>3. TryButton(p) => MoneyKept
        BY TryMoney
      <3>4. QED
        BY <2>2, <3>1, <3>2, <3>3 DEF Player
    <2>3. CASE Round(p)
      <3>1. FirstToSettle(p) => MoneyKept
        BY FirstMoney
      <3>2. Hit(p) => MoneyKept
        BY TimersPlain, PlainMoney
      <3>3. NobodyShot => MoneyKept
        BY NobodyMoney
      <3>4. ~LimitAlone(p)
        BY DEF LimitAlone, NoCrossing, Without
      <3>5. ClockStarts(p) => MoneyKept
        BY DEF ClockStarts, MoneyKept, Purses, Balanced
      <3>6. QED
        BY <2>3, <3>1, <3>2, <3>3, <3>4, <3>5 DEF Round
    <2>4. CASE Receive(p)
      <3>1. ReceiveStartDuel(p) \/ ReceiveStartDuelTrue(p) \/ ReceiveStartDuelFalse(p)
              \/ ReceiveDuelCansel(p) => MoneyKept
        BY PacketsPlain, PlainMoney
      <3>2. ReceiveTime(p) \/ ReceiveResponse(p) \/ ReceiveTimeTry(p) \/ ReceiveResponseTry(p)
              => MoneyKept
        BY ReceivesMoney
      <3>3. ReceiveShotTime(p) \/ ReceiveRunAway(p) => MoneyKept
        BY ResultsMoney
      <3>4. QED
        BY <2>4, <3>1, <3>2, <3>3 DEF Receive
    <2>5. CASE WaitTimer(p) \/ LinkLost(p)
      BY <2>5, TimersPlain, PlainMoney
    <2>6. QED
      BY <2>1, <2>2, <2>3, <2>4, <2>5
  <1>2. CASE UNCHANGED vars
    BY <1>2 DEF vars, MoneyKept, Purses, Balanced
  <1>3. QED
    BY <1>1, <1>2

\* What the two phones are when a match begins.
LEMMA Beginning ==
  ASSUME Init
  PROVE  LET g == ph[0]
             h == ph[1]
         IN  /\ g.view = "list" /\ g.open /\ ~g.lastDuel /\ ~g.tried /\ g.won = 0
             /\ h.view = "start" /\ h.open /\ ~h.lastDuel /\ ~h.tried /\ h.won = 0
             /\ g.money = Money /\ h.money = Money
             /\ Kinds(net[0]) = {"TIME"} /\ Results(net[0]) = {}
             /\ Monies(net[0]) = {Money} /\ Times(net[0]) = {h.randomTime}
             /\ Kinds(net[1]) = {} /\ Results(net[1]) = {} /\ Monies(net[1]) = {} /\ Times(net[1]) = {}
  <1>1. PICK t \in RandomTimes : Init!(t)
    BY DEF Init
  <1> DEFINE guest == [Idle EXCEPT !.view = "start", !.randomTime = t]
             m == Introduction("TIME", guest)
  <1>2. /\ ph = [p \in Phone |-> IF p = 0 THEN Idle ELSE guest]
        /\ net = [p \in Phone |-> IF p = 0 THEN << m >> ELSE << >>]
    BY <1>1
  <1>3. /\ guest.view = "start" /\ guest.open = TRUE /\ guest.lastDuel = FALSE /\ guest.tried = FALSE
        /\ guest.won = 0 /\ guest.money = Money /\ guest.randomTime = t
    BY DEF Idle
  <1>4. /\ Idle.view = "list" /\ Idle.open = TRUE /\ Idle.lastDuel = FALSE /\ Idle.tried = FALSE
        /\ Idle.won = 0 /\ Idle.money = Money
    BY DEF Idle
  <1>5. ph[0] = Idle /\ ph[1] = guest /\ net[0] = << m >> /\ net[1] = << >>
    BY <1>2, PhoneFacts
  <1> HIDE DEF guest
  <1>6. m \in Packet /\ m.id = "TIME" /\ m.money = Money /\ m.randomTime = t
    <2>1. m.id = "TIME" /\ m.money = guest.money /\ m.randomTime = guest.randomTime
      BY DEF Introduction, Plain
    <2>2. guest.money \in Int /\ guest.randomTime \in Nat
      BY <1>3, SessionAssumption
    <2>3. m \in Packet
      BY <2>2, IntroductionType DEF PacketID
    <2>4. QED
      BY <1>3, <2>1, <2>3
  <1> HIDE DEF m
  <1>7. /\ Kinds(net[0]) = {"TIME"} /\ Results(net[0]) = {}
        /\ Monies(net[0]) = {Money} /\ Times(net[0]) = {t}
    BY <1>5, <1>6, SingleParts DEF Introducing, Asking
  <1>8. Kinds(net[1]) = {} /\ Results(net[1]) = {} /\ Monies(net[1]) = {} /\ Times(net[1]) = {}
    BY <1>5, NoParts
  <1>9. QED
    BY <1>3, <1>4, <1>5, <1>7, <1>8

\* The purses when a match begins.
LEMMA InitMoney ==
  ASSUME Init
  PROVE  Purses /\ Balanced
  <1> DEFINE g == ph[0]
             h == ph[1]
             U == Kinds(net[0])
             V == Kinds(net[1])
             R == Results(net[0])
             Q == Results(net[1])
             N == Monies(net[0])
             L == Monies(net[1])
  <1>1. /\ g.view = "list" /\ ~g.lastDuel /\ g.money = Money /\ g.won = 0
        /\ h.view = "start" /\ h.money = Money /\ h.won = 0
        /\ U = {"TIME"} /\ V = {} /\ R = {} /\ Q = {} /\ N = {Money} /\ L = {}
    BY Beginning
  <1>2. Other(0) = 1 /\ Other(1) = 0
    BY PhoneFacts DEF Phone
  <1>3. \A p \in Phone : p = 0 \/ p = 1
    BY DEF Phone
  <1> HIDE DEF g, h, U, V, R, Q, N, L
  <1>4. Purse(g, h, U, V, R, N) /\ Purse(h, g, V, U, Q, L)
    BY <1>1 DEF Purse, Told, Knows, Level, Undecided
  <1>5. Due(g, U, R) = 0 /\ Due(h, V, Q) = 0
    BY <1>1 DEF Due, Owed, Owes
  <1>6. Balance(g, h, U, V, R, Q) /\ Balance(h, g, V, U, Q, R)
    BY <1>1, <1>5, SessionAssumption DEF Balance
  <1>7. QED
    BY <1>2, <1>3, <1>4, <1>6 DEF Purses, Balanced, g, h, U, V, R, Q, N, L

\* What the two players have adds up when nothing is due any more.
LEMMA BalanceMoves ==
  ASSUME TypeOK, NoCrossing => Balanced
  PROVE  MoneyMoves
  <1> SUFFICES ASSUME SettledAlike, NoCrossing PROVE ph[0].money + ph[1].money = 2 * Money
    BY DEF MoneyMoves, NoCrossing
  <1> DEFINE g == ph[0]
             h == ph[1]
             U == Kinds(net[0])
             V == Kinds(net[1])
             R == Results(net[0])
             Q == Results(net[1])
  <1>1. Other(0) = 1 /\ Other(1) = 0 /\ 0 \in Phone /\ 1 \in Phone
    BY PhoneFacts DEF Phone
  <1>2. Balance(g, h, U, V, R, Q)
    BY <1>1 DEF Balanced
  <1>3. U = {} /\ V = {} /\ R = {} /\ Q = {}
    BY <1>1, NoParts DEF SettledAlike, Quiet
  <1>4. /\ g.won = h.lost /\ h.won = g.lost
        /\ (g.open /\ h.open) \/ g.won > 0 \/ h.won > 0
    BY <1>1 DEF SettledAlike, Phone
  <1>5. g \in Local /\ h \in Local
    BY <1>1 DEF TypeOK
  <1> HIDE DEF g, h, U, V, R, Q
  <1>6. ~CutOff(g) /\ ~CutOff(h)
    BY <1>4 DEF CutOff
  <1>7. Due(g, U, R) = 0 /\ Due(h, V, Q) = 0
    BY <1>3 DEF Due, Owed, Owes
  <1>8. g.money \in Int /\ h.money \in Int
    BY <1>5, FieldTypes
  <1>9. QED
    BY <1>2, <1>6, <1>7, <1>8 DEF Balance, g, h

\* What a phone has been told of the other's money is true, and what it shows during
\* a duel is what the other one owns (opponentAccount in receiveData and in
\* FinalViewController's win and lose scenes).
THEOREM PursesInvariant == Spec => []PursesHold
  <1>1. Init => PursesHold
    BY InitMoney DEF PursesHold
  <1>2. ASSUME TypeOK, TypeOK', MatchHolds, PursesHold, [Next]_vars
        PROVE  PursesHold'
    <2>1. ASSUME NoCrossing' PROVE Purses'
      <3>1. MatchInv /\ Purses
        BY <1>2, <2>1, CrossingsStay DEF MatchHolds, PursesHold
      <3>2. QED
        BY <1>2, <2>1, <3>1, NextMoney DEF MoneyKept
    <2>2. QED
      BY <2>1 DEF PursesHold
  <1>3. QED
    BY <1>1, <1>2, SessionTypeCorrect, MatchInvariant, PTL DEF Spec

\* As long as nobody is left without money, none is made and none is lost in a match,
\* whatever each player owns and however often they play again: what has been won on
\* one phone has been lost on the other, or will be when it is told
\* (FinalViewController's win and lose scenes, and playerAccount.money).
THEOREM MoneyMovesHolds == Spec /\ []Solvent => []MoneyMoves
  <1> DEFINE Conserved == NoCrossing => Balanced
  <1>1. Init => Conserved
    BY InitMoney
  <1>2. ASSUME TypeOK, TypeOK', MatchHolds, PursesHold, Solvent, Conserved, [Next]_vars
        PROVE  Conserved'
    <2>1. ASSUME NoCrossing' PROVE Balanced'
      <3>1. MatchInv /\ Purses /\ Balanced
        BY <1>2, <2>1, CrossingsStay DEF MatchHolds, PursesHold
      <3>2. QED
        BY <1>2, <2>1, <3>1, NextMoney DEF MoneyKept
    <2>2. QED
      BY <2>1
  <1>3. TypeOK /\ Conserved => MoneyMoves
    BY BalanceMoves
  <1> HIDE DEF Conserved
  <1>4. QED
    BY <1>1, <1>2, <1>3, SessionTypeCorrect, MatchInvariant, PursesInvariant, PTL DEF Spec

-----------------------------------------------------------------------------
(***************************************************************************)
(* The delay: a step that concerns neither the delay nor who has asked for *)
(* another duel keeps the two phones alike.                                *)
(***************************************************************************)

\* A step that concerns neither the round's delay nor who has asked for another duel.
Steady(f, g, U, U2, V, W, T, T2, L, L2) ==
  /\ f.randomTime = g.randomTime /\ f.tried = g.tried
  /\ (Level(f) => Level(g) /\ f.open) /\ (f.view = "start" => g.view = "start")
  /\ U2 \subseteq U /\ (f.open => U \intersect Asking \subseteq U2)
  /\ W \intersect Introducing = V \intersect Introducing
  /\ T2 \subseteq T /\ L2 \subseteq L

\* Whoever plays on has been asked for nothing, if the other one plays on too or has
\* asked.
LEMMA NotAsked ==
  ASSUME NEW g, NEW h, NEW U, NEW V, NEW R, NEW Q, Match(g, h, U, V, R, Q), NEW T, Alike(g, h, U, V, T),
         Level(h), g.tried
  PROVE  U \intersect Asking = {}
  <1>1. /\ Arriving(g, h, U, V) /\ Screens(h) /\ Together(g, h, U, V) /\ (g.open \/ U = {})
    BY DEF Match, Sound, Toward
  <1>2. h.open
    BY <1>1 DEF Screens, Level, Undecided
  <1>3. "TIME_TRY" \notin U
    BY <1>1, <1>2 DEF Arriving, Alike, Level, Undecided
  <1>4. "TIME" \notin U
    BY <1>1, <1>2 DEF Arriving, Together, Level, Undecided
  <1>5. QED
    BY <1>3, <1>4 DEF Asking

\* Such a step keeps the two phones alike.
LEMMA SteadyAlike ==
  ASSUME NEW g, NEW h, NEW U, NEW V, NEW R, NEW Q, Match(g, h, U, V, R, Q),
         NEW T, NEW L, Alike(g, h, U, V, T), Alike(h, g, V, U, L),
         NEW f, NEW U2, NEW W, NEW T2, NEW L2, Steady(f, g, U, U2, V, W, T, T2, L, L2)
  PROVE  Alike(f, h, U2, W, T2) /\ Alike(h, f, W, U2, L2)
  <1>1. /\ f.randomTime = g.randomTime /\ f.tried = g.tried
        /\ (Level(f) => Level(g) /\ f.open) /\ (f.view = "start" => g.view = "start")
        /\ U2 \subseteq U /\ (f.open => U \intersect Asking \subseteq U2)
        /\ T2 \subseteq T /\ L2 \subseteq L
        /\ ("TIME" \in W <=> "TIME" \in V) /\ ("TIME_TRY" \in W <=> "TIME_TRY" \in V)
        /\ ("OPONTYPE_RESPONSE_TRY" \in W <=> "OPONTYPE_RESPONSE_TRY" \in V)
    BY DEF Steady, Introducing
  <1>2. W \intersect Asking = V \intersect Asking
    BY <1>1 DEF Asking
  <1>3. ASSUME Level(h), Level(f) \/ f.tried, (U2 \union W) \intersect Asking = {}
        PROVE  f.randomTime = h.randomTime
    <2>1. U \intersect Asking = {}
      BY <1>1, <1>3, NotAsked
    <2>2. Level(g) \/ g.tried
      BY <1>1, <1>3
    <2>3. (U \union V) \intersect Asking = {}
      BY <1>2, <1>3, <2>1
    <2>4. QED
      BY <1>1, <1>3, <2>2, <2>3 DEF Alike
  <1>4. Alike(f, h, U2, W, T2)
    BY <1>1, <1>3 DEF Alike
  <1>5. ASSUME Level(f), Level(h) \/ h.tried, (W \union U2) \intersect Asking = {}
        PROVE  h.randomTime = f.randomTime
    <2>1. Level(g) /\ (V \union U) \intersect Asking = {}
      BY <1>1, <1>2, <1>5
    <2>2. QED
      BY <1>1, <1>5, <2>1 DEF Alike
  <1>6. Alike(h, f, W, U2, L2)
    BY <1>1, <1>5 DEF Alike
  <1>7. QED
    BY <1>4, <1>6

\* The delays as phone p and the other one see them, before a step and after it.
LEMMA AlikeHere ==
  ASSUME AllAlike, NEW p \in Phone
  PROVE  LET o == Other(p) IN
         /\ Alike(ph[p], ph[o], Kinds(net[p]), Kinds(net[o]), Times(net[p]))
         /\ Alike(ph[o], ph[p], Kinds(net[o]), Kinds(net[p]), Times(net[o]))
  <1>1. Other(p) \in Phone /\ Other(Other(p)) = p
    BY PhoneFacts
  <1>2. QED
    BY <1>1 DEF AllAlike

\* What both phones say of the delay after a step, from what each says.
LEMMA AlikeThere ==
  ASSUME NEW p \in Phone, NEW f, NEW h, NEW U, NEW V, NEW T, NEW L,
         ph'[p] = f, ph'[Other(p)] = h, Kinds(net'[p]) = U, Kinds(net'[Other(p)]) = V,
         Times(net'[p]) = T, Times(net'[Other(p)]) = L,
         Alike(f, h, U, V, T), Alike(h, f, V, U, L)
  PROVE  AllAlike'
  <1>1. \A q \in Phone : q = p \/ q = Other(p)
    BY PhoneFacts
  <1>2. Other(Other(p)) = p
    BY PhoneFacts
  <1>3. QED
    BY <1>1, <1>2 DEF AllAlike

\* A phone that is steady, and sends nothing about a new duel.
Stays(f, g) ==
  /\ f.randomTime = g.randomTime /\ f.tried = g.tried
  /\ (Level(f) => Level(g) /\ f.open) /\ (f.view = "start" => g.view = "start")

\* A step of a phone that stays as it is keeps the delays alike.
LEMMA SteadyStep ==
  ASSUME TypeOK, MatchInv, AllAlike, NEW p \in Phone, NEW f, NEW q, NEW ms, After(p, f, q, ms),
         Stays(f, ph[p]), Kinds(q) \subseteq Kinds(net[p]), Times(q) \subseteq Times(net[p]),
         Kinds(net[p]) \intersect Asking \subseteq Kinds(q),
         Kinds(ms) \intersect Introducing = {}, Times(ms) = {}
  PROVE  AllAlike'
  <1> DEFINE g == ph[p]
             h == ph[Other(p)]
             U == Kinds(net[p])
             V == Kinds(net[Other(p)])
             R == Results(net[p])
             Q == Results(net[Other(p)])
             T == Times(net[p])
             L == Times(net[Other(p)])
             U2 == Kinds(net'[p])
             W == Kinds(net'[Other(p)])
             T2 == Times(net'[p])
             L2 == Times(net'[Other(p)])
  <1>1. ph'[p] = f /\ ph'[Other(p)] = h
    BY DEF After
  <1>2. U2 = (IF f.open THEN Kinds(q) ELSE {}) /\ T2 = (IF f.open THEN Times(q) ELSE {})
    BY DEF After
  <1>3. W = V \union (IF h.open THEN Kinds(ms) ELSE {}) /\ L2 = L \union (IF h.open THEN {} ELSE {})
    BY DEF After
  <1>4. Match(g, h, U, V, R, Q)
    BY MatchHere
  <1>5. Alike(g, h, U, V, T) /\ Alike(h, g, V, U, L)
    BY AlikeHere
  <1>6. Stays(f, g) /\ Kinds(q) \subseteq U /\ Times(q) \subseteq T /\ U \intersect Asking \subseteq Kinds(q)
    OBVIOUS
  <1>7. /\ ph'[p] = f /\ ph'[Other(p)] = h /\ Kinds(net'[p]) = U2 /\ Kinds(net'[Other(p)]) = W
        /\ Times(net'[p]) = T2 /\ Times(net'[Other(p)]) = L2
    BY <1>1
  <1> HIDE DEF g, h, U, V, R, Q, T, L, U2, W, T2, L2
  <1>8. Steady(f, g, U, U2, V, W, T, T2, L, L2)
    BY <1>2, <1>3, <1>6 DEF Steady, Stays
  <1>9. Alike(f, h, U2, W, T2) /\ Alike(h, f, W, U2, L2)
    BY <1>4, <1>5, <1>8, SteadyAlike
  <1>10. QED
    BY <1>7, <1>9, AlikeThere

\* The buttons, the timers and the packets that are steady.
LEMMA ActedSteadily ==
  ASSUME TypeOK, MatchInv, AllAlike, NEW p \in Phone, NEW f, NEW ms, Acts(p, f, ms),
         ph[p].open \/ ms = << >>,
         Stays(f, ph[p]), ms = << >> \/ \E m \in Packet : ms = << m >>,
         Kinds(ms) \intersect Introducing = {}, Times(ms) = {}
  PROVE  AllAlike'
  <1> DEFINE q == net[p]
  <1>1. q \in Seq(Packet) /\ ph' = [ph EXCEPT ![p] = f]
        /\ net' = Deliver([net EXCEPT ![p] = q], p, f, ms)
    BY PhoneType DEF Acts, TypeOK
  <1>2. /\ Kinds(q) \subseteq Kinds(net[p]) /\ Times(q) \subseteq Times(net[p])
        /\ Kinds(net[p]) \intersect Asking \subseteq Kinds(q)
    OBVIOUS
  <1> HIDE DEF q
  <1>3. After(p, f, q, ms)
    BY <1>1, StepParts
  <1>4. QED
    BY <1>2, <1>3, SteadyStep

\* So does one caused by a packet that asks for nothing.
LEMMA HandledSteadily ==
  ASSUME TypeOK, MatchInv, AllAlike, NEW p \in Phone, NEW id, NEW f, NEW ms, Handles(p, id, f, ms),
         id \notin Asking, Stays(f, ph[p]), ms = << >> \/ \E m \in Packet : ms = << m >>,
         Kinds(ms) \intersect Introducing = {}, Times(ms) = {}
  PROVE  AllAlike'
  <1> DEFINE q == Tail(net[p])
  <1>1. /\ q \in Seq(Packet) /\ Kinds(q) = Kinds(net[p]) \ {id} /\ net[p] # << >>
        /\ ph[p].open /\ ph' = [ph EXCEPT ![p] = f] /\ net' = Deliver([net EXCEPT ![p] = q], p, f, ms)
    BY HeadFacts
  <1>2. Times(q) \subseteq Times(net[p])
    BY <1>1, PhoneType, LessParts
  <1> HIDE DEF q
  <1>3. After(p, f, q, ms)
    BY <1>1, StepParts
  <1>4. QED
    BY <1>1, <1>2, <1>3, SteadyStep

\* The steps that leave the money alone are steady.
LEMMA PlainAlike ==
  ASSUME TypeOK, MatchInv, AllAlike, NEW p \in Phone, PlainlyMoves(p)
  PROVE  AllAlike'
  <1>1. PICK f, ms : /\ PlainStep(f, ph[p]) /\ Mute(ms)
                     /\ \/ Acts(p, f, ms) /\ (ph[p].open \/ ms = << >>)
                        \/ \E id \in Later : Handles(p, id, f, ms)
    BY DEF PlainlyMoves
  <1>2. Stays(f, ph[p])
    BY <1>1 DEF PlainStep, SamePurse, Stays
  <1>3. Times(ms) = {} /\ Kinds(ms) \intersect Introducing = {} /\ (ms = << >> \/ \E m \in Packet : ms = << m >>)
    <2>1. Times(ms) = {} /\ Kinds(ms) \subseteq Later /\ Mild(ph[p], ms)
      BY <1>1, MuteParts
    <2>2. QED
      BY <2>1 DEF Later, Introducing, Mild
  <1>4. \A id \in Later : id \notin Asking
    BY DEF Later, Asking
  <1>5. QED
    BY <1>1, <1>2, <1>3, <1>4, ActedSteadily, HandledSteadily

\* The end of a round is steady.
LEMMA ResultsAlike ==
  ASSUME TypeOK, MatchInv, NoCrossing', AllAlike, NEW p \in Phone,
         \/ FirstToSettle(p) \/ ReceiveShotTime(p) \/ ReceiveRunAway(p) \/ RunAwayButton(p)
         \/ ReceiveResponse(p)
  PROVE  AllAlike'
  <1> DEFINE g == ph[p]
             h == ph[Other(p)]
             U == Kinds(net[p])
             V == Kinds(net[Other(p)])
             R == Results(net[p])
             r == Head(net[p]).result
  <1>1. /\ g \in Local /\ U \in SUBSET PacketID /\ R \in SUBSET Result
        /\ Sound(g) /\ Toward(g, h, U, V, R)
    BY MatchHere DEF Match
  <1>2. ASSUME NEW id, NEW f, NEW ms, Handles(p, id, f, ms)
        PROVE  g.open /\ First(id, U) /\ (id = "SEND_SHOT_TIME" => r \in R)
    BY <1>2, Heard
  <1>3. Kinds(<< >>) = {} /\ Times(<< >>) = {}
    BY NoParts
  <1>4. ASSUME g.view = "duel", g.open, NEW s \in Result \ {"none"}
        PROVE  Stays(Settled(g, s), g)
    <2> DEFINE f == Settled(g, s)
    <2>1. f.open = g.open /\ f.view = "final" /\ f.tried = g.tried /\ f.randomTime = g.randomTime
      BY <1>1, <1>4, SettledPays
    <2> HIDE DEF f
    <2>2. Stays(f, g)
      BY <1>4, <2>1 DEF Stays, Level
    <2>3. QED
      BY <2>2 DEF f
  <1>5. CASE FirstToSettle(p)
    <2>1. PICK s \in Result \ {"none"} : Acts(p, Settled(g, s), << ShotTime(Opposite(s)) >>)
      BY <1>5 DEF FirstToSettle
    <2>2. g.view = "duel" /\ g.open
      BY <1>5 DEF FirstToSettle, Playing
    <2> DEFINE m == ShotTime(Opposite(s))
               f == Settled(g, s)
    <2>3. m \in Packet /\ m.id = "SEND_SHOT_TIME"
      BY PacketTypes, OppositeType, KindsOfOne
    <2>4. Stays(f, g)
      BY <1>4, <2>2
    <2> HIDE DEF m, f
    <2> DEFINE ms == << m >>
    <2>5. Kinds(ms) \intersect Introducing = {} /\ Times(ms) = {} /\ \E n \in Packet : ms = << n >>
      BY <2>3, SingleParts DEF Introducing, Asking
    <2>6. Acts(p, f, ms)
      BY <2>1 DEF f, m
    <2> HIDE DEF ms
    <2>7. QED
      BY <2>2, <2>4, <2>5, <2>6, ActedSteadily
  <1>6. CASE ReceiveShotTime(p)
    <2>1. Handles(p, "SEND_SHOT_TIME", IF g.endDuel THEN g ELSE Settled(g, r), << >>)
      BY <1>6 DEF ReceiveShotTime
    <2>2. First("SEND_SHOT_TIME", U) /\ g.open /\ r \in R
      BY <1>2, <2>1
    <2>3. ~g.endDuel /\ g.view = "duel" /\ r \in Result \ {"none"}
      BY <1>1, <2>2 DEF Toward, Arriving, First, Sound, Screens, Scored
    <2>4. Handles(p, "SEND_SHOT_TIME", Settled(g, r), << >>) /\ Stays(Settled(g, r), g)
      BY <1>4, <2>1, <2>2, <2>3
    <2>5. "SEND_SHOT_TIME" \notin Asking
      BY DEF Asking
    <2>6. QED
      BY <1>3, <2>4, <2>5, HandledSteadily
  <1>7. CASE ReceiveRunAway(p)
    <2> DEFINE f == LastScene(WinScene(g))
    <2>1. Handles(p, "RUN_AWAY", IF g.hasFinal THEN f ELSE g, << >>)
      BY <1>7 DEF ReceiveRunAway
    <2>2. First("RUN_AWAY", U) /\ g.open
      BY <1>2, <2>1
    <2>3. Undecided(g) /\ g.hasFinal
      BY <1>1, <2>2 DEF Toward, Arriving, First, Sound, Screens, Ahead, Undecided
    <2>4. Handles(p, "RUN_AWAY", f, << >>)
      BY <2>1, <2>3
    <2>5. f.view = "final" /\ f.lastDuel = TRUE /\ f.tried = g.tried
      BY <1>1, <2>3, RanAwayFacts DEF Kept, Undecided
    <2>6. f.randomTime = g.randomTime
      BY <1>1, ScenesPay DEF Sound, Books
    <2> HIDE DEF f
    <2>7. Stays(f, g) /\ "RUN_AWAY" \notin Asking
      BY <2>5, <2>6 DEF Stays, Level, Undecided, Asking
    <2>8. QED
      BY <1>3, <2>4, <2>7, HandledSteadily
  <1>8. CASE RunAwayButton(p)
    <2> DEFINE f == Fled(g)
               m == Plain("RUN_AWAY")
    <2>1. Acts(p, f, << m >>) /\ g.view = "final" /\ ~g.lastDuel /\ ~g.waiting
      BY <1>8 DEF RunAwayButton, Fled
    <2>2. m \in Packet /\ m.id = "RUN_AWAY"
      BY PacketTypes, KindsOfOne DEF PacketID
    <2>3. f.view = "final" /\ f.lastDuel = TRUE /\ f.tried = g.tried
      BY <1>1, <2>1, RunAwayFacts DEF Kept, Fled
    <2>4. f.randomTime = g.randomTime
      BY <1>1, ScreensPay DEF Sound, Books, Fled
    <2> HIDE DEF f, m
    <2> DEFINE ms == << m >>
    <2>5. Kinds(ms) \intersect Introducing = {} /\ Times(ms) = {} /\ \E n \in Packet : ms = << n >>
      BY <2>2, SingleParts DEF Introducing, Asking
    <2>6. Acts(p, f, ms)
      BY <2>1
    <2>7. Stays(f, g)
      BY <2>3, <2>4 DEF Stays, Level, Undecided
    <2> HIDE DEF ms
    <2>8. g.open
      BY <1>1, <2>1 DEF Sound, Screens
    <2>9. QED
      BY <2>5, <2>6, <2>7, <2>8, ActedSteadily
  <1>9. CASE ReceiveResponse(p)
    <2>1. PICK f :
             /\ Handles(p, "OPONTYPE_RESPONSE", f, << >>)
             /\ f.randomTime = g.randomTime /\ f.tried = g.tried /\ f.open = g.open
             /\ f.view = "start" /\ g.view = "start"
      BY <1>9, ResponseStep
    <2>2. g.open
      BY <1>2, <2>1
    <2>3. Stays(f, g) /\ "OPONTYPE_RESPONSE" \notin Asking
      BY <2>1, <2>2 DEF Stays, Level, Asking
    <2>4. QED
      BY <1>3, <2>1, <2>3, HandledSteadily
  <1>10. QED
    BY <1>5, <1>6, <1>7, <1>8, <1>9

\* A round in which nobody hit is steady on both phones.
LEMMA NobodyAlike ==
  ASSUME TypeOK, MatchInv, AllAlike, NEW p \in Phone, NobodyShot
  PROVE  AllAlike'
  <1> DEFINE g == ph[p]
             h == ph[Other(p)]
             U == Kinds(net[p])
             V == Kinds(net[Other(p)])
             T == Times(net[p])
             L == Times(net[Other(p)])
             f == [NewFinal(g, "even") EXCEPT !.btnStartClick = FALSE]
             e == [NewFinal(h, "even") EXCEPT !.btnStartClick = FALSE]
  <1>1. /\ g.view = "duel" /\ g.open /\ h.view = "duel" /\ h.open /\ net' = net
        /\ net[p] = << >> /\ net[Other(p)] = << >> /\ ph'[p] = f /\ ph'[Other(p)] = e
    BY PhoneFacts DEF NobodyShot, Playing
  <1>2. U = {} /\ V = {} /\ T = {} /\ L = {}
    BY <1>1, NoParts
  <1>3. g \in Local /\ h \in Local /\ Sound(g) /\ Sound(h)
    BY MatchHere DEF Match
  <1>4. Alike(g, h, U, V, T)
    BY AlikeHere
  <1>5. f.randomTime = g.randomTime /\ e.randomTime = h.randomTime
    BY <1>1, <1>3, EvenPays
  <1>6. /\ ph'[p] = f /\ ph'[Other(p)] = e /\ Kinds(net'[p]) = U /\ Kinds(net'[Other(p)]) = V
        /\ Times(net'[p]) = T /\ Times(net'[Other(p)]) = L
    BY <1>1
  <1> HIDE DEF f, e, g, h, U, V, T, L
  <1>7. g.randomTime = h.randomTime
    BY <1>1, <1>2, <1>4 DEF Alike, Level
  <1>8. Alike(f, e, U, V, T) /\ Alike(e, f, V, U, L)
    BY <1>2, <1>5, <1>7 DEF Alike
  <1>9. QED
    BY <1>6, <1>8, AlikeThere

\* What the packets that ask for a duel, and those that answer, leave under way.
LEMMA AskedParts ==
  ASSUME TypeOK, MatchInv, NEW p \in Phone, NEW id, id # "SEND_SHOT_TIME", NEW f \in Local, f.open,
         NEW i \in Introducing, Handles(p, id, f, << Introduction(i, f) >>)
  PROVE  LET o == Other(p) IN
         /\ ph'[p] = f /\ ph'[o] = ph[o]
         /\ Kinds(net'[p]) = Kinds(net[p]) \ {id} /\ Times(net'[p]) \subseteq Times(net[p])
         /\ Kinds(net'[o]) = Kinds(net[o]) \union (IF ph[o].open THEN {i} ELSE {})
         /\ i \notin Asking => Times(net'[o]) = Times(net[o])
  <1> DEFINE q == Tail(net[p])
             m == Introduction(i, f)
             ms == << m >>
  <1>1. Handles(p, id, f, ms)
    OBVIOUS
  <1>2. m \in Packet /\ m.id = i
    BY PacketTypes, KindsOfOne DEF Introducing, PacketID
  <1> HIDE DEF m
  <1>3. /\ ms = << >> \/ \E n \in Packet : ms = << n >>
        /\ Kinds(ms) = {i} /\ (i \notin Asking => Times(ms) = {})
    BY <1>2, SingleParts
  <1> HIDE DEF ms
  <1>4. /\ q \in Seq(Packet) /\ Kinds(q) = Kinds(net[p]) \ {id} /\ net[p] # << >>
        /\ ph[p].open /\ ph' = [ph EXCEPT ![p] = f] /\ net' = Deliver([net EXCEPT ![p] = q], p, f, ms)
    BY <1>1, HeadFacts
  <1>5. Times(q) \subseteq Times(net[p])
    BY <1>4, PhoneType, LessParts
  <1> HIDE DEF q
  <1>6. After(p, f, q, ms)
    BY <1>3, <1>4, StepParts
  <1>7. QED
    BY <1>3, <1>4, <1>5, <1>6 DEF After

-----------------------------------------------------------------------------
(***************************************************************************)
(* The steps by which one phone asks and the other takes its delay over.   *)
(***************************************************************************)

\* An asked phone takes the asking one's delay over.
LEMMA TimeAlike ==
  ASSUME TypeOK, MatchInv, AllAlike, NEW p \in Phone,
         ReceiveTime(p) \/ (ReceiveTimeTry(p) /\ ~ph[p].tried)
  PROVE  AllAlike'
  <1> DEFINE g == ph[p]
             h == ph[Other(p)]
             U == Kinds(net[p])
             V == Kinds(net[Other(p)])
             R == Results(net[p])
             T == Times(net[p])
             L == Times(net[Other(p)])
             m == Head(net[p])
             U2 == Kinds(net'[p])
             W == Kinds(net'[Other(p)])
             T2 == Times(net'[p])
  <1>1. /\ U \in SUBSET PacketID /\ Toward(g, h, U, V, R) /\ Arriving(g, h, U, V) /\ Arriving(h, g, V, U)
    BY MatchHere DEF Match, Toward
  <1>2. Alike(g, h, U, V, T)
    BY AlikeHere
  <1>3. "TIME" \notin V /\ "TIME_TRY" \notin V => L = {}
    BY NoParts
  <1>4. \A id, f, ms : Handles(p, id, f, ms) =>
           g.open /\ First(id, U) /\ (id \in Asking => m.randomTime \in T)
    BY Heard
  <1>5. PICK id \in Asking, i \in {"OPONTYPE_RESPONSE", "OPONTYPE_RESPONSE_TRY"}, f \in Local :
          /\ Handles(p, id, f, << Introduction(i, f) >>) /\ f.open = g.open
          /\ f.randomTime = m.randomTime /\ f.tried = g.tried
          /\ id = "TIME" => i = "OPONTYPE_RESPONSE"
          /\ id = "TIME_TRY" => ~g.tried
    <2>1. CASE ReceiveTime(p)
      BY <2>1, TimeStep DEF Asking
    <2>2. CASE ReceiveTimeTry(p) /\ ~g.tried
      BY <2>2, TimeTryStep DEF Asking
    <2>3. QED
      BY <2>1, <2>2
  <1>6. g.open /\ First(id, U) /\ m.randomTime \in T /\ id \in Introducing /\ i \in Introducing
        /\ id # "SEND_SHOT_TIME" /\ i \notin Asking
    BY <1>4, <1>5 DEF Asking, Introducing
  <1>7. /\ ph'[p] = f /\ ph'[Other(p)] = h /\ U2 = U \ {id} /\ T2 \subseteq T
        /\ W = V \union (IF h.open THEN {i} ELSE {}) /\ Times(net'[Other(p)]) = L
    BY <1>5, <1>6, AskedParts, ZenonT(60)
  <1>8. /\ Kinds(net'[p]) = U2 /\ Kinds(net'[Other(p)]) = W /\ Times(net'[p]) = T2
    OBVIOUS
  <1> HIDE DEF g, h, U, V, R, T, L, m, U2, W, T2
  <1>9. f.randomTime = h.randomTime
    BY <1>2, <1>5, <1>6 DEF Alike
  <1>10. "TIME" \notin V /\ "TIME_TRY" \notin V
    <2>1. id = "TIME" => V = {}
      BY <1>1, <1>6 DEF Arriving, First
    <2>2. "TIME" \in V => U = {}
      BY <1>1 DEF Arriving
    <2>3. "TIME_TRY" \in V => g.tried
      BY <1>1 DEF Arriving
    <2>4. QED
      BY <1>5, <1>6, <2>1, <2>2, <2>3 DEF First, Asking
  <1>11. "TIME_TRY" \notin U2
    <2>1. id = "TIME" => "TIME_TRY" \notin U
      BY <1>1, <1>6, Behind
    <2>2. QED
      BY <1>5, <1>7, <2>1 DEF Asking
  <1>12. "TIME_TRY" \notin W /\ L = {}
    BY <1>3, <1>5, <1>7, <1>10
  <1>13. Alike(f, h, U2, W, T2) /\ Alike(h, f, W, U2, L)
    BY <1>2, <1>7, <1>9, <1>11, <1>12 DEF Alike
  <1>14. QED
    BY <1>7, <1>8, <1>13, AlikeThere

\* A phone that has asked plays with the delay it has chosen.
LEMMA ResponseTryAlike ==
  ASSUME TypeOK, MatchInv, AllAlike, NEW p \in Phone, ReceiveResponseTry(p)
  PROVE  AllAlike'
  <1> DEFINE g == ph[p]
             h == ph[Other(p)]
             U == Kinds(net[p])
             V == Kinds(net[Other(p)])
             T == Times(net[p])
             L == Times(net[Other(p)])
             U2 == Kinds(net'[p])
             W == Kinds(net'[Other(p)])
             T2 == Times(net'[p])
             q == Tail(net[p])
  <1>1. Arriving(h, g, V, U)
    BY MatchHere DEF Match, Toward
  <1>2. Alike(g, h, U, V, T) /\ Alike(h, g, V, U, L)
    BY AlikeHere
  <1>3. PICK f : /\ Handles(p, "OPONTYPE_RESPONSE_TRY", f, << >>)
                 /\ f.randomTime = g.randomTime /\ ~f.tried /\ f.open = g.open
    BY ResponseTryStep
  <1> DEFINE ms == << >>
             id == "OPONTYPE_RESPONSE_TRY"
  <1>4. Handles(p, id, f, ms) /\ (ms = << >> \/ \E m \in Packet : ms = << m >>)
        /\ Kinds(ms) = {} /\ Times(ms) = {}
    BY <1>3, NoParts
  <1> HIDE DEF ms, id
  <1>5. /\ q \in Seq(Packet) /\ Kinds(q) = U \ {id} /\ net[p] # << >> /\ g.open /\ First(id, U)
        /\ ph' = [ph EXCEPT ![p] = f] /\ net' = Deliver([net EXCEPT ![p] = q], p, f, ms)
    BY <1>4, HeadFacts
  <1>6. Times(q) \subseteq T
    BY <1>5, PhoneType, LessParts
  <1> HIDE DEF q
  <1>7. After(p, f, q, ms)
    BY <1>4, <1>5, StepParts
  <1>8. /\ ph'[p] = f /\ ph'[Other(p)] = h /\ U2 = U \ {"OPONTYPE_RESPONSE_TRY"} /\ T2 \subseteq T
        /\ W = V /\ Times(net'[Other(p)]) = L
    BY <1>3, <1>4, <1>5, <1>6, <1>7 DEF After, id
  <1>9. /\ Kinds(net'[p]) = U2 /\ Kinds(net'[Other(p)]) = W /\ Times(net'[p]) = T2
    OBVIOUS
  <1> HIDE DEF g, h, U, V, T, L, U2, W, T2
  <1>10. "OPONTYPE_RESPONSE_TRY" \in U
    BY <1>5 DEF First, id
  <1>11. f.randomTime = h.randomTime /\ "TIME_TRY" \notin U2
    BY <1>2, <1>3, <1>8, <1>10 DEF Alike
  <1>12. "TIME_TRY" \notin W
    BY <1>1, <1>8, <1>10 DEF Arriving
  <1>13. Alike(f, h, U2, W, T2) /\ Alike(h, f, W, U2, L)
    BY <1>2, <1>3, <1>8, <1>11, <1>12 DEF Alike
  <1>14. QED
    BY <1>8, <1>9, <1>13, AlikeThere

\* A phone that asks chooses a new delay, and says so.
LEMMA TryAlike ==
  ASSUME TypeOK, TypeOK', MatchInv, AllAlike, Without({"twoTries"})', NEW p \in Phone, TryButton(p)
  PROVE  AllAlike'
  <1> DEFINE g == ph[p]
             h == ph[Other(p)]
             U == Kinds(net[p])
             V == Kinds(net[Other(p)])
             T == Times(net[p])
             L == Times(net[Other(p)])
             q == net[p]
             U2 == Kinds(net'[p])
             W == Kinds(net'[Other(p)])
             T2 == Times(net'[p])
             L2 == Times(net'[Other(p)])
  <1>1. /\ Arriving(g, h, U, V) /\ Arriving(h, g, V, U) /\ Screens(h)
    BY MatchHere DEF Match, Toward, Sound
  <1>2. Alike(g, h, U, V, T)
    BY AlikeHere
  <1>3. "TIME" \notin V /\ "TIME_TRY" \notin V => L = {}
    BY NoParts
  <1>4. PICK f \in Local :
             /\ Acts(p, f, << Introduction("TIME_TRY", f) >>)
             /\ f.tried /\ f.open = g.open /\ f.lastDuel = g.lastDuel /\ f.view = g.view
             /\ g.view = "final" /\ g.lastDuel /\ g.open /\ (g.tried => "twoTries" \in mishaps')
    BY TryStep
  <1>5. ~g.tried
    BY <1>4 DEF Without
  <1> DEFINE m == Introduction("TIME_TRY", f)
             ms == << m >>
  <1>6. q \in Seq(Packet) /\ ph[p].open /\ ph' = [ph EXCEPT ![p] = f]
        /\ net' = Deliver([net EXCEPT ![p] = q], p, f, ms)
    BY <1>4, PhoneType DEF Acts, TypeOK
  <1>7. m \in Packet /\ m.id = "TIME_TRY" /\ m.randomTime = f.randomTime
    <2>1. m.randomTime = f.randomTime
      BY DEF Introduction, Plain
    <2>2. QED
      BY <2>1, PacketTypes, KindsOfOne DEF PacketID
  <1> HIDE DEF m, q
  <1>8. /\ ms = << >> \/ \E n \in Packet : ms = << n >>
        /\ Kinds(ms) = {"TIME_TRY"} /\ Times(ms) = {f.randomTime}
    BY <1>7, SingleParts DEF Asking
  <1> HIDE DEF ms
  <1>9. After(p, f, q, ms)
    BY <1>6, <1>8, StepParts
  <1>10. /\ ph'[p] = f /\ ph'[Other(p)] = h /\ U2 = U /\ T2 = T
         /\ W = V \union (IF h.open THEN {"TIME_TRY"} ELSE {})
         /\ L2 = L \union (IF h.open THEN {f.randomTime} ELSE {})
    BY <1>4, <1>8, <1>9 DEF After, q
  <1>11. /\ Kinds(net'[p]) = U2 /\ Kinds(net'[Other(p)]) = W
         /\ Times(net'[p]) = T2 /\ Times(net'[Other(p)]) = L2
    OBVIOUS
  <1> HIDE DEF g, h, U, V, T, L, U2, W, T2, L2
  <1>12. "TIME" \notin V /\ "TIME_TRY" \notin V /\ "OPONTYPE_RESPONSE_TRY" \notin V
         /\ "OPONTYPE_RESPONSE_TRY" \notin U
    BY <1>1, <1>4, <1>5 DEF Arriving
  <1>13. L = {}
    BY <1>3, <1>12
  <1>14. ~h.open => ~Level(h)
    BY <1>1 DEF Screens, Level, Undecided
  <1>15. ~Level(f) /\ f.view # "start"
    BY <1>4 DEF Level, Undecided
  <1>16. Alike(f, h, U2, W, T2)
    <2>1. Level(h) => "TIME_TRY" \in W
      BY <1>10, <1>14
    <2>2. Level(h) => (U2 \union W) \intersect Asking # {}
      BY <2>1 DEF Asking
    <2>3. QED
      BY <1>2, <1>10, <1>12, <2>2 DEF Alike
  <1>17. Alike(h, f, W, U2, L2)
    BY <1>10, <1>12, <1>13, <1>15 DEF Alike
  <1>18. QED
    BY <1>10, <1>11, <1>16, <1>17, AlikeThere

\* Every step of a match keeps the two phones alike.
LEMMA NextAlike ==
  ASSUME TypeOK, TypeOK', MatchInv, NoCrossing', Without({"twoTries"})', AllAlike, [Next]_vars
  PROVE  AllAlike'
  <1>1. CASE Next
    <2>1. PICK p \in Phone : Player(p) \/ Round(p) \/ Receive(p) \/ WaitTimer(p) \/ LinkLost(p)
      BY <1>1 DEF Next
    <2>2. CASE Player(p)
      <3>1. StartButton(p) \/ CancelButton(p) \/ NextButton(p) \/ BackButton(p)
              \/ DuelBackButton(p) => AllAlike'
        BY ButtonsPlain, PlainAlike
      <3>2. RunAwayButton(p) => AllAlike'
        BY ResultsAlike
      <3>3. TryButton(p) => AllAlike'
        BY TryAlike
      <3>4. QED
        BY <2>2, <3>1, <3>2, <3>3 DEF Player
    <2>3. CASE Round(p)
      <3>1. FirstToSettle(p) => AllAlike'
        BY ResultsAlike
      <3>2. Hit(p) => AllAlike'
        BY TimersPlain, PlainAlike
      <3>3. NobodyShot => AllAlike'
        BY NobodyAlike
      <3>4. ~LimitAlone(p)
        BY DEF LimitAlone, NoCrossing, Without
      <3>5. ClockStarts(p) => AllAlike'
        BY DEF ClockStarts, AllAlike
      <3>6. QED
        BY <2>3, <3>1, <3>2, <3>3, <3>4, <3>5 DEF Round
    <2>4. CASE Receive(p)
      <3>1. ReceiveStartDuel(p) \/ ReceiveStartDuelTrue(p) \/ ReceiveStartDuelFalse(p)
              \/ ReceiveDuelCansel(p) => AllAlike'
        BY PacketsPlain, PlainAlike
      <3>2. ReceiveShotTime(p) \/ ReceiveRunAway(p) \/ ReceiveResponse(p) => AllAlike'
        BY ResultsAlike
      <3>3. ReceiveTime(p) => AllAlike'
        BY TimeAlike
      <3>4. ReceiveTimeTry(p) => AllAlike'
        <4>1. ReceiveTimeTry(p) => ~ph[p].tried
          BY DEF ReceiveTimeTry, Without
        <4>2. QED
          BY <4>1, TimeAlike
      <3>5. ReceiveResponseTry(p) => AllAlike'
        BY ResponseTryAlike
      <3>6. QED
        BY <2>4, <3>1, <3>2, <3>3, <3>4, <3>5 DEF Receive
    <2>5. CASE WaitTimer(p) \/ LinkLost(p)
      BY <2>5, TimersPlain, PlainAlike
    <2>6. QED
      BY <2>1, <2>2, <2>3, <2>4, <2>5
  <1>2. CASE UNCHANGED vars
    BY <1>2 DEF vars, AllAlike
  <1>3. QED
    BY <1>1, <1>2

\* When a match begins the guest's delay is on its way to the host.
LEMMA InitAlike ==
  ASSUME Init
  PROVE  AllAlike
  <1> DEFINE g == ph[0]
             h == ph[1]
             U == Kinds(net[0])
             V == Kinds(net[1])
             T == Times(net[0])
             L == Times(net[1])
  <1>1. /\ g.view = "list" /\ h.view = "start" /\ U = {"TIME"} /\ V = {} /\ T = {h.randomTime} /\ L = {}
    BY Beginning
  <1>2. Other(0) = 1 /\ Other(1) = 0
    BY PhoneFacts DEF Phone
  <1>3. \A p \in Phone : p = 0 \/ p = 1
    BY DEF Phone
  <1> HIDE DEF g, h, U, V, T, L
  <1>4. Alike(g, h, U, V, T) /\ Alike(h, g, V, U, L)
    BY <1>1 DEF Alike, Asking
  <1>5. QED
    BY <1>2, <1>3, <1>4 DEF AllAlike, g, h, U, V, T, L

\* Nor is a second request forgotten.
LEMMA TriesStay ==
  ASSUME [Next]_vars, Without({"twoTries"})'
  PROVE  Without({"twoTries"})
  <1>1. mishaps \subseteq mishaps'
    BY ZenonT(60) DEF Next, vars, Player, Round, Receive, StartButton, CancelButton, NextButton, RunAwayButton,
       BackButton, TryButton, DuelBackButton, ClockStarts, FirstToSettle, Hit, NobodyShot, LimitAlone, ReceiveTime,
       ReceiveResponse, ReceiveStartDuel, ReceiveStartDuelTrue, ReceiveStartDuelFalse,
       ReceiveShotTime, ReceiveRunAway, ReceiveTimeTry, ReceiveResponseTry, ReceiveDuelCansel,
       WaitTimer, LinkLost
  <1>2. QED
    BY <1>1, SMTT(60) DEF Without

\* The invariants say that a round begins alike on the two phones.
LEMMA MatchFair ==
  ASSUME TypeOK, MatchHolds, PursesHold, AlikeHolds
  PROVE  NoCrossing => FairRound
  <1> SUFFICES ASSUME NoCrossing, \A p \in Phone : ph[p].view = "duel" /\ ph[p].open,
                      Without({"twoTries", "lateStart"}), NEW p \in Phone
               PROVE  /\ ph[p].randomTime = ph[Other(p)].randomTime
                      /\ ph[p].tally.win = ph[Other(p)].tally.lose
                      /\ ~ph[p].endDuel
                      /\ ph[p].opMoney = ph[Other(p)].money
    BY DEF FairRound
  <1> DEFINE g == ph[p]
             h == ph[Other(p)]
             U == Kinds(net[p])
             V == Kinds(net[Other(p)])
             R == Results(net[p])
             Q == Results(net[Other(p)])
             N == Monies(net[p])
             T == Times(net[p])
  <1>1. MatchInv /\ Purses /\ AllAlike
    BY DEF MatchHolds, PursesHold, AlikeHolds, Without
  <1>2. Match(g, h, U, V, R, Q) /\ Purse(g, h, U, V, R, N) /\ Alike(g, h, U, V, T)
    BY <1>1, MatchHere, MoneyHere, AlikeHere
  <1>3. g.view = "duel" /\ g.open /\ h.view = "duel" /\ h.open
    BY PhoneFacts
  <1> HIDE DEF g, h, U, V, R, Q, N, T
  <1>4. /\ Arriving(g, h, U, V) /\ Arriving(h, g, V, U) /\ Screens(g) /\ Screens(h) /\ Scored(g, h, U, V, R)
    BY <1>2 DEF Match, Sound, Toward
  <1>5. Level(g) /\ Level(h) /\ ~g.tried /\ ~h.tried
    BY <1>3, <1>4 DEF Level, Screens
  <1>6. /\ "TIME" \notin U /\ "TIME" \notin V /\ "TIME_TRY" \notin U /\ "TIME_TRY" \notin V
        /\ "SEND_SHOT_TIME" \notin U /\ "SEND_SHOT_TIME" \notin V /\ "OPONTYPE_RESPONSE" \notin U
    BY <1>3, <1>4, <1>5 DEF Arriving
  <1>7. "RUN_AWAY" \notin U /\ "RUN_AWAY" \notin V
    BY <1>3, <1>4, <1>6 DEF Arriving, Undecided
  <1>8. g.randomTime = h.randomTime
    BY <1>2, <1>5, <1>6 DEF Alike, Asking
  <1>9. g.tally.win = h.tally.lose /\ R = {}
    BY <1>4, <1>5, <1>6, <1>7 DEF Scored
  <1>10. g.opMoney = h.money
    BY <1>2, <1>3, <1>5, <1>6, <1>7, <1>9 DEF Purse, Knows, Owed, Owes
  <1>11. QED
    BY <1>3, <1>4, <1>8, <1>9, <1>10 DEF Screens, g, h

\* The asked phone plays with the delay that the asking one has chosen, as long as no
\* phone is asked while its own request is unanswered (randomTime in TIME and TIME_TRY).
THEOREM AlikeInvariant == Spec => []AlikeHolds
  <1>1. Init => AlikeHolds
    BY InitAlike DEF AlikeHolds
  <1>2. ASSUME TypeOK, TypeOK', MatchHolds, AlikeHolds, [Next]_vars
        PROVE  AlikeHolds'
    <2>1. ASSUME NoCrossing', Without({"twoTries"})' PROVE AllAlike'
      <3>1. MatchInv /\ AllAlike
        BY <1>2, <2>1, CrossingsStay, TriesStay DEF MatchHolds, AlikeHolds
      <3>2. QED
        BY <1>2, <2>1, <3>1, NextAlike
    <2>2. QED
      BY <2>1 DEF AlikeHolds
  <1>3. QED
    BY <1>1, <1>2, SessionTypeCorrect, MatchInvariant, PTL DEF Spec

\* Two phones that show a duel begin its round alike (duelStart and the packets before
\* it), whatever the players own and however often they play again.
THEOREM FairRoundHolds == Spec => [](NoCrossing => FairRound)
  <1>1. TypeOK /\ MatchHolds /\ PursesHold /\ AlikeHolds => (NoCrossing => FairRound)
    BY MatchFair
  <1>2. QED
    BY <1>1, SessionTypeCorrect, MatchInvariant, PursesInvariant, AlikeInvariant, PTL
==============================================================================
