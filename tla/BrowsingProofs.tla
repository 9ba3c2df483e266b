---------------------------- MODULE BrowsingProofs ----------------------------
(***************************************************************************)
(* Theorems about Qr2: what a host owes to each that speaks to it, for any *)
(* times, any ring of at least twice the master server's window, and any   *)
(* number of messages, askers and challenges; about the browser: who is    *)
(* queued is waited for, for any servers, any limit and any setup; and     *)
(* about the reply and the list: what arrives in pieces arrives whole.     *)
(***************************************************************************)
EXTENDS MCBrowsing, FiniteSetTheorems, SequenceTheorems, TLAPS

-----------------------------------------------------------------------------
(***************************************************************************)
(* The ring of client messages                                             *)
(***************************************************************************)

\* What the proofs use of the sizes.
LEMMA Sizes ==
  ASSUME Qr2Assumption
  PROVE  /\ Recent \in Nat /\ Recent > 0 /\ Window \in Nat /\ Window > 0 /\ Recent >= 2 * Window - 1
         /\ Messages \in Nat /\ Challenges \in Nat /\ Slots \in Nat /\ MaxFirstCount \in Nat
         /\ MaxFirstCount > 0 /\ HbTime \in Nat /\ Old \in Nat /\ Age = 0 .. Old
  <1>1. /\ Recent \in Nat /\ Window \in Nat /\ Messages \in Nat /\ Challenges \in Nat
        /\ Slots \in Nat /\ MaxFirstCount \in Nat /\ HbTime \in Nat
    BY DEF Qr2Assumption
  <1>2. Window > 0 /\ Recent >= 2 * Window - 1 /\ MaxFirstCount > 0
    BY DEF Qr2Assumption
  <1> QED BY <1>1, <1>2 DEF Old, Age

\* The numbers of messages near m, without m itself, are fewer than the ring's slots.
LEMMA Neighbours ==
  ASSUME Qr2Assumption, NEW m \in Nat
  PROVE  LET near == ((m - Window + 1) .. (m + Window - 1)) \ {m}
         IN IsFiniteSet(near) /\ Cardinality(near) < Recent
  <1> DEFINE all == (m - Window + 1) .. (m + Window - 1)
             near == all \ {m}
  <1>1. Recent \in Nat /\ Window \in Nat /\ Window > 0 /\ Recent >= 2 * Window - 1
    BY Sizes
  <1>2. IsFiniteSet(all) /\ Cardinality(all) = 2 * Window - 1
    <2>1. m - Window + 1 \in Int /\ m + Window - 1 \in Int
      BY <1>1
    <2>2. /\ IsFiniteSet(all)
          /\ Cardinality(all) = IF m - Window + 1 > m + Window - 1 THEN 0
                                ELSE (m + Window - 1) - (m - Window + 1) + 1
      BY <2>1, FS_Interval
    <2> HIDE DEF all
    <2> QED BY <1>1, <2>2
  <1>3. m \in all
    BY <1>1
  <1> HIDE DEF all
  <1>4. IsFiniteSet(near) /\ Cardinality(near) = Cardinality(all) - 1
    BY <1>2, <1>3, FS_RemoveElement
  <1> HIDE DEF near
  <1>5. Cardinality(near) < Recent
    BY <1>1, <1>2, <1>4
  <1> QED BY <1>4, <1>5 DEF near, all

\* A message under way that the ring does not hold has not been handled.
LEMMA NotYetHandled ==
  ASSUME Qr2Assumption, TypeOK, RingInv, NEW m \in 1 .. Messages, UnderWay(m), ~Recently(m)
  PROVE  handled[m] = 0
  <1> DEFINE slots == 0 .. (Recent - 1)
             near == ((m - Window + 1) .. (m + Window - 1)) \ {m}
  <1>1. /\ Recent \in Nat /\ Recent > 0 /\ Window \in Nat /\ Window > 0 /\ Messages \in Nat
    BY Sizes
  <1>2. m \in Nat /\ newest \in Nat /\ handled[m] \in 0 .. 1
    BY <1>1 DEF RingInv
  <1>3. ring \in [slots -> 0 .. Messages]
    BY DEF TypeOK
  <1> SUFFICES ASSUME handled[m] > 0 PROVE FALSE
    BY <1>2
  <1>4. \A i \in slots : After(ring[i], m)
    BY <1>3 DEF RingInv
  <1>5. \A i \in slots : ring[i] \in near
    <2> SUFFICES ASSUME NEW i \in slots PROVE ring[i] \in near
      OBVIOUS
    <2>1. ring[i] \in 0 .. Messages /\ ring[i] > 0 /\ ring[i] + Window > m
      BY <1>3, <1>4 DEF After
    <2>2. ring[i] \in 1 .. Messages /\ handled[ring[i]] > 0
      BY <1>1, <1>3, <2>1 DEF RingInv
    <2>3. ring[i] <= newest
      BY <2>2 DEF RingInv
    <2>4. m + Window > newest
      BY DEF UnderWay
    <2>5. ring[i] # m
      BY <1>3 DEF Recently
    <2> QED BY <1>1, <1>2, <2>1, <2>3, <2>4, <2>5
  <1>6. \A i, k \in slots : i # k => ring[i] # ring[k]
    <2> SUFFICES ASSUME NEW i \in slots, NEW k \in slots, i # k, ring[i] = ring[k] PROVE FALSE
      OBVIOUS
    <2>1. ring[i] = 0
      BY <1>3 DEF RingInv
    <2> QED BY <1>4, <2>1 DEF After
  <1>7. IsFiniteSet(near) /\ Cardinality(near) < Recent
    BY <1>2, Neighbours
  <1>8. IsFiniteSet(slots) /\ Cardinality(slots) = Recent
    <2>1. 0 \in Int /\ Recent - 1 \in Int
      BY <1>1
    <2>2. IsFiniteSet(slots) /\ Cardinality(slots) = IF 0 > Recent - 1 THEN 0 ELSE (Recent - 1) - 0 + 1
      BY <2>1, FS_Interval
    <2> HIDE DEF slots
    <2> QED BY <1>1, <2>2
  <1> HIDE DEF slots, near
  <1>9. ring \in [slots -> near]
    BY <1>3, <1>5
  <1>10. Cardinality(near) < Cardinality(slots)
    BY <1>7, <1>8
  <1>11. \E i, k \in slots : i # k /\ ring[i] = ring[k]
    BY <1>7, <1>8, <1>9, <1>10, FS_PigeonHole
  <1> QED BY <1>6, <1>11

\* The slot that is written next is the oldest, and every other is one older afterwards.
LEMMA NextSlot ==
  ASSUME Qr2Assumption, cur \in 0 .. (Recent - 1), NEW c, c = (cur + 1) % Recent, cur' = c
  PROVE  /\ c \in 0 .. (Recent - 1)
         /\ \A i \in 0 .. (Recent - 1) :
              /\ Behind(i) \in 0 .. (Recent - 1)
              /\ i # c => Behind(i)' = Behind(i) + 1 /\ Behind(i) < Behind(c)
         /\ Behind(c)' = 0
  <1>1. Recent \in Nat /\ Recent > 0
    BY Sizes
  <1>2. c = IF cur + 1 = Recent THEN 0 ELSE cur + 1
    <2>1. cur \in Int /\ 0 <= cur /\ cur < Recent
      BY <1>1
    <2>2. CASE cur + 1 = Recent
      <3>1. Recent % Recent = 0
        BY <1>1
      <3> QED BY <2>2, <3>1
    <2>3. CASE cur + 1 # Recent
      <3>1. (cur + 1) % Recent = cur + 1
        BY <1>1, <2>1, <2>3
      <3> QED BY <2>3, <3>1
    <2> QED BY <2>2, <2>3
  <1>3. c \in 0 .. (Recent - 1)
    BY <1>1, <1>2
  <1>4. \A i : Behind(i)' = IF i <= c THEN c - i ELSE c - i + Recent
    BY DEF Behind
  <1>5. ASSUME NEW i \in 0 .. (Recent - 1)
        PROVE  Behind(i) \in 0 .. (Recent - 1)
    BY <1>1, <1>5 DEF Behind
  <1>6. ASSUME NEW i \in 0 .. (Recent - 1), i # c
        PROVE  Behind(i)' = Behind(i) + 1 /\ Behind(i) < Behind(c)
    <2>1. cur \in Int /\ 0 <= cur /\ cur < Recent /\ i \in Int /\ 0 <= i /\ i < Recent
      BY <1>1
    <2>2. CASE cur + 1 = Recent
      BY <1>1, <1>2, <1>4, <1>6, <2>1, <2>2 DEF Behind
    <2>3. CASE cur + 1 # Recent
      BY <1>1, <1>2, <1>4, <1>6, <2>1, <2>3 DEF Behind
    <2> QED BY <2>2, <2>3
  <1>7. Behind(c)' = 0
    BY <1>1, <1>3, <1>4
  <1> QED BY <1>3, <1>5, <1>6, <1>7

\* The ring keeps its order when a message is remembered in place of the oldest.
LEMMA RemembersKeeps ==
  ASSUME Qr2Assumption, TypeOK, RingInv, NEW m \in 1 .. Messages, UnderWay(m), ~Recently(m),
         Remembers(m), handled' = [handled EXCEPT ![m] = @ + 1],
         newest' = IF m > newest THEN m ELSE newest
  PROVE  RingInv' /\ ring' \in [0 .. (Recent - 1) -> 0 .. Messages] /\ cur' \in 0 .. (Recent - 1)
  <1> DEFINE slots == 0 .. (Recent - 1)
  <1> PICK c : c = cur'
    OBVIOUS
  <1>1. /\ Recent \in Nat /\ Recent > 0 /\ Window \in Nat /\ Window > 0 /\ Messages \in Nat
    BY Sizes
  <1>2. /\ ring \in [slots -> 0 .. Messages] /\ cur \in slots
        /\ newest \in 0 .. Messages /\ handled \in [1 .. Messages -> 0 .. 1]
    BY DEF TypeOK, RingInv
  <1>3. m \in Nat /\ m > 0 /\ m <= Messages /\ newest \in Nat /\ m + Window > newest
    BY <1>1, <1>2 DEF UnderWay
  <1>4. handled[m] = 0
    BY NotYetHandled
  <1>5. cur' = (cur + 1) % Recent /\ ring' = [ring EXCEPT ![cur'] = m]
    BY DEF Remembers
  <1>6. /\ c \in slots /\ Behind(c)' = 0
        /\ \A i \in slots :
             /\ Behind(i) \in slots
             /\ i # c => Behind(i)' = Behind(i) + 1 /\ Behind(i) < Behind(c)
    BY <1>2, <1>5, NextSlot
  <1> HIDE DEF slots
  <1>7. /\ ring' \in [slots -> 0 .. Messages] /\ ring'[c] = m
        /\ \A i \in slots : i # c => ring'[i] = ring[i]
    BY <1>2, <1>3, <1>5, <1>6
  <1>8. /\ handled' \in [1 .. Messages -> 0 .. 1] /\ handled'[m] = 1
        /\ \A x \in 1 .. Messages : x # m => handled'[x] = handled[x]
    BY <1>2, <1>4
  <1>9. /\ newest' \in 0 .. Messages /\ newest <= newest' /\ m <= newest'
    BY <1>2, <1>3
  <1>10. DOMAIN ring = slots /\ DOMAIN ring' = slots
    BY <1>2, <1>7
  <1>11. /\ \A x \in 1 .. Messages : handled[x] > 0 => x <= newest
         /\ \A i \in slots : ring[i] > 0 => handled[ring[i]] = 1
         /\ \A i, k \in slots : i # k /\ ring[i] = ring[k] => ring[i] = 0
         /\ \A i, k \in slots : ring[i] > 0 /\ Behind(k) < Behind(i) => After(ring[k], ring[i])
         /\ \A x \in 1 .. Messages : handled[x] > 0 /\ ~Recently(x) =>
              \A i \in slots : After(ring[i], x)
    BY <1>10 DEF RingInv
  <1>12. \A i \in slots : ring[i] # m
    BY <1>10 DEF Recently
  \* The message comes after every one that was handled.
  <1>13. \A x \in 1 .. Messages : handled[x] > 0 => After(m, x)
    BY <1>1, <1>2, <1>3, <1>11 DEF After
  <1>14. \A x \in 1 .. Messages : handled'[x] > 0 => x <= newest'
    BY <1>1, <1>2, <1>3, <1>8, <1>9, <1>11
  <1>15. \A i \in slots : ring[i] > 0 => ring[i] \in 1 .. Messages
    BY <1>1, <1>2
  <1>16. \A i \in slots : ring'[i] > 0 => handled'[ring'[i]] = 1
    BY <1>7, <1>8, <1>11, <1>12, <1>15
  <1>17. \A i, k \in slots : i # k /\ ring'[i] = ring'[k] => ring'[i] = 0
    BY <1>7, <1>11, <1>12
  <1>18. ASSUME NEW i \in slots, NEW k \in slots, ring'[i] > 0, Behind(k)' < Behind(i)'
         PROVE  After(ring'[k], ring'[i])
    <2>1. i # c
      <3>1. Behind(k) \in Nat /\ (k # c => Behind(k)' = Behind(k) + 1) /\ Behind(c)' = 0
        BY <1>1, <1>6 DEF slots
      <3> QED BY <1>18, <3>1
    <2>2. ring'[i] = ring[i] /\ ring[i] > 0
      BY <1>7, <1>18, <2>1
    <2>3. CASE k = c
      <3>1. handled[ring[i]] > 0 /\ ring[i] \in 1 .. Messages
        BY <1>11, <1>15, <2>2
      <3> QED BY <1>7, <1>13, <2>2, <2>3, <3>1
    <2>4. CASE k # c
      <3>1. Behind(k) < Behind(i)
        <4>1. Behind(k)' = Behind(k) + 1 /\ Behind(i)' = Behind(i) + 1
          BY <1>6, <2>1, <2>4
        <4>2. Behind(k) \in Int /\ Behind(i) \in Int
          BY <1>1, <1>6 DEF slots
        <4> QED BY <1>18, <4>1, <4>2
      <3> QED BY <1>7, <1>11, <2>2, <2>4, <3>1
    <2> QED BY <2>3, <2>4
  <1>19. ASSUME NEW x \in 1 .. Messages, handled'[x] > 0, ~Recently(x)'
         PROVE  \A i \in slots : After(ring'[i], x)
    <2>1. \A i \in slots : ring'[i] # x
      BY <1>10, <1>19 DEF Recently
    <2>2. x # m /\ handled[x] > 0
      BY <1>6, <1>7, <1>8, <1>19, <2>1
    <2>3. After(m, x)
      BY <1>13, <2>2
    <2>4. CASE ~Recently(x)
      BY <1>7, <1>11, <2>2, <2>3, <2>4
    <2>5. CASE Recently(x)
      <3>1. PICK i \in slots : ring[i] = x
        BY <1>10, <2>5 DEF Recently
      <3>2. i = c
        BY <1>7, <2>1, <3>1
      <3>3. \A k \in slots : k # c => After(ring[k], x)
        BY <1>6, <1>11, <3>1, <3>2
      <3> QED BY <1>7, <2>3, <3>3
    <2> QED BY <2>4, <2>5
  <1>20. RingInv'
    BY <1>8, <1>9, <1>10, <1>14, <1>16, <1>17, <1>18, <1>19 DEF RingInv
  <1> QED BY <1>6, <1>7, <1>20 DEF slots

\* What does not touch the ring keeps it in order.
LEMMA RingStays ==
  ASSUME RingInv, UNCHANGED messages
  PROVE  RingInv'
  <1>1. ring' = ring /\ cur' = cur /\ newest' = newest /\ handled' = handled
    BY DEF messages
  <1>2. /\ \A i : Behind(i)' = Behind(i)
        /\ \A m : Recently(m)' = Recently(m)
    BY <1>1 DEF Behind, Recently
  <1> QED BY <1>1, <1>2 DEF RingInv

\* A message that is remembered does not count against the host.
LEMMA HandledFromRing ==
  ASSUME Qr2Assumption, RingInv
  PROVE  HandledOnce
  <1>1. Messages \in Nat
    BY Sizes
  <1>2. newest \in 0 .. Messages /\ handled \in [1 .. Messages -> 0 .. 1]
    BY DEF RingInv
  <1>3. \A m \in 1 .. newest : m \in 1 .. Messages
    BY <1>1, <1>2
  <1> QED BY <1>2, <1>3 DEF HandledOnce

-----------------------------------------------------------------------------
(***************************************************************************)
(* Errors and challenges                                                   *)
(***************************************************************************)

\* Whatever is heard from the master server, no error has been told before its time.
LEMMA HeardKeeps ==
  ASSUME Qr2Assumption, ErrorInv, listed \in -1 .. MaxFirstCount, Heard, UNCHANGED told
  PROVE  ErrorInv' /\ listed' \in -1 .. MaxFirstCount
  <1>1. MaxFirstCount \in Nat /\ MaxFirstCount > 0
    BY Sizes
  <1>2. /\ told \in Nat \X Nat /\ (listed > 0 => told[1] = 0) /\ (listed # -1 => told[2] = 0)
    BY DEF ErrorInv
  <1>3. /\ listed' \in -1 .. MaxFirstCount /\ ~(listed' > 0)
        /\ listed' # -1 => listed # -1
    BY <1>1 DEF Heard
  <1> QED BY <1>2, <1>3 DEF ErrorInv

\* A slot that is freed, or only grows older, brings no challenge back.
LEMMA SlotsKeep ==
  ASSUME VerifyInv, UNCHANGED <<given, answered>>, DOMAIN verify' = DOMAIN verify,
         \A s \in DOMAIN verify : verify'[s].challenge \in {0, verify[s].challenge},
         given \in Nat
  PROVE  VerifyInv'
  <1>1. /\ given' = given /\ answered' = answered
        /\ given \in 0 .. Challenges
        /\ \A s \in DOMAIN verify : verify[s].challenge <= given
        /\ \A s, t \in DOMAIN verify :
             s # t /\ verify[s].challenge = verify[t].challenge => verify[s].challenge = 0
        /\ \A a \in answered :
             a[2] \in 1 .. given /\ \A s \in DOMAIN verify : verify[s].challenge # a[2]
    BY DEF VerifyInv
  <1>2. \A s \in DOMAIN verify : verify'[s].challenge <= given
    BY <1>1
  <1>3. ASSUME NEW s \in DOMAIN verify, NEW t \in DOMAIN verify, s # t,
               verify'[s].challenge = verify'[t].challenge
        PROVE  verify'[s].challenge = 0
    BY <1>1, <1>3
  <1>4. \A a \in answered, s \in DOMAIN verify : verify'[s].challenge # a[2]
    BY <1>1
  <1> QED BY <1>1, <1>2, <1>3, <1>4 DEF VerifyInv

\* A slot's type, and that a free one has no challenge.
LEMMA SlotTypes ==
  ASSUME Qr2Assumption, TypeOK, NEW s \in 1 .. Slots
  PROVE  /\ verify[s] = Free \/ verify[s] \in [who : Asker, challenge : 1 .. Challenges, age : Age]
         /\ Free.challenge = 0
         /\ verify[s].challenge \in Nat
  <1>1. verify[s] \in {Free} \union [who : Asker, challenge : 1 .. Challenges, age : Age]
    BY DEF TypeOK
  <1>2. Free.challenge = 0
    BY DEF Free
  <1>3. Challenges \in Nat
    BY Sizes
  <1> QED BY <1>1, <1>2, <1>3

\* Ages stay ages.
LEMMA Ages ==
  ASSUME Qr2Assumption, NEW age \in Age
  PROVE  Older(age) \in Age /\ Old \in Age /\ 0 \in Age
  BY Sizes DEF Older

-----------------------------------------------------------------------------
(***************************************************************************)
(* The steps of the host                                                   *)
(***************************************************************************)

\* The first tries end for good when nobody answers, and nothing else tells of it.
LEMMA CheckSendHeartbeatKeeps ==
  ASSUME Qr2Assumption, HostInv, CheckSendHeartbeat
  PROVE  /\ ErrorInv' /\ ErrorsOnce'
         /\ listed' \in -1 .. MaxFirstCount
         /\ {requested', changed'} \subseteq BOOLEAN /\ {hbAge', kaAge'} \subseteq Age
  <1>1. MaxFirstCount \in Nat /\ MaxFirstCount > 0
    BY Sizes
  <1>2. /\ listed \in -1 .. MaxFirstCount /\ requested \in BOOLEAN /\ changed \in BOOLEAN
        /\ hbAge \in Age /\ kaAge \in Age
        /\ told \in Nat \X Nat /\ told[1] <= 1 /\ told[2] <= 1
        /\ (listed > 0 => told[1] = 0) /\ (listed # -1 => told[2] = 0)
    BY DEF HostInv, HostAnswersOnce, TypeOK, ErrorInv, ErrorsOnce
  <1>3. told[1] \in Nat /\ told[2] \in Nat
    BY <1>2
  <1>4. 0 \in Age
    BY <1>2, Ages
  <1>5. \A kind : SendHeartbeat(kind) =>
          {requested', changed'} \subseteq BOOLEAN /\ {hbAge', kaAge'} \subseteq Age
    BY <1>2, <1>4 DEF SendHeartbeat
  <1>6. SendKeepalive \/ NothingSent =>
          {requested', changed'} \subseteq BOOLEAN /\ {hbAge', kaAge'} \subseteq Age
    BY <1>2, <1>4 DEF SendKeepalive, NothingSent
  <1>7. CASE FirstTry /\ listed >= MaxFirstCount
    <2>1. listed' = 0 /\ NoChallenge /\ NothingSent
      BY <1>7 DEF CheckSendHeartbeat
    <2>2. listed > 0
      BY <1>7 DEF FirstTry
    <2>3. told' = <<told[1] + 1, told[2]>>
      BY <2>1 DEF NoChallenge
    <2>4. told[1] = 0 /\ told[2] = 0
      BY <1>1, <1>2, <2>2
    <2>5. told' = <<1, 0>>
      BY <2>3, <2>4
    <2> QED BY <1>1, <1>6, <2>1, <2>5 DEF ErrorInv, ErrorsOnce
  <1>8. CASE FirstTry /\ ~(listed >= MaxFirstCount)
    <2>1. listed' = listed + 1 /\ SendHeartbeat(3) /\ told' = told
      BY <1>8 DEF CheckSendHeartbeat
    <2>2. listed > 0 /\ listed' \in -1 .. MaxFirstCount
      BY <1>1, <1>2, <1>8, <2>1 DEF FirstTry
    <2>3. told[1] = 0 /\ told[2] = 0
      BY <1>1, <1>2, <2>2
    <2> QED BY <1>2, <1>5, <2>1, <2>2, <2>3 DEF ErrorInv, ErrorsOnce
  <1>9. CASE ~FirstTry
    <2>1. /\ SendHeartbeat(1) \/ SendHeartbeat(0) \/ SendKeepalive \/ NothingSent
          /\ listed' = listed /\ told' = told
      BY <1>9 DEF CheckSendHeartbeat
    <2> QED BY <1>2, <1>5, <1>6, <2>1 DEF ErrorInv, ErrorsOnce
  <1> QED BY <1>7, <1>8, <1>9

\* Thinking forgets old challenges and nothing else.
LEMMA ThinkKeeps ==
  ASSUME Qr2Assumption, HostInv, Think
  PROVE  HostInv'
  <1>1. /\ TypeOK /\ RingInv /\ VerifyInv /\ ChallengeOnce
        /\ open' = open /\ UNCHANGED messages /\ option' = option /\ given' = given /\ answered' = answered
    BY DEF HostInv, HostAnswersOnce, Think
  <1>2. /\ ErrorInv' /\ ErrorsOnce' /\ listed' \in -1 .. MaxFirstCount
        /\ {requested', changed'} \subseteq BOOLEAN /\ {hbAge', kaAge'} \subseteq Age
    BY CheckSendHeartbeatKeeps DEF Think
  <1>3. RingInv' /\ HandledOnce'
    <2>1. RingInv'
      BY <1>1, RingStays
    <2> QED BY <2>1, <1>1, HandledFromRing DEF HandledOnce, HostInv, HostAnswersOnce, messages
  <1>4. verify' = [s \in DOMAIN verify |-> IF verify[s].age > VerifyTime THEN Free ELSE verify[s]]
    BY DEF Think, ExpireIpVerify
  <1>5. DOMAIN verify = 1 .. Slots
    BY <1>1 DEF TypeOK
  <1>6. \A s \in DOMAIN verify : verify'[s].challenge \in {0, verify[s].challenge}
    BY <1>1, <1>4, <1>5, SlotTypes
  <1>7. VerifyInv'
    BY <1>1, <1>4, <1>6, SlotsKeep, Sizes DEF VerifyInv
  <1>8. TypeOK'
    BY <1>1, <1>2, <1>4 DEF TypeOK, messages
  <1>9. ChallengeOnce'
    BY <1>1 DEF ChallengeOnce
  <1> QED BY <1>2, <1>3, <1>7, <1>8, <1>9 DEF HostInv, HostAnswersOnce

\* What does not touch the messages keeps what is said of them.
LEMMA MessagesStay ==
  ASSUME HostInv, UNCHANGED messages
  PROVE  /\ RingInv' /\ HandledOnce'
         /\ ring' \in [0 .. Recent - 1 -> 0 .. Messages] /\ cur' \in 0 .. Recent - 1
  <1>1. RingInv /\ HandledOnce /\ TypeOK
    BY DEF HostInv, HostAnswersOnce
  <1> QED BY <1>1, RingStays DEF HandledOnce, TypeOK, messages

\* What does not touch the challenges keeps what is said of them.
LEMMA ChallengesStay ==
  ASSUME HostInv, UNCHANGED <<verify, given, answered>>
  PROVE  /\ VerifyInv' /\ ChallengeOnce'
         /\ verify' \in [1 .. Slots -> {Free} \union
              [who : Asker, challenge : 1 .. Challenges, age : Age]]
  BY DEF HostInv, HostAnswersOnce, VerifyInv, ChallengeOnce, TypeOK

\* What is heard tells of no error.
LEMMA ErrorsStay ==
  ASSUME Qr2Assumption, HostInv, Heard \/ UNCHANGED listed, UNCHANGED told
  PROVE  ErrorInv' /\ ErrorsOnce' /\ listed' \in -1 .. MaxFirstCount
  <1>1. ErrorInv /\ ErrorsOnce /\ listed \in -1 .. MaxFirstCount
    BY DEF HostInv, HostAnswersOnce, TypeOK
  <1>2. CASE Heard
    BY <1>1, <1>2, HeardKeeps DEF ErrorsOnce
  <1>3. CASE UNCHANGED listed
    BY <1>1, <1>3 DEF ErrorInv, ErrorsOnce
  <1> QED BY <1>2, <1>3

\* A change of the game, the goodbye.
LEMMA SendStateChangedKeeps ==
  ASSUME Qr2Assumption, HostInv, SendStateChanged \/ Shutdown
  PROVE  HostInv'
  <1>1. /\ TypeOK /\ open' \in BOOLEAN /\ UNCHANGED <<listed, told, messages, queries>>
        /\ hbAge' \in {hbAge, 0, Old} /\ kaAge' \in {kaAge, 0}
        /\ requested' \in BOOLEAN /\ changed' \in BOOLEAN
    BY DEF SendStateChanged, Shutdown, HostInv, HostAnswersOnce, TypeOK
  <1>2. RingInv' /\ HandledOnce' /\ VerifyInv' /\ ChallengeOnce'
    BY <1>1, MessagesStay, ChallengesStay DEF queries
  <1>3. ErrorInv' /\ ErrorsOnce'
    BY <1>1, ErrorsStay
  <1>4. 0 \in Age /\ Old \in Age
    BY Sizes
  <1>5. TypeOK'
    BY <1>1, <1>4 DEF TypeOK, messages, queries
  <1> QED BY <1>2, <1>3, <1>5 DEF HostInv, HostAnswersOnce

\* Time passes, or is set back: the ages of the slots change, not their challenges.
LEMMA TimeKeeps ==
  ASSUME Qr2Assumption, HostInv, Passes \/ ClockSetBack
  PROVE  HostInv'
  <1>1. /\ TypeOK /\ VerifyInv /\ ChallengeOnce
        /\ UNCHANGED <<open, listed, requested, changed, told, messages, option, given, answered>>
    BY DEF Passes, ClockSetBack, HostInv, HostAnswersOnce
  <1>2. /\ DOMAIN verify = 1 .. Slots /\ hbAge \in Age /\ kaAge \in Age
        /\ given \in 0 .. Challenges
    BY <1>1 DEF TypeOK, VerifyInv
  <1>3. hbAge' \in Age /\ kaAge' \in Age
    BY <1>2, Ages DEF Passes, ClockSetBack
  <1>4. /\ DOMAIN verify' = 1 .. Slots
        /\ verify' = [s \in 1 .. Slots |-> verify'[s]]
        /\ \A s \in 1 .. Slots :
             \/ verify[s] = Free /\ verify'[s] = Free
             \/ verify[s] # Free /\ (\/ verify'[s] = [verify[s] EXCEPT !.age = Older(@)]
                                     \/ verify'[s] = [verify[s] EXCEPT !.age = Old])
    BY <1>2 DEF Passes, ClockSetBack
  <1>5. ASSUME NEW s \in 1 .. Slots
        PROVE  /\ verify'[s] \in {Free} \union [who : Asker, challenge : 1 .. Challenges, age : Age]
               /\ verify'[s].challenge = verify[s].challenge
    <2>1. CASE verify[s] = Free
      BY <1>4, <2>1
    <2>2. CASE verify[s] # Free
      <3>1. verify[s] \in [who : Asker, challenge : 1 .. Challenges, age : Age]
        BY <1>1, <2>2, SlotTypes
      <3>2. Older(verify[s].age) \in Age /\ Old \in Age
        BY <3>1, Ages
      <3> QED BY <1>4, <2>2, <3>1, <3>2
    <2> QED BY <2>1, <2>2
  <1>6. VerifyInv' /\ ChallengeOnce'
    <2>1. given \in Nat
      BY <1>2, Sizes
    <2> QED BY <1>1, <1>2, <1>4, <1>5, <2>1, SlotsKeep DEF ChallengeOnce
  <1>7. RingInv' /\ HandledOnce' /\ ErrorInv' /\ ErrorsOnce'
    BY <1>1, MessagesStay, ErrorsStay
  <1>8. TypeOK'
    <2>1. verify' \in [1 .. Slots -> {Free} \union
            [who : Asker, challenge : 1 .. Challenges, age : Age]]
      BY <1>4, <1>5
    <2> QED BY <1>1, <1>3, <2>1 DEF TypeOK, messages
  <1> QED BY <1>6, <1>7, <1>8 DEF HostInv, HostAnswersOnce

\* Packets that carry no message and no query.
LEMMA ReceiveOtherKeeps ==
  ASSUME Qr2Assumption, HostInv, ReceiveChallenge \/ ReceiveOther
  PROVE  HostInv'
  <1>1. /\ TypeOK /\ Heard /\ option' \in BOOLEAN
        /\ UNCHANGED <<open, hbAge, kaAge, requested, changed, told, messages, verify, given, answered>>
    BY DEF ReceiveChallenge, ReceiveOther, queries, HostInv, HostAnswersOnce, TypeOK
  <1>2. /\ RingInv' /\ HandledOnce' /\ VerifyInv' /\ ChallengeOnce' /\ ErrorInv' /\ ErrorsOnce'
        /\ listed' \in -1 .. MaxFirstCount
    BY <1>1, MessagesStay, ChallengesStay, ErrorsStay
  <1>3. TypeOK'
    BY <1>1, <1>2 DEF TypeOK, messages
  <1> QED BY <1>2, <1>3 DEF HostInv, HostAnswersOnce

\* An error from the master server ends the listing, and is told then.
LEMMA ReceiveAddErrorKeeps ==
  ASSUME Qr2Assumption, HostInv, ReceiveAddError
  PROVE  HostInv'
  <1>1. /\ TypeOK /\ ErrorInv /\ ErrorsOnce
        /\ listed # -1 /\ listed' = -1 /\ told' = <<told[1], told[2] + 1>>
        /\ UNCHANGED <<open, hbAge, kaAge, requested, changed, messages, queries>>
    BY DEF ReceiveAddError, HostInv, HostAnswersOnce
  <1>2. told \in Nat \X Nat /\ told[2] = 0 /\ told[1] <= 1
    BY <1>1 DEF ErrorInv, ErrorsOnce
  <1>3. told' = <<told[1], 1>> /\ told[1] \in Nat
    BY <1>1, <1>2
  <1>4. ErrorInv' /\ ErrorsOnce'
    BY <1>1, <1>2, <1>3 DEF ErrorInv, ErrorsOnce
  <1>5. RingInv' /\ HandledOnce' /\ VerifyInv' /\ ChallengeOnce'
    BY <1>1, MessagesStay, ChallengesStay DEF queries
  <1>6. listed' \in -1 .. MaxFirstCount
    BY <1>1, Sizes
  <1>7. TypeOK'
    BY <1>1, <1>6 DEF TypeOK, messages, queries
  <1> QED BY <1>4, <1>5, <1>7 DEF HostInv, HostAnswersOnce

\* A client message: known from the ring, or remembered and handled.
LEMMA ReceiveClientMessageKeeps ==
  ASSUME Qr2Assumption, HostInv, NEW m \in 1 .. Messages, ReceiveClientMessage(m)
  PROVE  HostInv'
  <1>1. /\ TypeOK /\ RingInv /\ UnderWay(m) /\ Heard
        /\ newest' = IF m > newest THEN m ELSE newest
        /\ UNCHANGED <<open, hbAge, kaAge, requested, changed, told, queries>>
    BY DEF ReceiveClientMessage, HostInv, HostAnswersOnce
  <1>2. RingInv' /\ ring' \in [0 .. Recent - 1 -> 0 .. Messages] /\ cur' \in 0 .. Recent - 1
    <2>1. CASE Recently(m)
      <3>1. ring' = ring /\ cur' = cur /\ handled' = handled
        BY <2>1 DEF ReceiveClientMessage
      <3>2. /\ \A i : Behind(i)' = Behind(i)
            /\ \A x : Recently(x)' = Recently(x)
        BY <3>1 DEF Behind, Recently
      <3>3. newest' \in 0 .. Messages /\ newest <= newest' /\ newest' \in Nat /\ newest \in Nat
        BY <1>1, Sizes DEF RingInv
      <3>4. \A x \in 1 .. Messages : handled[x] > 0 => x <= newest'
        <4>1. \A x \in 1 .. Messages : handled[x] > 0 => x <= newest
          BY <1>1 DEF RingInv
        <4>2. \A x \in 1 .. Messages : x \in Nat
          OBVIOUS
        <4> QED BY <3>3, <4>1, <4>2
      <3>5. /\ \A i \in DOMAIN ring : ring[i] > 0 => handled[ring[i]] = 1
            /\ \A i, k \in DOMAIN ring : i # k /\ ring[i] = ring[k] => ring[i] = 0
            /\ \A i, k \in DOMAIN ring : ring[i] > 0 /\ Behind(k) < Behind(i) => After(ring[k], ring[i])
            /\ \A x \in 1 .. Messages : handled[x] > 0 /\ ~Recently(x) =>
                 \A i \in DOMAIN ring : After(ring[i], x)
            /\ handled \in [1 .. Messages -> 0 .. 1]
        BY <1>1 DEF RingInv
      <3>6. RingInv'
        BY <3>1, <3>2, <3>3, <3>4, <3>5 DEF RingInv
      <3> QED BY <1>1, <3>1, <3>6 DEF TypeOK
    <2>2. CASE ~Recently(m)
      <3>1. Remembers(m) /\ handled' = [handled EXCEPT ![m] = @ + 1]
        BY <2>2 DEF ReceiveClientMessage
      <3> QED BY <1>1, <2>2, <3>1, RemembersKeeps
    <2> QED BY <2>1, <2>2
  <1>3. HandledOnce'
    <2>1. newest' \in 0 .. Messages /\ handled' \in [1 .. Messages -> 0 .. 1] /\ Messages \in Nat
      BY <1>2, Sizes DEF RingInv
    <2>2. \A x \in 1 .. newest' : handled'[x] \in 0 .. 1
      BY <2>1
    <2> QED BY <2>2 DEF HandledOnce
  <1>4. /\ VerifyInv' /\ ChallengeOnce' /\ ErrorInv' /\ ErrorsOnce'
        /\ listed' \in -1 .. MaxFirstCount
    BY <1>1, ChallengesStay, ErrorsStay DEF queries
  <1>5. TypeOK'
    BY <1>1, <1>2, <1>4 DEF TypeOK, queries
  <1> QED BY <1>2, <1>3, <1>4, <1>5 DEF HostInv, HostAnswersOnce

\* A challenge that is given has a number of its own.
LEMMA ProcessIpVerifyKeeps ==
  ASSUME Qr2Assumption, HostInv, NEW who \in Asker, ProcessIpVerify(who)
  PROVE  HostInv'
  <1>1. /\ TypeOK /\ VerifyInv /\ ChallengeOnce /\ Heard /\ given < Challenges /\ given' = given + 1
        /\ UNCHANGED <<open, hbAge, kaAge, requested, changed, told, messages, option, answered>>
    BY DEF ProcessIpVerify, HostInv, HostAnswersOnce
  <1> DEFINE new == [who |-> who, challenge |-> given + 1, age |-> 0]
  <1>2. PICK s : verify' = [verify EXCEPT ![s] = new]
    BY DEF ProcessIpVerify
  <1>3. /\ given \in Nat /\ given + 1 \in 1 .. Challenges /\ Challenges \in Nat /\ 0 \in Age
    BY <1>1, Sizes DEF VerifyInv
  <1>4. new \in [who : Asker, challenge : 1 .. Challenges, age : Age] /\ new.challenge = given + 1
    BY <1>3
  <1> HIDE DEF new
  <1>5. /\ DOMAIN verify = 1 .. Slots /\ DOMAIN verify' = 1 .. Slots
        /\ \A t \in 1 .. Slots : verify'[t] = IF t = s THEN new ELSE verify[t]
    BY <1>1, <1>2 DEF TypeOK
  <1>6. /\ \A t \in 1 .. Slots : verify[t].challenge \in Nat /\ verify[t].challenge <= given
        /\ \A t, u \in 1 .. Slots :
             t # u /\ verify[t].challenge = verify[u].challenge => verify[t].challenge = 0
        /\ \A a \in answered :
             a[2] \in 1 .. given /\ \A t \in 1 .. Slots : verify[t].challenge # a[2]
    BY <1>1, <1>5, SlotTypes DEF VerifyInv
  <1>7. VerifyInv'
    <2>1. \A t \in 1 .. Slots : verify'[t].challenge <= given + 1
      BY <1>3, <1>4, <1>5, <1>6
    <2>2. ASSUME NEW t \in 1 .. Slots, NEW u \in 1 .. Slots, t # u,
                 verify'[t].challenge = verify'[u].challenge
          PROVE  verify'[t].challenge = 0
      BY <1>3, <1>4, <1>5, <1>6, <2>2
    <2>3. \A a \in answered :
            a[2] \in 1 .. (given + 1) /\ \A t \in 1 .. Slots : verify'[t].challenge # a[2]
      BY <1>3, <1>4, <1>5, <1>6
    <2>4. given' \in 0 .. Challenges
      BY <1>1, <1>3
    <2> QED BY <1>1, <1>5, <2>1, <2>2, <2>3, <2>4 DEF VerifyInv
  <1>8. /\ RingInv' /\ HandledOnce' /\ ErrorInv' /\ ErrorsOnce' /\ ChallengeOnce'
        /\ listed' \in -1 .. MaxFirstCount
    BY <1>1, MessagesStay, ErrorsStay DEF ChallengeOnce
  <1>9. TypeOK'
    <2>1. verify' \in [1 .. Slots -> {Free} \union
            [who : Asker, challenge : 1 .. Challenges, age : Age]]
      BY <1>1, <1>2, <1>4 DEF TypeOK
    <2> QED BY <1>1, <1>8, <2>1 DEF TypeOK, messages
  <1> QED BY <1>7, <1>8, <1>9 DEF HostInv, HostAnswersOnce

\* A challenge that answers a query has had no query before, and has no slot afterwards.
LEMMA ReceiveQueryKeeps ==
  ASSUME Qr2Assumption, HostInv, NEW who \in Asker, NEW c \in 1 .. Challenges, ReceiveQuery(who, c)
  PROVE  HostInv'
  <1>1. /\ TypeOK /\ VerifyInv /\ ChallengeOnce /\ Heard /\ given' = given
        /\ answered' = answered \union {<<who, c, c \in {a[2] : a \in answered}>>}
        /\ UNCHANGED <<open, hbAge, kaAge, requested, changed, told, messages, option, given>>
    BY DEF ReceiveQuery, HostInv, HostAnswersOnce
  <1>2. PICK s \in DOMAIN verify : verify[s].challenge = c /\ verify' = [verify EXCEPT ![s] = Free]
    BY DEF ReceiveQuery, UsesChallenge
  <1>3. /\ c \in Nat /\ c > 0 /\ Challenges \in Nat /\ given \in Nat /\ given \in 0 .. Challenges
    BY <1>1, Sizes DEF VerifyInv
  <1>4. /\ DOMAIN verify = 1 .. Slots /\ DOMAIN verify' = 1 .. Slots /\ Free.challenge = 0
        /\ \A t \in 1 .. Slots : verify'[t] = IF t = s THEN Free ELSE verify[t]
    BY <1>1, <1>2 DEF TypeOK, Free
  <1>5. /\ \A t \in 1 .. Slots : verify[t].challenge \in Nat /\ verify[t].challenge <= given
        /\ \A t, u \in 1 .. Slots :
             t # u /\ verify[t].challenge = verify[u].challenge => verify[t].challenge = 0
        /\ \A a \in answered :
             a[2] \in 1 .. given /\ \A t \in 1 .. Slots : verify[t].challenge # a[2]
    BY <1>1, <1>4, SlotTypes DEF VerifyInv
  <1>6. c <= given /\ ~(c \in {a[2] : a \in answered})
    BY <1>2, <1>4, <1>5
  <1> DEFINE now == <<who, c, FALSE>>
  <1>7. answered' = answered \union {now} /\ now[2] = c /\ ~now[3]
    <2>1. (c \in {a[2] : a \in answered}) = FALSE
      BY <1>6
    <2>2. answered' = answered \union {now}
      BY <1>1, <2>1, Zenon
    <2> QED BY <2>2
  <1> HIDE DEF now
  <1>8. ChallengeOnce'
    BY <1>1, <1>7, Zenon DEF ChallengeOnce
  <1>9. VerifyInv'
    <2>1. \A t \in 1 .. Slots : verify'[t].challenge <= given
      BY <1>3, <1>4, <1>5
    <2>2. ASSUME NEW t \in 1 .. Slots, NEW u \in 1 .. Slots, t # u,
                 verify'[t].challenge = verify'[u].challenge
          PROVE  verify'[t].challenge = 0
      BY <1>4, <1>5, <2>2
    <2>3. \A t \in 1 .. Slots : verify'[t].challenge # c
      BY <1>2, <1>3, <1>4, <1>5
    <2>4. \A a \in answered : \A t \in 1 .. Slots : verify'[t].challenge # a[2]
      BY <1>4, <1>5
    <2>5. \A a \in answered' :
            a[2] \in 1 .. given /\ \A t \in 1 .. Slots : verify'[t].challenge # a[2]
      <3>1. c \in 1 .. given
        BY <1>3, <1>6
      <3> QED BY <1>5, <1>7, <2>3, <2>4, <3>1
    <2> QED BY <1>1, <1>3, <1>4, <2>1, <2>2, <2>5 DEF VerifyInv
  <1>10. RingInv' /\ HandledOnce' /\ ErrorInv' /\ ErrorsOnce' /\ listed' \in -1 .. MaxFirstCount
    BY <1>1, MessagesStay, ErrorsStay
  <1>11. TypeOK'
    <2>1. verify' \in [1 .. Slots -> {Free} \union
            [who : Asker, challenge : 1 .. Challenges, age : Age]]
      BY <1>1, <1>2 DEF TypeOK
    <2> QED BY <1>1, <1>10, <2>1 DEF TypeOK, messages
  <1> QED BY <1>8, <1>9, <1>10, <1>11 DEF HostInv, HostAnswersOnce

-----------------------------------------------------------------------------
\* The host at the beginning.
LEMMA HostBegins ==
  ASSUME Qr2Assumption, Init
  PROVE  HostInv
  <1>1. /\ Recent \in Nat /\ Recent > 0 /\ Messages \in Nat /\ Challenges \in Nat /\ Slots \in Nat
        /\ MaxFirstCount \in Nat /\ MaxFirstCount > 0 /\ Old \in Age
    BY Sizes
  <1>2. TypeOK
    <2>1. {open, requested, changed, option} \subseteq BOOLEAN
      BY DEF Init
    <2>2. listed \in -1 .. MaxFirstCount /\ {hbAge, kaAge} \subseteq Age
      BY <1>1 DEF Init
    <2>3. ring \in [0 .. Recent - 1 -> 0 .. Messages] /\ cur \in 0 .. Recent - 1
      BY <1>1 DEF Init
    <2>4. verify \in [1 .. Slots -> {Free} \union
            [who : Asker, challenge : 1 .. Challenges, age : Age]]
      BY DEF Init
    <2> QED BY <2>1, <2>2, <2>3, <2>4 DEF TypeOK
  <1>3. RingInv
    BY <1>1 DEF Init, RingInv
  <1>4. VerifyInv
    BY <1>1 DEF Init, VerifyInv, Free
  <1>5. ErrorInv /\ ErrorsOnce /\ ChallengeOnce /\ HandledOnce
    BY DEF Init, ErrorInv, ErrorsOnce, ChallengeOnce, HandledOnce
  <1> QED BY <1>2, <1>3, <1>4, <1>5 DEF HostInv, HostAnswersOnce

(***************************************************************************)
(* The inductive invariant of the host: the order of the ring, the         *)
(* challenges that are open and answered, the errors that have been told.  *)
(***************************************************************************)
THEOREM HostInvariant ==
  ASSUME Qr2Assumption
  PROVE  Spec => []HostInv
  <1>1. Init => HostInv
    BY HostBegins
  <1>2. HostInv /\ [Next]_vars => HostInv'
    <2> SUFFICES ASSUME HostInv, [Next]_vars PROVE HostInv'
      OBVIOUS
    <2>1. CASE Think
      BY <2>1, ThinkKeeps
    <2>2. CASE SendStateChanged \/ Shutdown
      BY <2>2, SendStateChangedKeeps
    <2>3. CASE Passes \/ ClockSetBack
      BY <2>3, TimeKeeps
    <2>4. CASE ReceiveChallenge \/ ReceiveOther
      BY <2>4, ReceiveOtherKeeps
    <2>5. CASE ReceiveAddError
      BY <2>5, ReceiveAddErrorKeeps
    <2>6. ASSUME NEW m \in 1 .. Messages, ReceiveClientMessage(m)
          PROVE  HostInv'
      BY <2>6, ReceiveClientMessageKeeps
    <2>7. ASSUME NEW who \in Asker, ProcessIpVerify(who)
          PROVE  HostInv'
      BY <2>7, ProcessIpVerifyKeeps
    <2>8. ASSUME NEW who \in Asker, NEW c \in 1 .. Challenges, ReceiveQuery(who, c)
          PROVE  HostInv'
      BY <2>8, ReceiveQueryKeeps
    <2>9. CASE UNCHANGED vars
      <3>1. UNCHANGED <<open, listed, told, messages, queries, hbAge, kaAge, requested, changed>>
        BY <2>9 DEF vars, heartbeats
      <3>2. RingInv' /\ HandledOnce' /\ VerifyInv' /\ ChallengeOnce' /\ ErrorInv' /\ ErrorsOnce'
        BY <3>1, MessagesStay, ChallengesStay, ErrorsStay DEF queries
      <3>3. TypeOK'
        BY <3>1 DEF HostInv, HostAnswersOnce, TypeOK, messages, queries
      <3> QED BY <3>2, <3>3 DEF HostInv, HostAnswersOnce
    <2> QED BY <2>1, <2>2, <2>3, <2>4, <2>5, <2>6, <2>7, <2>8, <2>9 DEF Next
  <1> QED BY <1>1, <1>2, PTL DEF Spec

(***************************************************************************)
(* In whatever order and however often packets come, a client message that *)
(* is under way is handled once, a challenge answers one query, and the    *)
(* program is told of each error once.                                     *)
(***************************************************************************)
THEOREM HostAnswersOnceHolds ==
  ASSUME Qr2Assumption
  PROVE  Spec => []HostAnswersOnce
  <1>1. HostInv => HostAnswersOnce
    BY DEF HostInv
  <1> QED BY <1>1, HostInvariant, PTL

-----------------------------------------------------------------------------
(***************************************************************************)
(* The two queues of the browser                                           *)
(***************************************************************************)
Names(q) == Browser!Range(q)
Each(q) == Browser!IsInjective(q)

\* Two queues one after the other: who is in them, and whether nobody is twice.
LEMMA Joined ==
  ASSUME NEW S, NEW p \in Seq(S), NEW q \in Seq(S)
  PROVE  /\ p \o q \in Seq(S) /\ Len(p \o q) = Len(p) + Len(q)
         /\ Names(p \o q) = Names(p) \union Names(q)
         /\ Each(p \o q) => Each(p) /\ Each(q) /\ Names(p) \intersect Names(q) = {}
         /\ Each(p) /\ Each(q) /\ Names(p) \intersect Names(q) = {} => Each(p \o q)
  <1> DEFINE r == p \o q
  <1>1. /\ r \in Seq(S) /\ Len(r) = Len(p) + Len(q) /\ Len(p) \in Nat /\ Len(q) \in Nat
        /\ DOMAIN p = 1 .. Len(p) /\ DOMAIN q = 1 .. Len(q) /\ DOMAIN r = 1 .. (Len(p) + Len(q))
        /\ \A i \in 1 .. Len(p) : r[i] = p[i]
        /\ \A i \in 1 .. Len(q) : r[Len(p) + i] = q[i]
    OBVIOUS
  <1> HIDE DEF r
  <1>2. \A i \in DOMAIN r : i \in DOMAIN p \/ \E k \in DOMAIN q : i = Len(p) + k
    <2> SUFFICES ASSUME NEW i \in DOMAIN r, i \notin DOMAIN p PROVE \E k \in DOMAIN q : i = Len(p) + k
      OBVIOUS
    <2>1. i - Len(p) \in DOMAIN q /\ i = Len(p) + (i - Len(p))
      BY <1>1
    <2> QED BY <2>1
  <1>3. /\ \A i \in DOMAIN p : i \in DOMAIN r /\ r[i] = p[i] /\ i <= Len(p) /\ i \in Nat
        /\ \A k \in DOMAIN q : Len(p) + k \in DOMAIN r /\ r[Len(p) + k] = q[k] /\ Len(p) + k > Len(p) /\ k \in Nat
    BY <1>1
  <1>4. Names(r) = Names(p) \union Names(q)
    <2>1. \A x \in Names(r) : x \in Names(p) \union Names(q)
      BY <1>2, <1>3 DEF Names, Browser!Range
    <2>2. \A x \in Names(p) \union Names(q) : x \in Names(r)
      BY <1>3 DEF Names, Browser!Range
    <2> QED BY <2>1, <2>2
  <1>5. ASSUME Each(r) PROVE Each(p) /\ Each(q) /\ Names(p) \intersect Names(q) = {}
    <2>1. Each(p)
      BY <1>3, <1>5 DEF Each, Browser!IsInjective
    <2>2. Each(q)
      <3> SUFFICES ASSUME NEW i \in DOMAIN q, NEW k \in DOMAIN q, q[i] = q[k] PROVE i = k
        BY DEF Each, Browser!IsInjective
      <3>1. Len(p) + i = Len(p) + k
        BY <1>3, <1>5 DEF Each, Browser!IsInjective
      <3> QED BY <1>1, <1>3, <3>1
    <2>3. ASSUME NEW i \in DOMAIN p, NEW k \in DOMAIN q, p[i] = q[k] PROVE FALSE
      <3>1. i = Len(p) + k
        BY <1>3, <1>5, <2>3 DEF Each, Browser!IsInjective
      <3> QED BY <1>1, <1>3, <3>1
    <2> QED BY <2>1, <2>2, <2>3 DEF Names, Browser!Range
  <1>6. ASSUME Each(p), Each(q), Names(p) \intersect Names(q) = {} PROVE Each(r)
    <2> SUFFICES ASSUME NEW i \in DOMAIN r, NEW k \in DOMAIN r, r[i] = r[k] PROVE i = k
      BY DEF Each, Browser!IsInjective
    <2>1. \A a \in DOMAIN p, b \in DOMAIN q : p[a] # q[b]
      BY <1>6 DEF Names, Browser!Range
    <2>2. CASE i \in DOMAIN p /\ k \in DOMAIN p
      BY <1>3, <1>6, <2>2 DEF Each, Browser!IsInjective
    <2>3. CASE i \notin DOMAIN p /\ k \notin DOMAIN p
      <3>1. PICK a \in DOMAIN q : i = Len(p) + a
        BY <1>2, <2>3
      <3>2. PICK b \in DOMAIN q : k = Len(p) + b
        BY <1>2, <2>3
      <3>3. a = b
        BY <1>3, <1>6, <3>1, <3>2 DEF Each, Browser!IsInjective
      <3> QED BY <3>1, <3>2, <3>3
    <2>4. CASE i \in DOMAIN p /\ k \notin DOMAIN p
      BY <1>2, <1>3, <2>1, <2>4
    <2>5. CASE i \notin DOMAIN p /\ k \in DOMAIN p
      BY <1>2, <1>3, <2>1, <2>5
    <2> QED BY <2>2, <2>3, <2>4, <2>5
  <1> QED BY <1>1, <1>4, <1>5, <1>6 DEF r

\* A queue cut in two.
LEMMA Cut ==
  ASSUME NEW S, NEW q \in Seq(S), NEW n \in 0 .. Len(q)
  PROVE  /\ SubSeq(q, 1, n) \in Seq(S) /\ Len(SubSeq(q, 1, n)) = n
         /\ SubSeq(q, n + 1, Len(q)) \in Seq(S) /\ Len(SubSeq(q, n + 1, Len(q))) = Len(q) - n
         /\ SubSeq(q, 1, n) \o SubSeq(q, n + 1, Len(q)) = q
  <1> DEFINE a == SubSeq(q, 1, n)  b == SubSeq(q, n + 1, Len(q))
  <1>1. Len(q) \in Nat /\ n \in Nat /\ n <= Len(q)
    OBVIOUS
  <1>2. a \in Seq(S) /\ Len(a) = n /\ \A i \in 1 .. n : a[i] = q[i]
    BY <1>1
  <1>3. b \in Seq(S) /\ Len(b) = Len(q) - n /\ \A i \in 1 .. (Len(q) - n) : b[i] = q[n + i]
    BY <1>1
  <1> HIDE DEF a, b
  <1>4. a \o b \in Seq(S) /\ Len(a \o b) = Len(q)
    BY <1>1, <1>2, <1>3
  <1>5. \A i \in 1 .. Len(q) : (a \o b)[i] = q[i]
    <2> SUFFICES ASSUME NEW i \in 1 .. Len(q) PROVE (a \o b)[i] = q[i]
      OBVIOUS
    <2>0. \A j \in 1 .. Len(b) : (a \o b)[Len(a) + j] = b[j]
      BY <1>2, <1>3
    <2>1. CASE i <= n
      BY SMTT(30), <1>1, <1>2, <1>3, <2>1
    <2>2. CASE i > n
      <3>1. i - n \in 1 .. (Len(q) - n) /\ n + (i - n) = i
        BY <1>1, <2>2
      <3>2. (a \o b)[n + (i - n)] = b[i - n]
        BY <1>2, <1>3, <2>0, <3>1
      <3> QED BY <1>3, <3>1, <3>2
    <2>3. i <= n \/ i > n
      BY <1>1
    <2> QED BY <2>1, <2>2, <2>3, Zenon
  <1> DEFINE r == a \o b
  <1>6. r = q
    <2>1. r \in Seq(S) /\ q \in Seq(S) /\ Len(r) = Len(q) /\ \A i \in 1 .. Len(r) : r[i] = q[i]
      BY <1>4, <1>5
    <2> HIDE DEF r
    <2> QED BY <2>1, SeqEqual, Zenon
  <1> QED BY <1>2, <1>3, <1>6 DEF a, b, r

\* A queue of one.
LEMMA One ==
  ASSUME NEW S, NEW s \in S
  PROVE  /\ <<s>> \in Seq(S) /\ Len(<<s>>) = 1 /\ Names(<<s>>) = {s} /\ Each(<<s>>)
         /\ <<>> \in Seq(S) /\ Len(<<>>) = 0 /\ Names(<<>>) = {} /\ Each(<<>>)
         /\ \A q \in Seq(S) : Append(q, s) = q \o <<s>>
  <1>1. DOMAIN <<s>> = {1} /\ <<s>>[1] = s /\ DOMAIN <<>> = {}
    OBVIOUS
  <1>2. Names(<<s>>) = {s} /\ Each(<<s>>) /\ Names(<<>>) = {} /\ Each(<<>>)
    BY <1>1 DEF Names, Each, Browser!Range, Browser!IsInjective
  <1>3. \A q \in Seq(S) : Append(q, s) = q \o <<s>>
    OBVIOUS
  <1> QED BY <1>2, <1>3

\* A server that is taken out of a queue is in it no more, and the others are.
LEMMA TakenOut ==
  ASSUME NEW S, NEW q \in Seq(S), Each(q), NEW s \in S
  PROVE  /\ Browser!FIFORemove(q, s) \in Seq(S) /\ Each(Browser!FIFORemove(q, s))
         /\ Names(Browser!FIFORemove(q, s)) = Names(q) \ {s}
         /\ Len(Browser!FIFORemove(q, s)) = IF s \in Names(q) THEN Len(q) - 1 ELSE Len(q)
  <1> DEFINE place(i) == q[i] = s /\ \A j \in 1 .. i - 1 : q[j] # s
             i == CHOOSE k \in DOMAIN q : place(k)
             a == SubSeq(q, 1, i - 1)  b == SubSeq(q, i + 1, Len(q))
  <1>1. CASE s \notin Names(q)
    BY <1>1 DEF Browser!FIFORemove, Names
  <1>2. CASE s \in Names(q)
    <2>1. PICK k \in DOMAIN q : q[k] = s
      BY <1>2 DEF Names, Browser!Range
    <2>2. \A j \in 1 .. k - 1 : q[j] # s
      BY <2>1 DEF Each, Browser!IsInjective
    <2>3. i \in DOMAIN q /\ q[i] = s
      <3>1. place(k)
        BY <2>1, <2>2
      <3> HIDE DEF place
      <3>2. i \in DOMAIN q /\ place(i)
        BY <2>1, <3>1
      <3> QED BY <3>2 DEF place
    <2>4. Browser!FIFORemove(q, s) = a \o b
      BY <1>2 DEF Browser!FIFORemove, Browser!RemoveAt, Names
    <2> HIDE DEF i
    <2>5. Len(q) \in Nat /\ i \in 1 .. Len(q) /\ i - 1 \in 0 .. Len(q) /\ i - 1 \in Nat /\ (i - 1) + 1 = i
      BY <2>3
    <2> DEFINE c == SubSeq(q, i, Len(q))
    <2>6. a \in Seq(S) /\ c \in Seq(S) /\ Len(a) = i - 1 /\ a \o c = q
      <3>1. /\ a \in Seq(S) /\ Len(a) = i - 1 /\ SubSeq(q, (i - 1) + 1, Len(q)) \in Seq(S)
            /\ a \o SubSeq(q, (i - 1) + 1, Len(q)) = q
        BY <2>5, Cut
      <3> QED BY <2>5, <3>1
    <2>7. b \in Seq(S) /\ Len(b) = Len(q) - i
      BY <2>5, Cut
    <2>8. c = <<s>> \o b
      <3>1. /\ Len(c) = Len(q) - i + 1 /\ Len(<<s>> \o b) = Len(q) - i + 1 /\ <<s>> \o b \in Seq(S)
        BY <2>5, <2>7
      <3>2. \A j \in 1 .. (Len(q) - i + 1) : c[j] = q[i + j - 1]
        BY <2>5
      <3>3. \A j \in 1 .. (Len(q) - i) : b[j] = q[i + j]
        BY SMTT(30), <2>5
      <3>4. \A j \in 1 .. (Len(q) - i + 1) : (<<s>> \o b)[j] = IF j = 1 THEN s ELSE b[j - 1]
        BY <2>5, <2>7
      <3>5. \A j \in 1 .. (Len(q) - i + 1) : (<<s>> \o b)[j] = c[j]
        <4> HIDE DEF b, c
        <4> SUFFICES ASSUME NEW j \in 1 .. (Len(q) - i + 1) PROVE (<<s>> \o b)[j] = c[j]
          OBVIOUS
        <4>1. CASE j = 1
          BY <2>3, <2>5, <3>2, <3>4, <4>1
        <4>2. CASE j # 1
          <5>1. j - 1 \in 1 .. (Len(q) - i) /\ i + (j - 1) = i + j - 1
            BY <2>5, <4>2
          <5> QED BY <3>2, <3>3, <3>4, <4>2, <5>1
        <4> QED BY <4>1, <4>2
      <3> HIDE DEF b, c
      <3> QED BY <2>6, <3>1, <3>5
    <2> HIDE DEF a, b, c
    <2>9. Each(a) /\ Each(c) /\ Names(a) \intersect Names(c) = {} /\ Names(q) = Names(a) \union Names(c)
      <3>1. /\ Names(a \o c) = Names(a) \union Names(c)
            /\ Each(a \o c) => Each(a) /\ Each(c) /\ Names(a) \intersect Names(c) = {}
        <4>1. a \in Seq(S) /\ c \in Seq(S)
          BY <2>6
        <4> QED BY <4>1, Joined
      <3> QED BY <2>6, <3>1
    <2>10. /\ Each(b) /\ s \notin Names(b) /\ Names(c) = {s} \union Names(b)
      <3>1. /\ Names(<<s>> \o b) = Names(<<s>>) \union Names(b)
            /\ Each(<<s>> \o b) => Each(<<s>>) /\ Each(b) /\ Names(<<s>>) \intersect Names(b) = {}
        <4> DEFINE t == <<s>>
        <4>1. t \in Seq(S) /\ b \in Seq(S)
          BY <2>7
        <4> HIDE DEF t
        <4>2. /\ Names(t \o b) = Names(t) \union Names(b)
              /\ Each(t \o b) => Each(t) /\ Each(b) /\ Names(t) \intersect Names(b) = {}
          BY <4>1, Joined
        <4> QED BY <4>2 DEF t
      <3>2. Names(<<s>>) = {s}
        BY One
      <3> QED BY <2>8, <2>9, <3>1, <3>2
    <2>11. /\ a \o b \in Seq(S) /\ Each(a \o b) /\ Names(a \o b) = Names(a) \union Names(b)
           /\ Len(a \o b) = Len(a) + Len(b)
      <3>1. Names(a) \intersect Names(b) = {}
        BY <2>9, <2>10
      <3>2. /\ a \o b \in Seq(S) /\ Names(a \o b) = Names(a) \union Names(b)
            /\ Len(a \o b) = Len(a) + Len(b)
            /\ Each(a) /\ Each(b) /\ Names(a) \intersect Names(b) = {} => Each(a \o b)
        <4>1. a \in Seq(S) /\ b \in Seq(S)
          BY <2>6, <2>7
        <4> QED BY <4>1, Joined
      <3> QED BY <2>9, <2>10, <3>1, <3>2
    <2>12. Len(a \o b) = Len(q) - 1
      BY <2>5, <2>6, <2>7, <2>11
    <2> QED BY <1>2, <2>4, <2>9, <2>10, <2>11, <2>12
  <1> QED BY <1>1, <1>2

\* A server that joins a queue it is not in, at either end.
LEMMA JoinedBy ==
  ASSUME NEW S, NEW q \in Seq(S), Each(q), NEW s \in S, s \notin Names(q)
  PROVE  /\ Append(q, s) = q \o <<s>>
         /\ q \o <<s>> \in Seq(S) /\ Each(q \o <<s>>) /\ Names(q \o <<s>>) = Names(q) \union {s}
         /\ <<s>> \o q \in Seq(S) /\ Each(<<s>> \o q) /\ Names(<<s>> \o q) = Names(q) \union {s}
         /\ Len(q \o <<s>>) = Len(q) + 1
  <1>1. /\ <<s>> \in Seq(S) /\ Names(<<s>>) = {s} /\ Each(<<s>>) /\ Append(q, s) = q \o <<s>>
        /\ Len(q \o <<s>>) = Len(q) + 1
    <2>1. <<s>> \in Seq(S) /\ Len(q \o <<s>>) = Len(q) + 1
      OBVIOUS
    <2> QED BY <2>1, One
  <1>2. /\ q \o <<s>> \in Seq(S)
        /\ Names(q \o <<s>>) = Names(q) \union Names(<<s>>)
        /\ Each(q) /\ Each(<<s>>) /\ Names(q) \intersect Names(<<s>>) = {} => Each(q \o <<s>>)
    BY <1>1, Joined
  <1>3. /\ <<s>> \o q \in Seq(S)
        /\ Names(<<s>> \o q) = Names(<<s>>) \union Names(q)
        /\ Each(<<s>>) /\ Each(q) /\ Names(<<s>>) \intersect Names(q) = {} => Each(<<s>> \o q)
    BY <1>1, Joined
  <1> QED BY <1>1, <1>2, <1>3

-----------------------------------------------------------------------------
(***************************************************************************)
(* The query engine                                                        *)
(***************************************************************************)
\* The type of the engine, and of a game.
Engines ==
  [bits : [Many -> SUBSET Browser!Bit], query : Seq(Many), pending : Seq(Many),
   wire : SUBSET (Many \X Browser!Packet), last : [Many -> Browser!Fate]]
AtMost == Games[part].maxUpdates

\* QueuesSound, of an engine, with the two queues apart; and but for some servers.
SoundBut(e, some) ==
  /\ Each(e.query) /\ Each(e.pending) /\ Names(e.query) \intersect Names(e.pending) = {}
  /\ Len(e.query) <= AtMost
  /\ \A s \in Many \ some : e.last[s] = "asked" <=> s \in Browser!Queued(e)
  /\ \A s \in Browser!Queued(e) : e.bits[s] \intersect Browser!Pending # {}
Sound(e) == SoundBut(e, {})

\* Who is queued is a server.
LEMMA QueuedAre ==
  ASSUME NEW e \in Engines
  PROVE  /\ Browser!Queued(e) = Names(e.query) \union Names(e.pending)
         /\ Browser!Queued(e) \subseteq Many
         /\ e.query \in Seq(Many) /\ e.pending \in Seq(Many)
  <1>1. e.query \in Seq(Many) /\ e.pending \in Seq(Many)
    BY DEF Engines
  <1>2. Names(e.query) \subseteq Many /\ Names(e.pending) \subseteq Many
    BY <1>1 DEF Names, Browser!Range
  <1> QED BY <1>1, <1>2 DEF Browser!Queued, Names

\* What is asked is a packet.
LEMMA AskedFor ==
  ASSUME NEW bits
  PROVE  Browser!Asks(bits) \in Browser!Packet
  BY DEF Browser!Asks, Browser!Packet

\* A query that is started: the last of those under way.
LEMMA Started ==
  ASSUME NEW e \in Engines, NEW s \in Many
  PROVE  LET f == Browser!StartQuery(e, s)
         IN /\ f \in Engines /\ f.bits = e.bits /\ f.last = e.last /\ f.pending = e.pending
            /\ f.query = e.query \o <<s>>
  <1> DEFINE w == e.wire \union {<<s, Browser!Asks(e.bits[s])>>}
             q == Append(e.query, s)
             f == [e EXCEPT !.query = q, !.wire = w]
  <1>1. w \in SUBSET (Many \X Browser!Packet)
    <2>1. e.wire \in SUBSET (Many \X Browser!Packet)
      BY DEF Engines
    <2> QED BY <2>1, AskedFor
  <1>2. q \in Seq(Many) /\ q = e.query \o <<s>>
    <2>1. e.query \in Seq(Many)
      BY DEF Engines
    <2> QED BY <2>1
  <1> HIDE DEF q, w
  <1>3. f \in Engines /\ f.bits = e.bits /\ f.last = e.last /\ f.pending = e.pending /\ f.query = q
    BY <1>1, <1>2 DEF Engines
  <1>4. Browser!StartQuery(e, s) = f
    BY Zenon DEF Browser!StartQuery, q, w
  <1> HIDE DEF f
  <1> QED BY <1>2, <1>3, <1>4

\* A server that is not queued is asked: it is queued, and nobody else is moved.
LEMMA UpdateKeeps ==
  ASSUME NEW e \in Engines, NEW s \in Many, SoundBut(e, {s}), s \notin Browser!Queued(e),
         AtMost \in Nat \ {0},
         NEW front, NEW kind \in Browser!Pending
  PROVE  LET f == Browser!UpdateServer(e, s, front, kind)
         IN f \in Engines /\ Sound(f) /\ Browser!Queued(f) = Browser!Queued(e) \union {s}
  <1> DEFINE f == Browser!UpdateServer(e, s, front, kind)
             new == (e.bits[s] \ (Browser!Pending \union {"asked.challenge"})) \union
                      ({kind} \union IF Games[part].challenge /\ kind # "asked.ping" THEN {"asked.challenge"} ELSE {})
  <1>1. /\ e.query \in Seq(Many) /\ e.pending \in Seq(Many) /\ e.bits \in [Many -> SUBSET Browser!Bit]
        /\ e.last \in [Many -> Browser!Fate] /\ e.wire \in SUBSET (Many \X Browser!Packet)
        /\ Browser!Queued(e) = Names(e.query) \union Names(e.pending)
        /\ Len(e.query) \in Nat
    <2>1. /\ e.query \in Seq(Many) /\ Browser!Queued(e) = Names(e.query) \union Names(e.pending)
      BY QueuedAre
    <2> QED BY <2>1 DEF Engines
  <1>2. new \in SUBSET Browser!Bit /\ new \intersect Browser!Pending # {}
    <2>1. kind \in new /\ kind \in Browser!Pending
      OBVIOUS
    <2>2. e.bits[s] \subseteq Browser!Bit
      BY <1>1
    <2> QED BY <2>1, <2>2 DEF Browser!Bit
  <1> DEFINE b == [e.bits EXCEPT ![s] = new]
             l == [e.last EXCEPT ![s] = "asked"]
             g == [e EXCEPT !.bits[s] = new, !.last[s] = "asked"]
             p == IF front THEN <<s>> \o g.pending ELSE Append(g.pending, s)
  <1>3. /\ g \in Engines /\ g.bits = b /\ g.last = l /\ g.query = e.query /\ g.pending = e.pending
    <2>1. "asked" \in Browser!Fate
      BY DEF Browser!Fate
    <2> HIDE DEF new
    <2> QED BY <1>2, <2>1 DEF Engines
  <1>4. f = IF Len(g.query) < AtMost THEN Browser!StartQuery(g, s) ELSE [g EXCEPT !.pending = p]
    <2> HIDE DEF AtMost
    <2> QED BY Zenon DEF Browser!UpdateServer, AtMost
  <1> HIDE DEF b, l, new, f, g
  <1>5. b[s] = new /\ l[s] = "asked" /\ \A t \in Many : t # s => b[t] = e.bits[t] /\ l[t] = e.last[t]
    BY <1>1 DEF b, l
  <1>6. /\ Each(e.query) /\ Each(e.pending) /\ Names(e.query) \intersect Names(e.pending) = {}
        /\ Len(e.query) <= AtMost /\ s \notin Names(e.query) /\ s \notin Names(e.pending)
        /\ \A t \in Many \ {s} : e.last[t] = "asked" <=> t \in Browser!Queued(e)
        /\ \A t \in Browser!Queued(e) : e.bits[t] \intersect Browser!Pending # {}
    BY <1>1 DEF SoundBut
  <1>7. /\ Append(e.query, s) = e.query \o <<s>>
        /\ e.query \o <<s>> \in Seq(Many) /\ Len(e.query \o <<s>>) = Len(e.query) + 1
        /\ Names(e.query \o <<s>>) = Names(e.query) \union {s} /\ Each(e.query \o <<s>>)
    <2>1. e.query \in Seq(Many) /\ Each(e.query) /\ s \notin Names(e.query)
      BY <1>1, <1>6
    <2> QED BY <2>1, JoinedBy
  <1>8. /\ Append(e.pending, s) = e.pending \o <<s>>
        /\ e.pending \o <<s>> \in Seq(Many)
        /\ Names(e.pending \o <<s>>) = Names(e.pending) \union {s} /\ Each(e.pending \o <<s>>)
        /\ <<s>> \o e.pending \in Seq(Many)
        /\ Names(<<s>> \o e.pending) = Names(e.pending) \union {s} /\ Each(<<s>> \o e.pending)
    <2>1. e.pending \in Seq(Many) /\ Each(e.pending) /\ s \notin Names(e.pending)
      BY <1>1, <1>6
    <2> QED BY <2>1, JoinedBy
  <1>9. /\ f.bits = b /\ f.last = l /\ f \in Engines
        /\ f.query \in Seq(Many) /\ f.pending \in Seq(Many)
        /\ Each(f.query) /\ Each(f.pending) /\ Names(f.query) \intersect Names(f.pending) = {}
        /\ Len(f.query) <= AtMost
        /\ Names(f.query) \union Names(f.pending) = Browser!Queued(e) \union {s}
    <2>1. CASE Len(e.query) < AtMost
      <3>1. f = Browser!StartQuery(g, s)
        BY <1>3, <1>4, <2>1
      <3>2. /\ f.bits = b /\ f.last = l /\ f.query = e.query \o <<s>> /\ f.pending = e.pending
            /\ f \in Engines
        BY <1>3, <3>1, Started
      <3>5. Len(f.query) <= AtMost
        BY <1>1, <1>7, <2>1, <3>2
      <3>6. /\ Each(f.query) /\ Each(f.pending) /\ Names(f.query) \intersect Names(f.pending) = {}
            /\ Names(f.query) \union Names(f.pending) = Browser!Queued(e) \union {s}
        BY <1>1, <1>6, <1>7, <3>2
      <3> QED BY <1>1, <1>7, <3>2, <3>5, <3>6
    <2>2. CASE ~(Len(e.query) < AtMost)
      <3>1. f = [g EXCEPT !.pending = p]
        BY <1>3, <1>4, <2>2
      <3>2. p \in Seq(Many) /\ Each(p) /\ Names(p) = Names(e.pending) \union {s}
        BY <1>1, <1>3, <1>6, <1>8
      <3> HIDE DEF p
      <3>3. /\ f.bits = b /\ f.last = l /\ f.query = e.query /\ f.pending = p
            /\ f \in Engines
        BY <1>3, <3>1, <3>2 DEF Engines
      <3>5. /\ Each(f.query) /\ Each(f.pending) /\ Names(f.query) \intersect Names(f.pending) = {}
            /\ Names(f.query) \union Names(f.pending) = Browser!Queued(e) \union {s}
        BY <1>1, <1>6, <3>2, <3>3
      <3> QED BY <1>1, <1>6, <3>2, <3>3, <3>5
    <2> QED BY <2>1, <2>2
  <1>10. Browser!Queued(f) = Browser!Queued(e) \union {s}
    BY <1>9, QueuedAre
  <1>11. \A t \in Many : f.last[t] = "asked" <=> t \in Browser!Queued(f)
    BY <1>5, <1>6, <1>9, <1>10
  <1>12. \A t \in Browser!Queued(f) : f.bits[t] \intersect Browser!Pending # {}
    <2> SUFFICES ASSUME NEW t \in Browser!Queued(f) PROVE f.bits[t] \intersect Browser!Pending # {}
      OBVIOUS
    <2>1. t \in Many
      BY <1>9, QueuedAre
    <2>2. CASE t = s
      BY <1>2, <1>5, <1>9, <2>2
    <2>3. CASE t # s
      <3>1. t \in Browser!Queued(e) /\ f.bits[t] = e.bits[t]
        BY <1>5, <1>9, <1>10, <2>1, <2>3
      <3> QED BY <1>6, <3>1
    <2> QED BY <2>2, <2>3
  <1>13. Sound(f)
    BY <1>9, <1>11, <1>12 DEF Sound, SoundBut
  <1> QED BY <1>9, <1>10, <1>13 DEF f

\* A server that is taken out of both queues is in neither.
LEMMA RemoveKeeps ==
  ASSUME NEW e \in Engines, NEW s \in Many, Sound(e), AtMost \in Nat
  PROVE  LET f == Browser!RemoveFromFIFOs(e, s)
         IN f \in Engines /\ SoundBut(f, {s}) /\ Browser!Queued(f) = Browser!Queued(e) \ {s}
  <1> DEFINE q == Browser!FIFORemove(e.query, s)
             p == Browser!FIFORemove(e.pending, s)
             f == [e EXCEPT !.query = q, !.pending = p]
  <1>1. /\ e.query \in Seq(Many) /\ e.pending \in Seq(Many) /\ Len(e.query) \in Nat
        /\ Browser!Queued(e) = Names(e.query) \union Names(e.pending)
    <2>1. e.query \in Seq(Many) /\ e.pending \in Seq(Many)
      BY DEF Engines
    <2> QED BY <2>1, QueuedAre
  <1>2. /\ Each(e.query) /\ Each(e.pending) /\ Names(e.query) \intersect Names(e.pending) = {}
        /\ Len(e.query) <= AtMost
        /\ \A t \in Many : e.last[t] = "asked" <=> t \in Browser!Queued(e)
        /\ \A t \in Browser!Queued(e) : e.bits[t] \intersect Browser!Pending # {}
    BY DEF Sound, SoundBut
  <1>3. /\ q \in Seq(Many) /\ Each(q) /\ Names(q) = Names(e.query) \ {s}
        /\ Len(q) = IF s \in Names(e.query) THEN Len(e.query) - 1 ELSE Len(e.query)
    BY <1>1, <1>2, TakenOut, ZenonT(30)
  <1>4. p \in Seq(Many) /\ Each(p) /\ Names(p) = Names(e.pending) \ {s}
    BY <1>1, <1>2, TakenOut, ZenonT(30)
  <1>5. Browser!RemoveFromFIFOs(e, s) = f
    BY Zenon DEF Browser!RemoveFromFIFOs
  <1> HIDE DEF q, p
  <1>6. /\ f \in Engines /\ f.bits = e.bits /\ f.last = e.last /\ f.query = q /\ f.pending = p
    BY <1>3, <1>4 DEF Engines
  <1> HIDE DEF f
  <1>7. Browser!Queued(f) = Browser!Queued(e) \ {s}
    BY <1>1, <1>3, <1>4, <1>6, QueuedAre
  <1>8. Len(f.query) <= AtMost
    BY <1>1, <1>2, <1>3, <1>6
  <1>9. SoundBut(f, {s})
    BY <1>2, <1>3, <1>4, <1>6, <1>7, <1>8 DEF SoundBut
  <1> QED BY <1>5, <1>6, <1>7, <1>9

\* An answer takes its server out of those under way.
LEMMA AnsweredKeeps ==
  ASSUME NEW e \in Engines, NEW s \in Many, Sound(e), AtMost \in Nat, s \in Names(e.query),
         NEW bits \in SUBSET Browser!Bit
  PROVE  LET f == Browser!Answered(e, s, bits)
         IN f \in Engines /\ Sound(f) /\ Browser!Queued(f) \subseteq Browser!Queued(e)
  <1> DEFINE q == Browser!FIFORemove(e.query, s)
             f == [e EXCEPT !.bits[s] = bits, !.query = q, !.last[s] = "updated"]
  <1>1. /\ e.query \in Seq(Many) /\ e.pending \in Seq(Many) /\ Len(e.query) \in Nat
        /\ Browser!Queued(e) = Names(e.query) \union Names(e.pending)
        /\ e.bits \in [Many -> SUBSET Browser!Bit] /\ e.last \in [Many -> Browser!Fate]
    <2>1. /\ e.query \in Seq(Many) /\ e.pending \in Seq(Many)
          /\ e.bits \in [Many -> SUBSET Browser!Bit] /\ e.last \in [Many -> Browser!Fate]
      BY DEF Engines
    <2> QED BY <2>1, QueuedAre
  <1>2. /\ Each(e.query) /\ Each(e.pending) /\ Names(e.query) \intersect Names(e.pending) = {}
        /\ Len(e.query) <= AtMost
        /\ \A t \in Many : e.last[t] = "asked" <=> t \in Browser!Queued(e)
        /\ \A t \in Browser!Queued(e) : e.bits[t] \intersect Browser!Pending # {}
    BY DEF Sound, SoundBut
  <1>3. /\ q \in Seq(Many) /\ Each(q) /\ Names(q) = Names(e.query) \ {s}
        /\ Len(q) = IF s \in Names(e.query) THEN Len(e.query) - 1 ELSE Len(e.query)
    BY <1>1, <1>2, TakenOut, ZenonT(30)
  <1>4. Browser!Answered(e, s, bits) = f
    BY Zenon DEF Browser!Answered
  <1> HIDE DEF q
  <1> DEFINE b == [e.bits EXCEPT ![s] = bits]
             l == [e.last EXCEPT ![s] = "updated"]
  <1>5. f \in Engines /\ f.bits = b /\ f.last = l /\ f.query = q /\ f.pending = e.pending
    <2>1. "updated" \in Browser!Fate
      BY DEF Browser!Fate
    <2> QED BY <1>3, <2>1 DEF Engines
  <1>6. l[s] = "updated" /\ \A t \in Many : t # s => b[t] = e.bits[t] /\ l[t] = e.last[t]
    BY <1>1
  <1> HIDE DEF f, b, l
  <1>7. Browser!Queued(f) = Browser!Queued(e) \ {s}
    BY <1>1, <1>2, <1>3, <1>5, QueuedAre
  <1>8. Len(f.query) <= AtMost
    BY <1>1, <1>2, <1>3, <1>5
  <1>9. \A t \in Many : f.last[t] = "asked" <=> t \in Browser!Queued(f)
    BY <1>2, <1>5, <1>6, <1>7
  <1>10. \A t \in Browser!Queued(f) : f.bits[t] \intersect Browser!Pending # {}
    BY <1>2, <1>5, <1>6, <1>7, QueuedAre
  <1>11. Sound(f)
    BY <1>2, <1>3, <1>5, <1>8, <1>9, <1>10 DEF Sound, SoundBut
  <1> QED BY <1>4, <1>5, <1>7, <1>11

\* A reply is an answer, or the challenge that the query is sent again with.
LEMMA ReplyKeeps ==
  ASSUME NEW e \in Engines, NEW s \in Many, NEW p, Sound(e), AtMost \in Nat, s \in Names(e.query)
  PROVE  LET f == Browser!Reply(e, s, p)
         IN f \in Engines /\ Sound(f) /\ Browser!Queued(f) \subseteq Browser!Queued(e)
  <1> DEFINE bits == e.bits[s]
             f == Browser!Reply(e, s, p)
             pinged == (bits \ {"asked.ping"}) \union {"ping"}
             known == (bits \ {"asked.basic", "asked.full"}) \union
                        IF "asked.basic" \in bits THEN {"basic", "ping"} ELSE {"full", "basic", "ping"}
  <1> SUFFICES f \in Engines /\ Sound(f) /\ Browser!Queued(f) \subseteq Browser!Queued(e)
    OBVIOUS
  <1>1. bits \in SUBSET Browser!Bit /\ e.bits \in [Many -> SUBSET Browser!Bit]
    BY DEF Engines
  <1>2. pinged \in SUBSET Browser!Bit /\ known \in SUBSET Browser!Bit
    BY <1>1 DEF Browser!Bit
  <1>3. CASE p = "ping"
    <2>1. f = Browser!Answered(e, s, pinged)
      BY <1>3 DEF Browser!Reply
    <2> HIDE DEF f, pinged
    <2> QED BY <1>2, <2>1, AnsweredKeeps
  <1>4. CASE p # "ping" /\ "asked.challenge" \notin bits
    <2>1. f = Browser!Answered(e, s, known)
      BY <1>4 DEF Browser!Reply
    <2> HIDE DEF f, known
    <2> QED BY <1>2, <2>1, AnsweredKeeps
  <1>5. CASE p # "ping" /\ "asked.challenge" \in bits
    <2> DEFINE q == Browser!FIFORemove(e.query, s)
               new == bits \ {"asked.challenge"}
               b == [e.bits EXCEPT ![s] = new]
               g == [e EXCEPT !.bits[s] = new, !.query = q]
    <2>1. f = Browser!StartQuery(g, s)
      BY <1>5, Zenon DEF Browser!Reply
    <2>2. /\ e.query \in Seq(Many) /\ e.pending \in Seq(Many) /\ Len(e.query) \in Nat
          /\ Browser!Queued(e) = Names(e.query) \union Names(e.pending)
      <3>1. e.query \in Seq(Many) /\ e.pending \in Seq(Many)
        BY DEF Engines
      <3> QED BY <3>1, QueuedAre
    <2>3. /\ Each(e.query) /\ Each(e.pending) /\ Names(e.query) \intersect Names(e.pending) = {}
          /\ Len(e.query) <= AtMost
          /\ \A t \in Many : e.last[t] = "asked" <=> t \in Browser!Queued(e)
          /\ \A t \in Browser!Queued(e) : e.bits[t] \intersect Browser!Pending # {}
      BY DEF Sound, SoundBut
    <2>4. /\ q \in Seq(Many) /\ Each(q) /\ Names(q) = Names(e.query) \ {s}
          /\ Len(q) = IF s \in Names(e.query) THEN Len(e.query) - 1 ELSE Len(e.query)
      BY <2>2, <2>3, TakenOut, ZenonT(30)
    <2>5. /\ new \in SUBSET Browser!Bit /\ new \intersect Browser!Pending = bits \intersect Browser!Pending
      BY <1>1 DEF Browser!Pending
    <2> HIDE DEF f, q, new, bits
    <2>6. g \in Engines /\ g.bits = b /\ g.last = e.last /\ g.query = q /\ g.pending = e.pending
      BY <2>4, <2>5 DEF Engines
    <2> HIDE DEF g
    <2>7. /\ f \in Engines /\ f.bits = b /\ f.last = e.last /\ f.pending = e.pending
          /\ f.query = q \o <<s>>
      BY <2>1, <2>6, Started
    <2>8. /\ q \o <<s>> \in Seq(Many) /\ Len(q \o <<s>>) = Len(q) + 1
          /\ Names(q \o <<s>>) = Names(q) \union {s} /\ Each(q \o <<s>>)
      <3>1. q \in Seq(Many) /\ Each(q) /\ s \notin Names(q)
        BY <2>4
      <3> QED BY <3>1, JoinedBy
    <2>9. Len(f.query) <= AtMost
      BY <2>2, <2>3, <2>4, <2>7, <2>8
    <2>10. Each(f.query) /\ Names(f.query) = Names(e.query)
      BY <2>4, <2>7, <2>8
    <2>11. Browser!Queued(f) = Browser!Queued(e)
      BY <2>2, <2>7, <2>10, QueuedAre
    <2>12. \A t \in Browser!Queued(f) : f.bits[t] \intersect Browser!Pending # {}
      <3> SUFFICES ASSUME NEW t \in Browser!Queued(f) PROVE f.bits[t] \intersect Browser!Pending # {}
        OBVIOUS
      <3>1. t \in Many /\ e.bits[t] \intersect Browser!Pending # {}
        BY <2>3, <2>11, QueuedAre
      <3>2. f.bits[t] = IF t = s THEN new ELSE e.bits[t]
        BY <1>1, <2>7, <3>1
      <3> QED BY <2>5, <3>1, <3>2 DEF bits
    <2>13. Sound(f)
      BY <2>3, <2>7, <2>9, <2>10, <2>11, <2>12 DEF Sound, SoundBut
    <2> QED BY <2>7, <2>11, <2>13
  <1> QED BY <1>3, <1>4, <1>5

\* The two parts of a queue that is cut, as to who is in them.
LEMMA CutApart ==
  ASSUME NEW S, NEW q \in Seq(S), Each(q), NEW n \in 0 .. Len(q)
  PROVE  LET a == SubSeq(q, 1, n)  b == SubSeq(q, n + 1, Len(q))
         IN /\ a \in Seq(S) /\ b \in Seq(S) /\ Len(a) = n /\ Len(b) = Len(q) - n /\ Each(a) /\ Each(b)
            /\ Names(a) \intersect Names(b) = {} /\ Names(q) = Names(a) \union Names(b)
  <1> DEFINE a == SubSeq(q, 1, n)
             b == SubSeq(q, n + 1, Len(q))
  <1>1. a \in Seq(S) /\ b \in Seq(S) /\ Len(a) = n /\ Len(b) = Len(q) - n /\ a \o b = q
    BY Cut
  <1> HIDE DEF a, b
  <1>2. /\ Names(a \o b) = Names(a) \union Names(b)
        /\ Each(a \o b) => Each(a) /\ Each(b) /\ Names(a) \intersect Names(b) = {}
    <2>1. a \in Seq(S) /\ b \in Seq(S)
      BY <1>1
    <2> QED BY <2>1, Joined
  <1>3. Each(a) /\ Each(b) /\ Names(a) \intersect Names(b) = {} /\ Names(q) = Names(a) \union Names(b)
    BY <1>1, <1>2
  <1> QED BY <1>1, <1>3 DEF a, b

\* Those that are too old are waited for no more.
LEMMA TimeoutKeeps ==
  ASSUME NEW e \in Engines, Sound(e), AtMost \in Nat, NEW n \in 0 .. Len(e.query)
  PROVE  LET f == Browser!Timeout(e, n)
         IN f \in Engines /\ Sound(f) /\ Browser!Queued(f) \subseteq Browser!Queued(e)
  <1> DEFINE a == SubSeq(e.query, 1, n)
             b == SubSeq(e.query, n + 1, Len(e.query))
             l == [s \in Many |-> IF s \in Browser!Range(a) THEN "failed" ELSE e.last[s]]
             f == [e EXCEPT !.query = b, !.last = l]
  <1>1. /\ e.query \in Seq(Many) /\ e.pending \in Seq(Many) /\ Len(e.query) \in Nat
        /\ Browser!Queued(e) = Names(e.query) \union Names(e.pending)
    <2>1. e.query \in Seq(Many) /\ e.pending \in Seq(Many)
      BY DEF Engines
    <2> QED BY <2>1, QueuedAre
  <1>2. /\ Each(e.query) /\ Each(e.pending) /\ Names(e.query) \intersect Names(e.pending) = {}
        /\ Len(e.query) <= AtMost
        /\ \A t \in Many : e.last[t] = "asked" <=> t \in Browser!Queued(e)
        /\ \A t \in Browser!Queued(e) : e.bits[t] \intersect Browser!Pending # {}
    BY DEF Sound, SoundBut
  <1>3. /\ a \in Seq(Many) /\ b \in Seq(Many) /\ Len(b) = Len(e.query) - n /\ Each(b)
        /\ Names(a) \intersect Names(b) = {} /\ Names(e.query) = Names(a) \union Names(b)
    BY <1>1, <1>2, CutApart
  <1>4. l \in [Many -> Browser!Fate] /\ \A s \in Many : l[s] = IF s \in Names(a) THEN "failed" ELSE e.last[s]
    <2>1. e.last \in [Many -> Browser!Fate] /\ "failed" \in Browser!Fate
      BY DEF Engines, Browser!Fate
    <2> HIDE DEF a
    <2> QED BY <2>1 DEF Names
  <1>5. Browser!Timeout(e, n) = f
    BY Zenon DEF Browser!Timeout
  <1> HIDE DEF a, b, l
  <1>6. f \in Engines /\ f.bits = e.bits /\ f.last = l /\ f.query = b /\ f.pending = e.pending
    BY <1>3, <1>4 DEF Engines
  <1> HIDE DEF f
  <1>7. Browser!Queued(f) = Browser!Queued(e) \ Names(a)
    BY <1>1, <1>2, <1>3, <1>6, QueuedAre
  <1>8. Len(f.query) <= AtMost
    BY <1>1, <1>2, <1>3, <1>6
  <1>9. \A t \in Many : f.last[t] = "asked" <=> t \in Browser!Queued(f)
    BY <1>2, <1>4, <1>6, <1>7
  <1>10. Sound(f)
    BY <1>2, <1>3, <1>6, <1>7, <1>8, <1>9 DEF Sound, SoundBut
  <1> QED BY <1>5, <1>6, <1>7, <1>10

\* Those that have waited longest are asked next, as many as there is room for.
LEMMA QueueNextKeeps ==
  ASSUME NEW e \in Engines, Sound(e), AtMost \in Nat
  PROVE  LET f == Browser!QueueNext(e)
         IN f \in Engines /\ Sound(f) /\ Browser!Queued(f) = Browser!Queued(e)
  <1> DEFINE room == IF Len(e.query) < AtMost THEN AtMost - Len(e.query) ELSE 0
             n == IF room < Len(e.pending) THEN room ELSE Len(e.pending)
             a == SubSeq(e.pending, 1, n)
             b == SubSeq(e.pending, n + 1, Len(e.pending))
             q == e.query \o a
             w == e.wire \union {<<s, Browser!Asks(e.bits[s])>> : s \in Browser!Range(a)}
             f == [e EXCEPT !.query = q, !.pending = b, !.wire = w]
  <1>1. /\ e.query \in Seq(Many) /\ e.pending \in Seq(Many)
        /\ Len(e.query) \in Nat /\ Len(e.pending) \in Nat
        /\ Browser!Queued(e) = Names(e.query) \union Names(e.pending)
        /\ e.wire \in SUBSET (Many \X Browser!Packet)
    <2>1. /\ e.query \in Seq(Many) /\ e.pending \in Seq(Many)
          /\ e.wire \in SUBSET (Many \X Browser!Packet)
      BY DEF Engines
    <2> QED BY <2>1, QueuedAre
  <1>2. /\ Each(e.query) /\ Each(e.pending) /\ Names(e.query) \intersect Names(e.pending) = {}
        /\ Len(e.query) <= AtMost
        /\ \A t \in Many : e.last[t] = "asked" <=> t \in Browser!Queued(e)
        /\ \A t \in Browser!Queued(e) : e.bits[t] \intersect Browser!Pending # {}
    BY DEF Sound, SoundBut
  <1>3. Browser!QueueNext(e) = f
    BY Zenon DEF Browser!QueueNext, AtMost
  <1>4. n \in 0 .. Len(e.pending) /\ Len(e.query) + n <= AtMost
    <2>1. \A i, k, m \in Nat : i <= m =>
            LET r == IF i < m THEN m - i ELSE 0
                x == IF r < k THEN r ELSE k
            IN x \in 0 .. k /\ i + x <= m
      OBVIOUS
    <2> HIDE DEF AtMost
    <2> QED BY <1>1, <1>2, <2>1, Zenon
  <1> HIDE DEF n
  <1>5. /\ a \in Seq(Many) /\ b \in Seq(Many) /\ Len(a) = n /\ Each(a) /\ Each(b)
        /\ Names(a) \intersect Names(b) = {} /\ Names(e.pending) = Names(a) \union Names(b)
    BY <1>1, <1>2, <1>4, CutApart
  <1>6. w \in SUBSET (Many \X Browser!Packet)
    <2>1. Browser!Range(a) \subseteq Many
      <3>1. Browser!Range(a) = Names(a)
        BY DEF Names
      <3>2. Browser!Range(a) \subseteq Browser!Queued(e)
        BY <1>1, <1>5, <3>1
      <3> QED BY <3>2, QueuedAre
    <2> HIDE DEF a
    <2> QED BY <1>1, <2>1, AskedFor
  <1> HIDE DEF a, b, w
  <1>7. /\ q \in Seq(Many) /\ Len(q) = Len(e.query) + Len(a) /\ Names(q) = Names(e.query) \union Names(a)
        /\ Each(e.query) /\ Each(a) /\ Names(e.query) \intersect Names(a) = {} => Each(q)
    <2>1. e.query \in Seq(Many) /\ a \in Seq(Many)
      BY <1>1, <1>5
    <2> QED BY <2>1, Joined
  <1> HIDE DEF q
  <1>8. /\ f \in Engines /\ f.bits = e.bits /\ f.last = e.last /\ f.query = q /\ f.pending = b
    BY <1>5, <1>6, <1>7 DEF Engines
  <1> HIDE DEF f
  <1>9. Each(f.query) /\ Names(f.query) \intersect Names(f.pending) = {}
    BY <1>2, <1>5, <1>7, <1>8
  <1>10. Browser!Queued(f) = Browser!Queued(e)
    BY <1>1, <1>5, <1>7, <1>8, QueuedAre
  <1>11. Len(f.query) <= AtMost
    BY <1>4, <1>5, <1>7, <1>8
  <1>12. Sound(f)
    BY <1>2, <1>5, <1>8, <1>9, <1>10, <1>11 DEF Sound, SoundBut
  <1> QED BY <1>3, <1>8, <1>10, <1>12

\* Nobody is asked any more.
LEMMA HaltedKeeps ==
  ASSUME NEW e \in Engines, Sound(e), AtMost \in Nat
  PROVE  LET f == Browser!Halted(e)
         IN f \in Engines /\ Sound(f) /\ Browser!Queued(f) = {}
  <1> DEFINE l == [s \in Many |-> IF s \in Browser!Queued(e) THEN "halted" ELSE e.last[s]]
             f == [e EXCEPT !.query = <<>>, !.pending = <<>>, !.last = l]
  <1>1. l \in [Many -> Browser!Fate] /\ \A s \in Many : l[s] # "asked"
    <2>1. e.last \in [Many -> Browser!Fate] /\ "halted" \in Browser!Fate
      BY DEF Engines, Browser!Fate
    <2>2. \A s \in Many : e.last[s] = "asked" <=> s \in Browser!Queued(e)
      BY DEF Sound, SoundBut
    <2> QED BY <2>1, <2>2
  <1>2. Browser!Halted(e) = f
    BY Zenon DEF Browser!Halted
  <1>3. <<>> \in Seq(Many) /\ Len(<<>>) = 0 /\ Names(<<>>) = {} /\ Each(<<>>)
    BY DEF Names, Each, Browser!Range, Browser!IsInjective
  <1> HIDE DEF l
  <1>4. f \in Engines /\ f.bits = e.bits /\ f.last = l /\ f.query = <<>> /\ f.pending = <<>>
    BY <1>1, <1>3 DEF Engines
  <1> HIDE DEF f
  <1>5. Browser!Queued(f) = {}
    BY <1>3, <1>4, QueuedAre
  <1>6. Sound(f)
    BY <1>1, <1>3, <1>4, <1>5 DEF Sound, SoundBut
  <1> QED BY <1>2, <1>4, <1>5, <1>6

\* Servers that are in no queue may be freed.
LEMMA FreedKeeps ==
  ASSUME NEW e \in Engines, NEW some \in SUBSET Many, SoundBut(e, some), AtMost \in Nat,
         some \intersect Browser!Queued(e) = {}
  PROVE  LET f == Browser!Freed(e, some)
         IN f \in Engines /\ Sound(f) /\ Browser!Queued(f) = Browser!Queued(e)
  <1> DEFINE b == [s \in Many |-> IF s \in some THEN {} ELSE e.bits[s]]
             l == [s \in Many |-> IF s \in some THEN "none" ELSE e.last[s]]
             f == [e EXCEPT !.bits = b, !.last = l]
  <1>1. b \in [Many -> SUBSET Browser!Bit] /\ l \in [Many -> Browser!Fate]
    <2>1. e.last \in [Many -> Browser!Fate] /\ "none" \in Browser!Fate /\ e.bits \in [Many -> SUBSET Browser!Bit]
      BY DEF Engines, Browser!Fate
    <2> QED BY <2>1
  <1>2. \A s \in Many : s \notin some => b[s] = e.bits[s] /\ l[s] = e.last[s]
    OBVIOUS
  <1>3. \A s \in some : l[s] # "asked"
    OBVIOUS
  <1>4. Browser!Freed(e, some) = f
    BY Zenon DEF Browser!Freed
  <1> HIDE DEF b, l
  <1>5. f \in Engines /\ f.bits = b /\ f.last = l /\ f.query = e.query /\ f.pending = e.pending
    BY <1>1 DEF Engines
  <1> HIDE DEF f
  <1>6. Browser!Queued(f) = Browser!Queued(e) /\ Browser!Queued(e) \subseteq Many
    BY <1>5, QueuedAre
  <1>7. /\ \A s \in Many : f.last[s] = "asked" <=> s \in Browser!Queued(f)
        /\ \A s \in Browser!Queued(f) : f.bits[s] \intersect Browser!Pending # {}
    <2>1. /\ \A s \in Many \ some : e.last[s] = "asked" <=> s \in Browser!Queued(e)
          /\ \A s \in Browser!Queued(e) : e.bits[s] \intersect Browser!Pending # {}
      BY DEF SoundBut
    <2> QED BY <1>2, <1>3, <1>5, <1>6, <2>1
  <1>8. Sound(f)
    BY <1>5, <1>7 DEF Sound, SoundBut
  <1> QED BY <1>4, <1>5, <1>6, <1>8

\* The bits that are not about what is asked may change.
LEMMA BitsKeep ==
  ASSUME NEW e \in Engines, Sound(e), NEW s \in Many, NEW bits \in SUBSET Browser!Bit,
         bits \intersect Browser!Pending = e.bits[s] \intersect Browser!Pending
  PROVE  LET f == [e EXCEPT !.bits[s] = bits]
         IN f \in Engines /\ Sound(f) /\ Browser!Queued(f) = Browser!Queued(e)
  <1> DEFINE f == [e EXCEPT !.bits[s] = bits]
             b == [e.bits EXCEPT ![s] = bits]
  <1>1. f \in Engines /\ f.bits = b /\ f.last = e.last /\ f.query = e.query /\ f.pending = e.pending
    BY DEF Engines
  <1>2. \A t \in Many : b[t] \intersect Browser!Pending = e.bits[t] \intersect Browser!Pending
    <2>1. e.bits \in [Many -> SUBSET Browser!Bit]
      BY DEF Engines
    <2> QED BY <2>1
  <1> HIDE DEF f, b
  <1>3. Browser!Queued(f) = Browser!Queued(e) /\ Browser!Queued(e) \subseteq Many
    BY <1>1, QueuedAre
  <1>4. Sound(f)
    BY <1>1, <1>2, <1>3 DEF Sound, SoundBut
  <1> QED BY <1>1, <1>3, <1>4 DEF f

\* Less is asked of one server than of none.
LEMMA SoundButOne ==
  ASSUME NEW e, Sound(e), NEW some
  PROVE  SoundBut(e, some)
  BY DEF Sound, SoundBut

-----------------------------------------------------------------------------
(***************************************************************************)
(* The list, and what the program asks for                                 *)
(***************************************************************************)
ListOK ==
  /\ Games[part] \in Browser!Game
  /\ servers \subseteq Games[part].servers /\ direct \subseteq Games[part].servers
  /\ list \in {"disconnected", "mainlist", "connected"}
  /\ {dontUpdate, updated} \subseteq BOOLEAN /\ aux \in 0 .. Games[part].maxAux
EngineOK(e) == e \in Engines /\ Sound(e)
BrowserInv == ListOK /\ EngineOK(engine) /\ Browser!Queued(engine) \subseteq servers

\* What the game's setup says of the sizes.
LEMMA GameIs ==
  ASSUME ListOK
  PROVE  /\ AtMost \in Nat \ {0} /\ AtMost \in Nat /\ servers \subseteq Many /\ Games[part].servers \subseteq Many
         /\ Games[part].maxAux \in Nat
  BY DEF ListOK, Browser!Game, AtMost

\* An engine that is sound under a setup stays so while the setup does.
LEMMA EngineOKNext ==
  ASSUME part' = part, EngineOK(engine')
  PROVE  EngineOK(engine)'
  BY DEF EngineOK, Engines, Sound, SoundBut, AtMost

\* What the steps owe to the invariant.
LEMMA StepKeeps ==
  ASSUME part' = part, ListOK, EngineOK(engine'), Browser!Queued(engine') \subseteq servers',
         servers' \subseteq Games[part].servers, direct' \subseteq Games[part].servers,
         list' \in {"disconnected", "mainlist", "connected"},
         {dontUpdate', updated'} \subseteq BOOLEAN, aux' \in 0 .. Games[part].maxAux
  PROVE  BrowserInv'
  <1>1. EngineOK(engine)'
    BY EngineOKNext
  <1>2. ListOK'
    BY DEF ListOK
  <1> QED BY <1>1, <1>2 DEF BrowserInv

\* A server that is not waited for is asked.
LEMMA AskedOnce ==
  ASSUME BrowserInv, NEW s \in Games[part].servers, engine.bits[s] \intersect Browser!Pending = {} \/ s \notin servers,
         NEW front, NEW kind \in Browser!Pending
  PROVE  LET f == Browser!UpdateServer(engine, s, front, kind)
         IN EngineOK(f) /\ Browser!Queued(f) \subseteq servers \union {s}
  <1> DEFINE f == Browser!UpdateServer(engine, s, front, kind)
  <1>1. engine \in Engines /\ Sound(engine) /\ Browser!Queued(engine) \subseteq servers
    BY DEF BrowserInv, EngineOK
  <1>2. s \in Many /\ AtMost \in Nat \ {0}
    BY GameIs DEF BrowserInv
  <1>3. s \notin Browser!Queued(engine)
    BY <1>1 DEF Sound, SoundBut
  <1>4. SoundBut(engine, {s})
    BY <1>1, SoundButOne
  <1>5. f \in Engines /\ Sound(f) /\ Browser!Queued(f) = Browser!Queued(engine) \union {s}
    BY <1>1, <1>2, <1>3, <1>4, UpdateKeeps
  <1> HIDE DEF f
  <1>6. EngineOK(f) /\ Browser!Queued(f) \subseteq servers \union {s}
    BY <1>1, <1>5 DEF EngineOK
  <1> QED BY <1>6 DEF f

\* The program thinks: one reply, or none, those that are too old, and the next.
LEMMA BrowserThinkKeeps ==
  ASSUME BrowserInv, Browser!Think, part' = part
  PROVE  BrowserInv'
  <1>1. engine \in Engines /\ Sound(engine) /\ Browser!Queued(engine) \subseteq servers /\ AtMost \in Nat /\ ListOK
    BY GameIs DEF BrowserInv, EngineOK
  <1>2. PICK got \in {engine} \union {Browser!Reply(engine, x[1], x[2]) :
                 x \in {y \in engine.wire : Browser!Arrives(engine, y[1], y[2])}} :
               \E n \in 0 .. Len(got.query) : engine' = Browser!QueueNext(Browser!Timeout(got, n))
    BY DEF Browser!Think
  <1>3. got \in Engines /\ Sound(got) /\ Browser!Queued(got) \subseteq Browser!Queued(engine)
    <2>1. CASE got = engine
      BY <1>1, <2>1
    <2>2. CASE got # engine
      <3>1. PICK x \in engine.wire : Browser!Arrives(engine, x[1], x[2]) /\ got = Browser!Reply(engine, x[1], x[2])
        BY <1>2, <2>2
      <3>2. x[1] \in Many
        <4>1. engine.wire \in SUBSET (Many \X Browser!Packet)
          BY <1>1 DEF Engines
        <4> QED BY <3>1, <4>1
      <3>3. x[1] \in Names(engine.query)
        BY <3>1 DEF Browser!Arrives, Names
      <3> QED BY <1>1, <3>1, <3>2, <3>3, ReplyKeeps
    <2> QED BY <2>1, <2>2
  <1>4. PICK n \in 0 .. Len(got.query) : engine' = Browser!QueueNext(Browser!Timeout(got, n))
    BY <1>2
  <1> DEFINE old == Browser!Timeout(got, n)
  <1>5. old \in Engines /\ Sound(old) /\ Browser!Queued(old) \subseteq Browser!Queued(got)
    BY <1>1, <1>3, TimeoutKeeps
  <1> HIDE DEF old
  <1>6. engine' \in Engines /\ Sound(engine') /\ Browser!Queued(engine') = Browser!Queued(old)
    <2>1. engine' = Browser!QueueNext(old)
      BY <1>4 DEF old
    <2> QED BY <1>1, <1>5, <2>1, QueueNextKeeps
  <1>7. /\ UNCHANGED <<servers, direct, list, dontUpdate, aux>>
        /\ updated' = (updated \/ engine'.query = <<>>)
    BY DEF Browser!Think
  <1>8. updated' \in BOOLEAN
    BY <1>7
  <1>9. EngineOK(engine') /\ Browser!Queued(engine') \subseteq servers'
    BY <1>1, <1>3, <1>5, <1>6, <1>7 DEF EngineOK
  <1> QED BY <1>1, <1>7, <1>8, <1>9, StepKeeps DEF ListOK

\* The list begins, is complete or breaks.
LEMMA ListStateKeeps ==
  ASSUME BrowserInv, Browser!BeginUpdate \/ Browser!ListComplete \/ Browser!ListError, part' = part
  PROVE  BrowserInv'
  <1>1. /\ UNCHANGED <<servers, direct, engine, dontUpdate, aux>>
        /\ list' \in {"disconnected", "mainlist", "connected"}
    BY DEF Browser!BeginUpdate, Browser!ListComplete, Browser!ListError
  <1>2. updated' \in BOOLEAN
    BY DEF Browser!BeginUpdate, Browser!ListComplete, Browser!ListError, BrowserInv, ListOK
  <1> QED BY <1>1, <1>2, StepKeeps DEF BrowserInv, ListOK

\* A server of the list is asked, if it is not waited for.
LEMMA ServerListedKeeps ==
  ASSUME BrowserInv, NEW s \in Games[part].servers, Browser!ServerListed(s), part' = part
  PROVE  BrowserInv'
  <1> DEFINE kind == CASE s \notin direct -> "asked.ping"
                       [] s \in direct /\ Games[part].basicFields -> "asked.basic"
                       [] s \in direct /\ ~Games[part].basicFields -> "asked.full"
  <1>1. /\ UNCHANGED <<direct, list, dontUpdate, updated, aux>> /\ servers' = servers \union {s}
        /\ engine' = IF engine.bits[s] \intersect Browser!Pending # {} \/ dontUpdate THEN engine
                     ELSE Browser!UpdateServer(engine, s, FALSE, kind)
    BY Zenon DEF Browser!ServerListed, Browser!Added
  <1>2. kind \in Browser!Pending
    BY DEF Browser!Pending
  <1> HIDE DEF kind
  <1>3. EngineOK(engine') /\ Browser!Queued(engine') \subseteq servers'
    <2>1. CASE engine.bits[s] \intersect Browser!Pending # {} \/ dontUpdate
      BY <1>1, <2>1 DEF BrowserInv
    <2>2. CASE engine.bits[s] \intersect Browser!Pending = {} /\ ~dontUpdate
      <3>1. engine' = Browser!UpdateServer(engine, s, FALSE, kind)
        BY <1>1, <2>2
      <3>2. \A front : LET f == Browser!UpdateServer(engine, s, front, kind)
                       IN EngineOK(f) /\ Browser!Queued(f) \subseteq servers \union {s}
        BY <1>2, <2>2, AskedOnce
      <3> QED BY <1>1, <3>1, <3>2, Zenon
    <2> QED BY <2>1, <2>2
  <1> QED BY <1>1, <1>3, StepKeeps DEF BrowserInv, ListOK

\* The master pushes keys.
LEMMA PushServerKeeps ==
  ASSUME BrowserInv, NEW s \in Games[part].servers, NEW known \in {{}, {"basic"}, {"full"}},
         Browser!PushServer(s, known), part' = part
  PROVE  BrowserInv'
  <1> DEFINE bits == IF known = {} THEN engine.bits[s] \ {"basic", "full"} ELSE engine.bits[s] \union known
  <1>1. /\ UNCHANGED <<servers, direct, list, dontUpdate, updated, aux>>
        /\ engine' = [engine EXCEPT !.bits[s] = bits]
    BY DEF Browser!PushServer
  <1>2. engine \in Engines /\ Sound(engine) /\ s \in Many
    BY GameIs DEF BrowserInv, EngineOK
  <1>3. bits \in SUBSET Browser!Bit /\ bits \intersect Browser!Pending = engine.bits[s] \intersect Browser!Pending
    <2>1. engine.bits[s] \in SUBSET Browser!Bit
      BY <1>2 DEF Engines
    <2> QED BY <2>1 DEF Browser!Bit, Browser!Pending
  <1> HIDE DEF bits
  <1>4. engine' \in Engines /\ Sound(engine') /\ Browser!Queued(engine') = Browser!Queued(engine)
    BY <1>1, <1>2, <1>3, BitsKeep
  <1>5. EngineOK(engine') /\ Browser!Queued(engine') \subseteq servers'
    BY <1>1, <1>4 DEF EngineOK, BrowserInv
  <1> QED BY <1>1, <1>5, StepKeeps DEF BrowserInv, ListOK

\* A server that is deleted is out of the queues before it is freed.
LEMMA DeleteServerKeeps ==
  ASSUME BrowserInv, NEW s \in Games[part].servers, Browser!DeleteServer(s), part' = part
  PROVE  BrowserInv'
  <1> DEFINE out == IF engine.bits[s] \intersect Browser!Pending # {}
                    THEN Browser!RemoveFromFIFOs(engine, s) ELSE engine
  <1>1. /\ UNCHANGED <<direct, list, dontUpdate, updated, aux>> /\ servers' = servers \ {s}
        /\ engine' = Browser!Freed(out, {s})
    BY Zenon DEF Browser!DeleteServer
  <1>2. /\ engine \in Engines /\ Sound(engine) /\ s \in Many /\ AtMost \in Nat
        /\ Browser!Queued(engine) \subseteq servers
    BY GameIs DEF BrowserInv, EngineOK
  <1>3. out \in Engines /\ SoundBut(out, {s}) /\ Browser!Queued(out) = Browser!Queued(engine) \ {s}
    <2>1. CASE engine.bits[s] \intersect Browser!Pending # {}
      BY <1>2, <2>1, RemoveKeeps
    <2>2. CASE engine.bits[s] \intersect Browser!Pending = {}
      <3>1. s \notin Browser!Queued(engine)
        BY <1>2, <2>2 DEF Sound, SoundBut
      <3>2. SoundBut(engine, {s})
        BY <1>2, SoundButOne
      <3>3. out = engine
        BY <2>2
      <3> HIDE DEF out
      <3> QED BY <1>2, <3>1, <3>2, <3>3
    <2> QED BY <2>1, <2>2
  <1> HIDE DEF out
  <1>4. engine' \in Engines /\ Sound(engine') /\ Browser!Queued(engine') = Browser!Queued(out)
    <2>1. {s} \in SUBSET Many /\ {s} \intersect Browser!Queued(out) = {}
      BY <1>2, <1>3
    <2> QED BY <1>1, <1>2, <1>3, <2>1, FreedKeeps
  <1>5. EngineOK(engine') /\ Browser!Queued(engine') \subseteq servers'
    BY <1>1, <1>2, <1>3, <1>4 DEF EngineOK
  <1> QED BY <1>1, <1>5, StepKeeps DEF BrowserInv, ListOK

\* Nobody is queued when the servers are freed.
LEMMA ClearedOK ==
  ASSUME BrowserInv
  PROVE  LET f == Browser!Freed(Browser!Halted(engine), Many)
         IN EngineOK(f) /\ Browser!Queued(f) = {}
  <1> DEFINE h == Browser!Halted(engine)
             f == Browser!Freed(h, Many)
  <1>1. engine \in Engines /\ Sound(engine) /\ AtMost \in Nat
    BY GameIs DEF BrowserInv, EngineOK
  <1>2. h \in Engines /\ Sound(h) /\ Browser!Queued(h) = {}
    BY <1>1, HaltedKeeps
  <1> HIDE DEF h
  <1>3. SoundBut(h, Many) /\ Many \in SUBSET Many /\ Many \intersect Browser!Queued(h) = {}
    BY <1>2, SoundButOne
  <1>4. f \in Engines /\ Sound(f) /\ Browser!Queued(f) = Browser!Queued(h)
    BY <1>1, <1>2, <1>3, FreedKeeps
  <1> HIDE DEF f
  <1>5. EngineOK(f) /\ Browser!Queued(f) = {}
    BY <1>2, <1>4 DEF EngineOK
  <1> QED BY <1>5 DEF f, h

\* The program halts, or clears the list.
LEMMA HaltKeeps ==
  ASSUME BrowserInv, Browser!Halt \/ Browser!Clear, part' = part
  PROVE  BrowserInv'
  <1>1. CASE Browser!Halt
    <2>1. /\ UNCHANGED <<servers, direct, dontUpdate, updated, aux>> /\ list' = "disconnected"
          /\ engine' = Browser!Halted(engine)
      BY <1>1 DEF Browser!Halt
    <2>2. engine \in Engines /\ Sound(engine) /\ AtMost \in Nat
      BY GameIs DEF BrowserInv, EngineOK
    <2>3. EngineOK(engine') /\ Browser!Queued(engine') \subseteq servers'
      BY <2>1, <2>2, HaltedKeeps DEF EngineOK
    <2> QED BY <2>1, <2>3, StepKeeps DEF BrowserInv, ListOK
  <1>2. CASE Browser!Clear
    <2>1. /\ UNCHANGED <<direct, dontUpdate, updated, aux>> /\ list' = "disconnected" /\ servers' = {}
          /\ engine' = Browser!Freed(Browser!Halted(engine), Many)
      BY <1>2 DEF Browser!Clear
    <2>2. EngineOK(engine') /\ Browser!Queued(engine') \subseteq servers'
      BY <2>1, ClearedOK
    <2> QED BY <2>1, <2>2, StepKeeps DEF BrowserInv, ListOK
  <1> QED BY <1>1, <1>2

\* What the program asks for is asked once more, never twice at once.
LEMMA AuxUpdateServerKeeps ==
  ASSUME BrowserInv, NEW s \in Games[part].servers, NEW full \in BOOLEAN,
         Browser!AuxUpdateServer(s, full), part' = part
  PROVE  BrowserInv'
  <1>1. /\ UNCHANGED <<servers, direct, updated>> /\ dontUpdate' = FALSE
        /\ s \in servers /\ aux < Games[part].maxAux /\ aux' = aux + 1
        /\ list' \in {list, "connected"}
    BY DEF Browser!AuxUpdateServer
  <1>2. /\ engine \in Engines /\ Sound(engine) /\ s \in Many /\ AtMost \in Nat \ {0} /\ AtMost \in Nat
        /\ Browser!Queued(engine) \subseteq servers
    BY GameIs DEF BrowserInv, EngineOK
  <1>3. EngineOK(engine') /\ Browser!Queued(engine') \subseteq servers'
    <2>1. CASE s \in direct
      <3> DEFINE out == Browser!RemoveFromFIFOs(engine, s)
                 kind == Browser!Wanted(full)
      <3>1. engine' = Browser!UpdateServer(out, s, TRUE, kind)
        BY <2>1 DEF Browser!AuxUpdateServer, Browser!AskAgain
      <3>2. out \in Engines /\ SoundBut(out, {s}) /\ Browser!Queued(out) = Browser!Queued(engine) \ {s}
        BY <1>2, RemoveKeeps
      <3>3. kind \in Browser!Pending
        BY DEF Browser!Wanted, Browser!Pending
      <3> HIDE DEF out, kind
      <3>4. s \notin Browser!Queued(out)
        BY <3>2
      <3>5. \A front : LET f == Browser!UpdateServer(out, s, front, kind)
                       IN f \in Engines /\ Sound(f) /\ Browser!Queued(f) = Browser!Queued(out) \union {s}
        BY <1>2, <3>2, <3>3, <3>4, UpdateKeeps
      <3>6. engine' \in Engines /\ Sound(engine') /\ Browser!Queued(engine') = Browser!Queued(out) \union {s}
        BY <3>1, <3>5, Zenon
      <3> QED BY <1>1, <1>2, <3>2, <3>6 DEF EngineOK
    <2>2. CASE s \notin direct
      <3>1. engine' = engine
        BY <2>2 DEF Browser!AuxUpdateServer
      <3> QED BY <1>1, <3>1 DEF BrowserInv
    <2> QED BY <2>1, <2>2
  <1>4. aux' \in 0 .. Games[part].maxAux
    BY <1>1, GameIs DEF BrowserInv, ListOK
  <1> QED BY <1>1, <1>3, <1>4, StepKeeps DEF BrowserInv, ListOK

\* A duplicate is refused.
LEMMA AuxUpdateIPKeeps ==
  ASSUME BrowserInv, NEW s \in Games[part].servers, NEW full \in BOOLEAN,
         Browser!AuxUpdateIP(s, full), part' = part
  PROVE  BrowserInv'
  <1> DEFINE duplicate == s \notin servers \/ engine.bits[s] \intersect Browser!Pending # {}
             kind == Browser!Wanted(full)
  <1>1. /\ UNCHANGED <<list, updated>> /\ servers' = servers \union {s}
        /\ aux < Games[part].maxAux /\ aux' = aux + 1
        /\ engine' = IF s \in servers /\ duplicate THEN engine
                     ELSE Browser!UpdateServer(engine, s, TRUE, kind)
        /\ dontUpdate' = duplicate
        /\ direct' = IF s \in servers THEN direct ELSE direct \union {s}
    BY Zenon DEF Browser!AuxUpdateIP
  <1>2. kind \in Browser!Pending
    BY DEF Browser!Wanted, Browser!Pending
  <1> HIDE DEF kind
  <1>3. EngineOK(engine') /\ Browser!Queued(engine') \subseteq servers'
    <2>1. CASE s \in servers /\ duplicate
      BY <1>1, <2>1 DEF BrowserInv
    <2>2. CASE ~(s \in servers /\ duplicate)
      <3>1. engine.bits[s] \intersect Browser!Pending = {} \/ s \notin servers
        BY <2>2
      <3>2. engine' = Browser!UpdateServer(engine, s, TRUE, kind)
        BY <1>1, <2>2, Zenon
      <3>3. \A front : LET f == Browser!UpdateServer(engine, s, front, kind)
                       IN EngineOK(f) /\ Browser!Queued(f) \subseteq servers \union {s}
        BY <1>2, <3>1, AskedOnce
      <3> QED BY <1>1, <3>2, <3>3, Zenon
    <2> QED BY <2>1, <2>2
  <1>4. dontUpdate' \in BOOLEAN
    BY <1>1
  <1> HIDE DEF duplicate
  <1>5. aux' \in 0 .. Games[part].maxAux
    BY <1>1, GameIs DEF BrowserInv, ListOK
  <1>6. direct' \subseteq Games[part].servers /\ servers' \subseteq Games[part].servers
    BY <1>1 DEF BrowserInv, ListOK
  <1> QED BY <1>1, <1>3, <1>4, <1>5, <1>6, StepKeeps DEF BrowserInv, ListOK

\* Every step of the browser.
LEMMA BrowserKeeps ==
  ASSUME BrowserInv, Browser!Next, part' = part
  PROVE  BrowserInv'
  <1>1. CASE Browser!Think
    BY <1>1, BrowserThinkKeeps
  <1>2. CASE Browser!BeginUpdate \/ Browser!ListComplete \/ Browser!ListError
    BY <1>2, ListStateKeeps
  <1>3. CASE Browser!Halt \/ Browser!Clear
    BY <1>3, HaltKeeps
  <1>4. ASSUME NEW s \in Games[part].servers, Browser!ServerListed(s)
        PROVE  BrowserInv'
    BY <1>4, ServerListedKeeps
  <1>5. ASSUME NEW s \in Games[part].servers, Browser!DeleteServer(s)
        PROVE  BrowserInv'
    BY <1>5, DeleteServerKeeps
  <1>6. ASSUME NEW s \in Games[part].servers, NEW known \in {{}, {"basic"}, {"full"}}, Browser!PushServer(s, known)
        PROVE  BrowserInv'
    BY <1>6, PushServerKeeps
  <1>7. ASSUME NEW s \in Games[part].servers, NEW full \in BOOLEAN, Browser!AuxUpdateServer(s, full)
        PROVE  BrowserInv'
    BY <1>7, AuxUpdateServerKeeps
  <1>8. ASSUME NEW s \in Games[part].servers, NEW full \in BOOLEAN, Browser!AuxUpdateIP(s, full)
        PROVE  BrowserInv'
    BY <1>8, AuxUpdateIPKeeps
  <1> QED BY <1>1, <1>2, <1>3, <1>4, <1>5, <1>6, <1>7, <1>8 DEF Browser!Next

-----------------------------------------------------------------------------
(***************************************************************************)
(* The search, and the parts                                               *)
(***************************************************************************)
SearchOK ==
  /\ phase \in {"start", "first", "filtered", "aux", "connect", "stopped"}
  /\ wanted \subseteq Games[part].servers
  /\ phase \in {"aux", "connect"} => wanted \subseteq servers /\ wanted # {}

QueuesInv ==
  /\ part \in DOMAIN Games => BrowserInv
  /\ part = "search" => SearchOK

\* The search takes steps of the browser, and the end of its first loop.
LEMMA SearchKeeps ==
  ASSUME BrowserInv, SearchOK, Browser!SearchNext, part' = part
  PROVE  BrowserInv' /\ SearchOK'
  <1>1. CASE Browser!StartsFirst
    <2>1. Browser!BeginUpdate /\ phase' = "first" /\ UNCHANGED <<servers, wanted>>
      BY <1>1 DEF Browser!StartsFirst, Browser!BeginUpdate
    <2> QED BY <2>1, ListStateKeeps DEF SearchOK
  <1>2. CASE Browser!Thinks
    <2>1. Browser!Think /\ UNCHANGED <<servers, phase, wanted>>
      BY <1>2 DEF Browser!Thinks, Browser!Think
    <2> QED BY <2>1, BrowserThinkKeeps DEF SearchOK
  <1>3. CASE Browser!Lists
    <2>1. UNCHANGED <<phase, wanted>>
      BY <1>3 DEF Browser!Lists
    <2>2. CASE Browser!ListComplete
      <3>1. servers' = servers
        BY <2>2 DEF Browser!ListComplete
      <3> QED BY <2>1, <2>2, <3>1, ListStateKeeps DEF SearchOK
    <2>3. ASSUME NEW s \in Games[part].servers, Browser!ServerListed(s)
          PROVE  BrowserInv' /\ SearchOK'
      <3>1. servers' = servers \union {s}
        BY <2>3 DEF Browser!ServerListed, Browser!Added
      <3> QED BY <2>1, <2>3, <3>1, ServerListedKeeps DEF SearchOK
    <2> QED BY <1>3, <2>2, <2>3 DEF Browser!Lists
  <1>4. CASE Browser!Pushes
    <2>1. PICK s \in Games[part].servers, known \in {{}, {"basic"}, {"full"}} : Browser!PushServer(s, known)
      BY <1>4 DEF Browser!Pushes
    <2>2. UNCHANGED <<servers, phase, wanted>>
      BY <1>4, <2>1 DEF Browser!Pushes, Browser!PushServer
    <2> QED BY <2>1, <2>2, PushServerKeeps DEF SearchOK
  <1>5. CASE Browser!Fails
    <2>1. Browser!ListError /\ phase' = "stopped" /\ UNCHANGED wanted
      BY <1>5 DEF Browser!Fails
    <2> QED BY <2>1, ListStateKeeps DEF SearchOK
  <1>6. CASE Browser!Filters
    <2>1. /\ servers' = {} /\ engine' = Browser!Freed(Browser!Halted(engine), Many) /\ list' = "mainlist"
          /\ updated' = FALSE /\ phase' = "filtered"
          /\ UNCHANGED <<direct, dontUpdate, aux, wanted>>
      BY <1>6 DEF Browser!Filters
    <2>2. EngineOK(engine') /\ Browser!Queued(engine') \subseteq servers'
      BY <2>1, ClearedOK
    <2>3. BrowserInv'
      BY <2>1, <2>2, StepKeeps DEF BrowserInv, ListOK
    <2> QED BY <2>1, <2>3 DEF SearchOK
  <1>7. CASE Browser!NotThere \/ Browser!Connects
    <2>1. /\ UNCHANGED <<servers, direct, list, engine, dontUpdate, updated, aux, wanted>>
          /\ phase' = "stopped" \/ (phase = "aux" /\ phase' = "connect")
      BY <1>7 DEF Browser!NotThere, Browser!Connects, Browser!vars
    <2>2. BrowserInv'
      BY <2>1, StepKeeps DEF BrowserInv, ListOK
    <2> QED BY <2>1, <2>2 DEF SearchOK
  <1>8. ASSUME NEW s \in Games[part].servers, Browser!AsksForKeys(s)
        PROVE  BrowserInv' /\ SearchOK'
    <2>1. Browser!AuxUpdateServer(s, TRUE) /\ phase' = "aux" /\ wanted' = {s}
      BY <1>8 DEF Browser!AsksForKeys
    <2>2. s \in servers /\ servers' = servers
      BY <2>1 DEF Browser!AuxUpdateServer
    <2>3. BrowserInv'
      <3>1. \A full \in BOOLEAN : Browser!AuxUpdateServer(s, full) => BrowserInv'
        BY AuxUpdateServerKeeps
      <3>2. TRUE \in BOOLEAN
        OBVIOUS
      <3> QED BY <2>1, <3>1, <3>2, Zenon
    <2> QED BY <2>1, <2>2, <2>3 DEF SearchOK
  <1> QED BY <1>1, <1>2, <1>3, <1>4, <1>5, <1>6, <1>7, <1>8 DEF Browser!SearchNext

\* The setups are setups.
LEMMA GamesAre ==
  /\ DOMAIN Games = {"pushed", "asked", "many", "search"}
  /\ \A p \in DOMAIN Games : Games[p] \in Browser!Game
  <1>1. Few \in SUBSET Many /\ Many \in SUBSET Many /\ AtOnce \in Nat \ {0} /\ AuxCalls \in Nat
        /\ 1 \in Nat \ {0} /\ 0 \in Nat
    BY PartsAssumption DEF PartsAssumption
  <1>2. OneByOne \in Browser!Game
    BY <1>1 DEF OneByOne, Browser!Game
  <1>3. /\ Games.pushed \in Browser!Game /\ Games.asked \in Browser!Game
        /\ Games.many \in Browser!Game /\ Games.search \in Browser!Game
    <2>1. [OneByOne EXCEPT !.stayConnected = TRUE, !.deletes = TRUE] \in Browser!Game
      BY <1>2 DEF Browser!Game
    <2>2. [OneByOne EXCEPT !.basicFields = FALSE, !.challenge = TRUE] \in Browser!Game
      BY <1>2 DEF Browser!Game
    <2>3. [OneByOne EXCEPT !.servers = Many, !.maxUpdates = AtOnce, !.maxAux = 0] \in Browser!Game
      BY <1>1, <1>2 DEF Browser!Game
    <2> HIDE DEF OneByOne, Browser!Game
    <2> QED BY <1>2, <2>1, <2>2, <2>3 DEF Games
  <1>4. DOMAIN Games = {"pushed", "asked", "many", "search"}
    BY DEF Games
  <1> QED BY <1>3, <1>4

\* An idle engine, before anything is asked.
LEMMA BrowserBegins ==
  ASSUME part \in DOMAIN Games, Browser!Init
  PROVE  BrowserInv
  <1>1. Games[part] \in Browser!Game
    BY GamesAre
  <1>2. /\ servers = {} /\ list = "disconnected" /\ direct \in SUBSET Games[part].servers
        /\ engine = [bits |-> [s \in Many |-> {}], query |-> <<>>, pending |-> <<>>, wire |-> {},
                     last |-> [s \in Many |-> "none"]]
        /\ dontUpdate = FALSE /\ updated = FALSE /\ aux = 0
    BY DEF Browser!Init
  <1>3. ListOK
    <2>1. Games[part].maxAux \in Nat
      BY <1>1 DEF Browser!Game
    <2>2. aux \in 0 .. Games[part].maxAux
      BY <1>2, <2>1
    <2>3. servers \subseteq Games[part].servers /\ direct \subseteq Games[part].servers
      BY <1>2
    <2> QED BY <1>1, <1>2, <2>2, <2>3 DEF ListOK
  <1>4. AtMost \in Nat
    BY <1>3, GameIs
  <1>5. engine \in Engines
    BY <1>2 DEF Engines, Browser!Fate
  <1>6. /\ engine.query = <<>> /\ engine.pending = <<>> /\ \A s \in Many : engine.last[s] = "none"
    BY <1>2
  <1>7. <<>> \in Seq(Many) /\ Len(<<>>) = 0 /\ Names(<<>>) = {} /\ Each(<<>>)
    BY DEF Names, Each, Browser!Range, Browser!IsInjective
  <1>8. Browser!Queued(engine) = {}
    BY <1>5, <1>6, <1>7, QueuedAre
  <1>9. Sound(engine)
    BY <1>4, <1>6, <1>7, <1>8 DEF Sound, SoundBut
  <1> QED BY <1>2, <1>3, <1>5, <1>8, <1>9 DEF BrowserInv, EngineOK

\* What does not move the browser keeps it.
LEMMA BrowserStays ==
  ASSUME QueuesInv, UNCHANGED <<part, browser, search>>
  PROVE  QueuesInv'
  <1>1. /\ part' = part
        /\ UNCHANGED <<servers, direct, list, engine, dontUpdate, updated, aux, phase, wanted>>
    BY DEF browser, search
  <1>2. BrowserInv => BrowserInv'
    BY <1>1, StepKeeps DEF BrowserInv, ListOK
  <1>3. SearchOK => SearchOK'
    BY <1>1 DEF SearchOK
  <1> QED BY <1>1, <1>2, <1>3 DEF QueuesInv

\* The invariant is what the run checks.
LEMMA QueuesInvIs ==
  ASSUME QueuesInv
  PROVE  QueuesSound
  <1>1. ASSUME part \in DOMAIN Games
        PROVE  Browser!TypeOK /\ Browser!QueuesSound
    <2>1. ListOK /\ engine \in Engines /\ Sound(engine) /\ Browser!Queued(engine) \subseteq servers
      BY <1>1 DEF QueuesInv, BrowserInv, EngineOK
    <2>2. Browser!TypeOK
      BY <2>1 DEF Browser!TypeOK, ListOK, Engines
    <2>3. Browser!IsInjective(engine.query \o engine.pending)
      <3>1. engine.query \in Seq(Many) /\ engine.pending \in Seq(Many)
        BY <2>1 DEF Engines
      <3>2. Each(engine.query) /\ Each(engine.pending) /\ Names(engine.query) \intersect Names(engine.pending) = {}
        BY <2>1 DEF Sound, SoundBut
      <3>3. Each(engine.query \o engine.pending)
        BY <3>1, <3>2, Joined
      <3> QED BY <3>3 DEF Each
    <2> QED BY <2>1, <2>2, <2>3 DEF Browser!QueuesSound, Sound, SoundBut, AtMost
  <1>2. part = "search" => Browser!SearchTypeOK
    BY DEF QueuesInv, SearchOK, Browser!SearchTypeOK
  <1> QED BY <1>1, <1>2 DEF QueuesSound

(***************************************************************************)
(* However many servers there are, however many are asked at once, and     *)
(* whatever is lost, late, doubled, pushed, deleted or asked again: nobody *)
(* is queued twice, nobody is under way above the limit, and exactly those *)
(* queued are waited for (sb_queryengine.c:364-402, 704-713).              *)
(***************************************************************************)
THEOREM QueuesSoundHolds == BrowsingSpec => []QueuesSound
  <1>1. Begins => QueuesInv
    <2> SUFFICES ASSUME Begins PROVE QueuesInv
      OBVIOUS
    <2>1. CASE part \in Alone
      <3>1. Browser!Init
        BY <2>1 DEF Begins, Alone
      <3>2. part \in DOMAIN Games /\ part # "search"
        BY <2>1, GamesAre DEF Alone
      <3> QED BY <3>1, <3>2, BrowserBegins DEF QueuesInv
    <2>2. CASE part = "search"
      <3>1. Browser!Init /\ phase = "start" /\ wanted = {}
        BY <2>2 DEF Begins, Alone, Browser!SearchInit
      <3>2. part \in DOMAIN Games
        BY <2>2, GamesAre
      <3> QED BY <3>1, <3>2, BrowserBegins DEF QueuesInv, SearchOK
    <2>3. CASE part \notin Alone /\ part # "search"
      <3>1. part \notin DOMAIN Games
        BY <2>3, GamesAre DEF Alone
      <3> QED BY <2>3, <3>1 DEF QueuesInv
    <2> QED BY <2>1, <2>2, <2>3
  <1>2. QueuesInv /\ [Moves]_browsing => QueuesInv'
    <2> SUFFICES ASSUME QueuesInv, [Moves]_browsing PROVE QueuesInv'
      OBVIOUS
    <2>1. CASE OfBrowser(Browser!Next)
      <3>1. part \in Alone /\ part' = part /\ Browser!Next
        BY <2>1 DEF OfBrowser
      <3>2. part \in DOMAIN Games /\ part # "search"
        BY <3>1, GamesAre DEF Alone
      <3>3. BrowserInv'
        BY <3>1, <3>2, BrowserKeeps DEF QueuesInv
      <3> QED BY <3>1, <3>2, <3>3 DEF QueuesInv
    <2>2. CASE OfSearch(Browser!SearchNext)
      <3>1. part = "search" /\ part' = part /\ Browser!SearchNext
        BY <2>2 DEF OfSearch
      <3>2. part \in DOMAIN Games
        BY <3>1, GamesAre
      <3>3. BrowserInv' /\ SearchOK'
        BY <3>1, <3>2, SearchKeeps DEF QueuesInv
      <3> QED BY <3>1, <3>3 DEF QueuesInv
    <2>3. CASE UNCHANGED <<part, browser, search>>
      BY <2>3, BrowserStays
    <2>4. CASE Moves /\ ~OfBrowser(Browser!Next) /\ ~OfSearch(Browser!SearchNext)
      <3>1. UNCHANGED <<part, browser, search>>
        BY <2>4 DEF Moves, OfHost, OfAnswer, OfStream
      <3> QED BY <2>3, <3>1
    <2>5. CASE UNCHANGED browsing
      <3>1. UNCHANGED <<part, browser, search>>
        BY <2>5 DEF browsing
      <3> QED BY <2>3, <3>1
    <2> QED BY <2>1, <2>2, <2>4, <2>5
  <1>3. QueuesInv => QueuesSound
    BY QueuesInvIs
  <1> QED BY <1>1, <1>2, <1>3, PTL DEF BrowsingSpec

-----------------------------------------------------------------------------
(***************************************************************************)
(* The list's stream                                                       *)
(***************************************************************************)
\* What has come and what was parsed of it: whole items, each taken for what it is.
Parsed ==
  /\ Parser!IsStream(stream)
  /\ taken \in Seq(Parser!Kind) /\ Len(taken) <= Len(stream.ends)
  /\ read \in Nat /\ parsed = Parser!End(Len(taken)) /\ parsed <= read
  /\ read <= Parser!Total /\ read - parsed <= stream.size
  /\ \A i \in DOMAIN taken : taken[i] = Parser!KindOf(stream, i)

\* All but the first header was decrypted, as it came or when the header was taken.
Clear ==
  /\ decrypted \in [1 .. Parser!Total -> Nat]
  /\ \A b \in 1 .. Parser!Total :
       decrypted[b] = IF taken # <<>> /\ b > Parser!End(1) /\ b <= read THEN 1 ELSE 0

\* Where the parser is after n items: what it expects and what it has counted are
\* the stream's own numbers.
Place(n) ==
  /\ pstate \in {"cryptheader", "fixedheader", "keylist", "uniquevaluelist", "servers", "finished"}
  /\ keys \in Nat /\ values \in Nat /\ expected \in Int
  /\ pstate = "cryptheader" => n = 0
  /\ pstate = "fixedheader" => n = 1
  /\ pstate = "keylist" =>
       /\ ~stream.noList
       /\ \/ expected = -1 /\ n = 2
          \/ expected = stream.keys /\ keys <= stream.keys /\ n = 3 + keys
  /\ pstate = "uniquevaluelist" =>
       /\ ~stream.noList
       /\ \/ expected = -1 /\ n = 3 + stream.keys
          \/ expected = stream.values /\ values <= stream.values /\ n = 4 + stream.keys + values
  /\ pstate = "servers" =>
       /\ ~stream.noList /\ n >= 4 + stream.keys + stream.values
       /\ n <= 4 + stream.keys + stream.values + stream.servers
  /\ pstate = "finished" =>
       n >= IF stream.noList THEN 2 ELSE 5 + stream.keys + stream.values + stream.servers

\* The list is over when the parser is; and while more is waited for, what there is
\* is not a whole item.
Waits ==
  /\ state \in {"mainlist", "connected", "disconnected"} /\ pc \in {"recv", "parse"}
  /\ state = "mainlist" => pstate # "finished"
  /\ state = "connected" => pstate = "finished"
  /\ pc = "recv" /\ state # "disconnected" => ~Parser!Whole

ParserInv == Parsed /\ Clear /\ Place(Len(taken)) /\ Waits

\* Items end one after the other.
LEMMA EndsGrow ==
  ASSUME Parser!IsStream(stream)
  PROVE  /\ Len(stream.ends) \in Nat /\ Parser!Total \in Nat /\ stream.size \in Nat
         /\ Parser!End(0) = 0
         /\ \A i \in 0 .. Len(stream.ends) : Parser!End(i) \in Nat /\ Parser!End(i) <= Parser!Total
         /\ \A i, j \in 0 .. Len(stream.ends) : i < j => Parser!End(i) < Parser!End(j)
         /\ \A i \in 1 .. Len(stream.ends) :
              Parser!End(i) - Parser!End(i - 1) >= 1 /\ Parser!End(i) - Parser!End(i - 1) <= stream.size
  <1> DEFINE ends == stream.ends
  <1>1. ends \in Seq(Nat) /\ stream.size \in Nat
    BY DEF Parser!IsStream, Parser!Stream
  <1>2. Len(ends) \in Nat /\ DOMAIN ends = 1 .. Len(ends) /\ \A i \in 1 .. Len(ends) : ends[i] \in Nat
    BY <1>1
  <1>3. \A i, j \in 1 .. Len(ends) : i < j => ends[i] < ends[j]
    BY <1>2 DEF Parser!IsStream
  <1>4. \A i \in 1 .. Len(ends) : ends[i] - (IF i = 1 THEN 0 ELSE ends[i - 1]) \in 1 .. stream.size
    BY <1>2 DEF Parser!IsStream
  <1>5. \A i \in 1 .. Len(ends) : Parser!End(i) = ends[i]
    BY DEF Parser!End
  <1>6. Parser!End(0) = 0
    BY DEF Parser!End
  <1>7. \A i \in 0 .. Len(ends) : Parser!End(i) \in Nat
    BY <1>2, <1>5, <1>6
  <1>8. \A i \in 1 .. Len(ends) : ends[i] >= 1
    <2> SUFFICES ASSUME NEW i \in 1 .. Len(ends) PROVE ends[i] >= 1
      OBVIOUS
    <2>1. 1 \in 1 .. Len(ends) /\ ends[1] >= 1
      BY <1>1, <1>2, <1>4
    <2> QED BY <1>2, <1>3, <2>1
  <1> HIDE DEF ends
  <1>9. \A i, j \in 0 .. Len(ends) : i < j => Parser!End(i) < Parser!End(j)
    BY <1>2, <1>3, <1>5, <1>6, <1>8
  <1>10. Parser!Total = Parser!End(Len(ends))
    BY DEF Parser!Total, ends
  <1>11. \A i \in 0 .. Len(ends) : Parser!End(i) <= Parser!Total
    BY <1>2, <1>7, <1>9, <1>10
  <1>12. \A i \in 1 .. Len(ends) :
           Parser!End(i) - Parser!End(i - 1) >= 1 /\ Parser!End(i) - Parser!End(i - 1) <= stream.size
    <2> SUFFICES ASSUME NEW i \in 1 .. Len(ends)
                 PROVE  Parser!End(i) - Parser!End(i - 1) >= 1 /\ Parser!End(i) - Parser!End(i - 1) <= stream.size
      OBVIOUS
    <2>1. ends[i] - (IF i = 1 THEN 0 ELSE ends[i - 1]) \in 1 .. stream.size
      BY <1>4
    <2>2. Parser!End(i - 1) = IF i = 1 THEN 0 ELSE ends[i - 1]
      <3>1. CASE i = 1
        BY <1>6, <3>1
      <3>2. CASE i # 1
        <4>1. i - 1 \in 1 .. Len(ends) /\ i - 1 \in Nat
          BY <1>2, <3>2
        <4> QED BY <1>5, <3>2, <4>1
      <3> QED BY <3>1, <3>2
    <2> QED BY <1>1, <1>2, <1>5, <1>7, <2>1, <2>2
  <1> QED BY <1>1, <1>2, <1>6, <1>7, <1>9, <1>10, <1>11, <1>12 DEF ends

\* What stands where.
LEMMA Layout ==
  ASSUME NEW x \in Parser!Stream, NEW i \in Nat \ {0}
  PROVE  LET lastKey == 3 + x.keys
             lastValue == lastKey + 1 + x.values
             marker == lastValue + x.servers + 1
         IN /\ x.keys \in Nat /\ x.values \in Nat /\ x.servers \in Nat /\ x.noList \in BOOLEAN
            /\ i = 1 => Parser!KindOf(x, i) = "crypt"
            /\ i = 2 => Parser!KindOf(x, i) = "fixed"
            /\ i > 2 /\ (x.noList \/ i > marker) => Parser!KindOf(x, i) = "message"
            /\ ~x.noList =>
                 /\ i = 3 => Parser!KindOf(x, i) = "keycount"
                 /\ i > 3 /\ i <= lastKey => Parser!KindOf(x, i) = "key"
                 /\ i = lastKey + 1 => Parser!KindOf(x, i) = "valuecount"
                 /\ i > lastKey + 1 /\ i <= lastValue => Parser!KindOf(x, i) = "value"
                 /\ i > lastValue /\ i < marker => Parser!KindOf(x, i) = "server"
                 /\ i = marker => Parser!KindOf(x, i) = "marker"
  <1> DEFINE k == 3 + x.keys
             v == k + 1 + x.values
             m == v + x.servers + 1
  <1>1. x.keys \in Nat /\ x.values \in Nat /\ x.servers \in Nat /\ x.noList \in BOOLEAN
    BY DEF Parser!Stream
  <1>2. Parser!KindOf(x, i) =
          CASE i = 1 -> "crypt"
            [] i = 2 -> "fixed"
            [] i > 2 /\ (x.noList \/ i > m) -> "message"
            [] i = 3 /\ ~x.noList -> "keycount"
            [] i \in 4 .. k /\ ~x.noList -> "key"
            [] i = k + 1 /\ ~x.noList -> "valuecount"
            [] i \in k + 2 .. v /\ ~x.noList -> "value"
            [] i \in v + 1 .. m - 1 /\ ~x.noList -> "server"
            [] i = m /\ ~x.noList -> "marker"
    BY DEF Parser!KindOf
  <1>3. k \in Nat /\ v \in Nat /\ m \in Nat /\ k >= 3 /\ v >= k + 1 /\ m >= v + 1
    BY <1>1
  <1> HIDE DEF k, v, m
  <1>4. i = 1 => Parser!KindOf(x, i) = "crypt"
    BY <1>1, <1>2, <1>3
  <1>5. i = 2 => Parser!KindOf(x, i) = "fixed"
    BY <1>1, <1>2, <1>3
  <1>6. i > 2 /\ (x.noList \/ i > m) => Parser!KindOf(x, i) = "message"
    BY <1>1, <1>2, <1>3
  <1>7. ~x.noList /\ i = 3 => Parser!KindOf(x, i) = "keycount"
    BY <1>1, <1>2, <1>3
  <1>8. ~x.noList /\ i > 3 /\ i <= k => Parser!KindOf(x, i) = "key"
    BY <1>1, <1>2, <1>3
  <1>9. ~x.noList /\ i = k + 1 => Parser!KindOf(x, i) = "valuecount"
    BY <1>1, <1>2, <1>3
  <1>10. ~x.noList /\ i > k + 1 /\ i <= v => Parser!KindOf(x, i) = "value"
    BY <1>1, <1>2, <1>3
  <1>11. ~x.noList /\ i > v /\ i < m => Parser!KindOf(x, i) = "server"
    BY <1>1, <1>2, <1>3
  <1>12. ~x.noList /\ i = m => Parser!KindOf(x, i) = "marker"
    BY <1>1, <1>2, <1>3
  <1> QED BY <1>1, <1>4, <1>5, <1>6, <1>7, <1>8, <1>9, <1>10, <1>11, <1>12 DEF k, v, m

\* An item that is taken for what it is leaves all but the place as it should be.
LEMMA ItemTaken ==
  ASSUME Parsed, Parser!Whole, NEW as \in Parser!Kind, as = Parser!KindOf(stream, Len(taken) + 1),
         Parser!Takes(as), stream' = stream, read' = read
  PROVE  Parsed' /\ Len(taken') = Len(taken) + 1 /\ Len(taken) \in Nat
  <1> DEFINE n == Len(taken)
             ends == stream.ends
  <1>1. Parser!IsStream(stream) /\ taken \in Seq(Parser!Kind) /\ n \in Nat /\ read \in Nat
    BY DEF Parsed
  <1>2. Len(ends) \in Nat /\ n + 1 <= Len(ends) /\ Parser!End(n + 1) <= read
    BY <1>1, EndsGrow DEF Parser!Whole, Parser!Index
  <1>3. taken' = Append(taken, as) /\ parsed' = Parser!End(n + 1)
    BY DEF Parser!Takes, Parser!Index
  <1>4. /\ taken' \in Seq(Parser!Kind) /\ Len(taken') = n + 1 /\ DOMAIN taken' = 1 .. n + 1
        /\ DOMAIN taken = 1 .. n
        /\ \A i \in 1 .. n : taken'[i] = taken[i]
        /\ taken'[n + 1] = as
    BY <1>1, <1>3
  <1>5. \A i \in DOMAIN taken' : taken'[i] = Parser!KindOf(stream', i)
    BY <1>1, <1>4 DEF Parsed
  <1>6. parsed' = Parser!End(Len(taken))' /\ parsed' <= read' /\ read' <= Parser!Total'
    <2>1. Parser!End(Len(taken))' = Parser!End(n + 1) /\ Parser!Total' = Parser!Total
      BY <1>4 DEF Parser!End, Parser!Total
    <2> QED BY <1>2, <1>3, <2>1 DEF Parsed
  <1>7. read' - parsed' <= stream'.size
    <2>1. /\ Parser!End(n) < Parser!End(n + 1)
          /\ Parser!End(n) \in Nat /\ Parser!End(n + 1) \in Nat /\ stream.size \in Nat
      BY <1>1, <1>2, EndsGrow
    <2>2. read - Parser!End(n) <= stream.size
      BY DEF Parsed
    <2> QED BY <1>1, <1>3, <2>1, <2>2
  <1>8. Parser!IsStream(stream')
    BY <1>1
  <1> QED BY <1>1, <1>2, <1>4, <1>5, <1>6, <1>7, <1>8 DEF Parsed

\* What was decrypted stays so, when nothing comes.
LEMMA ClearStays ==
  ASSUME Clear, taken # <<>> \/ taken' = taken, taken' # <<>> \/ taken' = taken,
         stream' = stream, read' = read, decrypted' = decrypted
  PROVE  Clear'
  BY DEF Clear, Parser!Total, Parser!End

\* Whoever is past the first header has taken something.
LEMMA PastHeader ==
  ASSUME Parsed, Place(Len(taken)), pstate # "cryptheader"
  PROVE  taken # <<>> /\ Len(taken) >= 1 /\ Parser!End(1) <= read /\ Parser!End(1) \in Nat
  <1>1. Len(taken) \in Nat /\ Parser!IsStream(stream) /\ read \in Nat
    BY DEF Parsed
  <1>2. stream.keys \in Nat /\ stream.values \in Nat /\ stream.servers \in Nat
    BY <1>1 DEF Parser!IsStream, Parser!Stream
  <1>3. Len(taken) >= 1
    <2>1. keys \in Nat /\ values \in Nat
      BY DEF Place
    <2>2. CASE pstate = "fixedheader"
      BY <2>2 DEF Place
    <2>3. CASE pstate = "keylist"
      <3>1. Len(taken) = 2 \/ Len(taken) = 3 + keys
        BY <2>3 DEF Place
      <3> QED BY <2>1, <3>1
    <2>4. CASE pstate = "uniquevaluelist"
      BY <1>1, <1>2, <2>1, <2>4 DEF Place
    <2>5. CASE pstate = "servers"
      BY <1>1, <1>2, <2>5 DEF Place
    <2>6. CASE pstate = "finished"
      BY <1>1, <1>2, <2>6 DEF Place
    <2>7. pstate \in {"fixedheader", "keylist", "uniquevaluelist", "servers", "finished"}
      BY DEF Place
    <2> QED BY <2>2, <2>3, <2>4, <2>5, <2>6, <2>7
  <1>4. taken # <<>>
    BY <1>3
  <1>5. Parser!End(1) <= Parser!End(Len(taken)) /\ Parser!End(1) \in Nat /\ Parser!End(Len(taken)) \in Nat
    <2>1. Len(stream.ends) \in Nat /\ 1 \in 0 .. Len(stream.ends) /\ Len(taken) \in 0 .. Len(stream.ends)
      BY <1>1, <1>3, EndsGrow DEF Parsed
    <2> QED BY <1>1, <1>3, <2>1, EndsGrow
  <1> QED BY <1>1, <1>3, <1>4, <1>5 DEF Parsed

\* An item after the first header, whatever it does to the place.
LEMMA LaterItem ==
  ASSUME ParserInv, pstate # "cryptheader", Parser!Whole,
         NEW as \in Parser!Kind, as = Parser!KindOf(stream, Len(taken) + 1), Parser!Takes(as),
         stream' = stream, read' = read, decrypted' = decrypted
  PROVE  Parsed' /\ Clear' /\ Len(taken') = Len(taken) + 1 /\ Len(taken) \in Nat
  <1>1. Parsed' /\ Len(taken') = Len(taken) + 1 /\ Len(taken) \in Nat
    BY ItemTaken DEF ParserInv
  <1>2. taken # <<>>
    BY PastHeader DEF ParserInv
  <1>3. taken' # <<>>
    BY <1>1
  <1> QED BY <1>1, <1>2, <1>3, ClearStays DEF ParserInv

\* Bytes that come are decrypted if the key is known.
LEMMA RecvKeeps ==
  ASSUME ParserInv, NEW n \in 1 .. stream.size, Parser!Recv(n)
  PROVE  ParserInv'
  <1>1. /\ stream' = stream /\ taken' = taken /\ parsed' = parsed /\ read' = read + n
        /\ state' = state /\ pstate' = pstate /\ pc' = "parse"
        /\ expected' = expected /\ keys' = keys /\ values' = values
        /\ read + n <= Parser!Total /\ read - parsed + n <= stream.size
    BY DEF Parser!Recv, Parser!Reads, Parser!counters
  <1>2. /\ Parsed /\ Parser!IsStream(stream) /\ read \in Nat
        /\ Len(taken) \in Nat /\ Len(taken) \in 0 .. Len(stream.ends)
    BY EndsGrow DEF ParserInv, Parsed
  <1>3. Parser!Total \in Nat /\ stream.size \in Nat /\ parsed \in Nat
    BY <1>2, EndsGrow DEF Parsed
  <1>4. Parsed'
    <2>1. /\ Parser!IsStream(stream)' /\ Parser!Total' = Parser!Total
          /\ Parser!End(Len(taken))' = Parser!End(Len(taken))
          /\ \A i \in DOMAIN taken : Parser!KindOf(stream, i)' = Parser!KindOf(stream, i)
      BY <1>1, <1>2 DEF Parser!Total, Parser!End
    <2>2. read' \in Nat /\ read <= read' /\ parsed <= read /\ read' - parsed <= stream.size
      BY <1>1, <1>2, <1>3 DEF Parsed
    <2>3. parsed <= read'
      BY <1>1, <1>2, <1>3, <2>2
    <2> QED BY <1>1, <1>2, <2>1, <2>2, <2>3 DEF Parsed
  <1>5. Clear'
    <2>1. decrypted' \in [1 .. Parser!Total -> Nat]
      <3>1. decrypted \in [1 .. Parser!Total -> Nat] /\ DOMAIN decrypted = 1 .. Parser!Total
        BY DEF ParserInv, Clear
      <3>2. \/ decrypted' = decrypted
            \/ decrypted' = [b \in 1 .. Parser!Total |->
                               IF b \in read + 1 .. read + n THEN decrypted[b] + 1 ELSE decrypted[b]]
        BY <3>1 DEF Parser!Recv, Parser!Reads, Parser!Decrypt
      <3> QED BY <3>1, <3>2
    <2>2. CASE pstate = "cryptheader"
      <3>1. taken = <<>>
        BY <1>2, <2>2 DEF ParserInv, Place, Parsed
      <3>2. decrypted' = decrypted
        BY <2>2 DEF ParserInv, Waits, Parser!Recv, Parser!Reads
      <3> QED BY <1>1, <2>1, <3>1, <3>2 DEF ParserInv, Clear, Parser!Total, Parser!End
    <2>3. CASE pstate # "cryptheader"
      <3>1. taken # <<>> /\ Parser!End(1) <= read /\ Parser!End(1) \in Nat
        BY <2>3, PastHeader DEF ParserInv
      <3>2. decrypted' = [b \in 1 .. Parser!Total |->
                            IF b \in read + 1 .. read + n THEN decrypted[b] + 1 ELSE decrypted[b]]
        BY <2>3 DEF ParserInv, Clear, Parser!Recv, Parser!Reads, Parser!Decrypt
      <3>3. \A b \in 1 .. Parser!Total : decrypted'[b] = IF b > Parser!End(1) /\ b <= read + n THEN 1 ELSE 0
        <4> SUFFICES ASSUME NEW b \in 1 .. Parser!Total
                     PROVE  decrypted'[b] = IF b > Parser!End(1) /\ b <= read + n THEN 1 ELSE 0
          OBVIOUS
        <4>1. decrypted[b] = IF b > Parser!End(1) /\ b <= read THEN 1 ELSE 0
          BY <3>1 DEF ParserInv, Clear
        <4>2. decrypted'[b] = IF b \in read + 1 .. read + n THEN decrypted[b] + 1 ELSE decrypted[b]
          BY <3>2
        <4> QED BY <1>2, <1>3, <3>1, <4>1, <4>2
      <3>4. Parser!Total' = Parser!Total /\ Parser!End(1)' = Parser!End(1)
        BY <1>1 DEF Parser!Total, Parser!End
      <3> QED BY <1>1, <2>1, <3>1, <3>3, <3>4 DEF Clear
    <2> QED BY <2>2, <2>3
  <1>6. Place(Len(taken))'
    BY <1>1 DEF ParserInv, Place
  <1>7. Waits'
    BY <1>1 DEF ParserInv, Waits
  <1> QED BY <1>4, <1>5, <1>6, <1>7 DEF ParserInv

\* The end of the list.
LEMMA InTheList ==
  ASSUME NEW x \in Parser!Stream, NEW i \in Nat \ {0}, ~x.noList
  PROVE  LET v == 4 + x.keys + x.values
             m == v + x.servers + 1
         IN /\ i > v /\ i < m => Parser!KindOf(x, i) = "server"
            /\ i = m => Parser!KindOf(x, i) = "marker"
  BY Layout

\* The fixed header: then the keys, or nothing but messages.
LEMMA FixedHeaderKeeps ==
  ASSUME ParserInv, Parser!FixedHeader
  PROVE  ParserInv'
  <1>1. /\ pstate = "fixedheader" /\ Parser!Whole /\ Parser!Takes("fixed") /\ pc = "parse"
        /\ stream' = stream /\ read' = read /\ decrypted' = decrypted
        /\ pc' = pc /\ keys' = keys /\ values' = values /\ expected' = -1
        /\ IF stream.noList THEN pstate' = "finished" /\ state' = "connected"
           ELSE pstate' = "keylist" /\ state' = state /\ state = "mainlist"
    BY DEF Parser!FixedHeader, Parser!InList, Parser!counters, Parser!MayDisconnect, Parser!Disconnected, Parser!Count, Parser!Index
  <1>2. /\ Len(taken) \in Nat /\ Parser!IsStream(stream)
        /\ keys \in Nat /\ values \in Nat
        /\ stream \in Parser!Stream /\ stream.keys \in Nat /\ stream.values \in Nat /\ stream.servers \in Nat
    BY DEF ParserInv, Parsed, Place, Parser!IsStream, Parser!Stream
  <1>3. Len(taken) = 1
    BY <1>1, <1>2 DEF ParserInv, Place, Waits
  <1>4. Parser!KindOf(stream, Len(taken) + 1) = "fixed"
    BY <1>1, <1>2, <1>3, Layout
  <1>5. Parsed' /\ Clear' /\ Len(taken') = Len(taken) + 1
    <2>1. "fixed" \in Parser!Kind
      BY DEF Parser!Kind
    <2> QED BY <1>1, <1>4, <2>1, LaterItem
  <1>6. Place(Len(taken))'
    BY <1>1, <1>2, <1>3, <1>5 DEF ParserInv, Place
  <1>7. Waits'
    BY <1>1 DEF ParserInv, Waits
  <1> QED BY <1>5, <1>6, <1>7 DEF ParserInv

\* The number of keys.
LEMMA KeyCountKeeps ==
  ASSUME ParserInv, Parser!KeyCount
  PROVE  ParserInv'
  <1>1. /\ pstate = "keylist" /\ Parser!Whole /\ Parser!Takes("keycount") /\ pc = "parse"
        /\ stream' = stream /\ read' = read /\ decrypted' = decrypted
        /\ state' = state /\ pc' = pc /\ pstate' = pstate /\ values' = values /\ keys' = 0 /\ expected = -1
        /\ expected' = CASE Parser!KindOf(stream, Len(taken) + 1) = "keycount" -> stream.keys
                         [] Parser!KindOf(stream, Len(taken) + 1) = "valuecount" -> stream.values
                         [] Parser!KindOf(stream, Len(taken) + 1) \notin {"keycount", "valuecount"} -> 0
    BY DEF Parser!KeyCount, Parser!InList, Parser!counters, Parser!MayDisconnect, Parser!Disconnected, Parser!Count, Parser!Index
  <1>2. /\ Len(taken) \in Nat /\ Parser!IsStream(stream)
        /\ keys \in Nat /\ values \in Nat
        /\ stream \in Parser!Stream /\ stream.keys \in Nat /\ stream.values \in Nat /\ stream.servers \in Nat
    BY DEF ParserInv, Parsed, Place, Parser!IsStream, Parser!Stream
  <1>3. ~stream.noList /\ Len(taken) = 2
    BY <1>1, <1>2 DEF ParserInv, Place, Waits
  <1>4. Parser!KindOf(stream, Len(taken) + 1) = "keycount"
    BY <1>1, <1>2, <1>3, Layout
  <1>5. Parsed' /\ Clear' /\ Len(taken') = Len(taken) + 1
    <2>1. "keycount" \in Parser!Kind
      BY DEF Parser!Kind
    <2> QED BY <1>1, <1>4, <2>1, LaterItem
  <1>6. Place(Len(taken))'
    <2>1. expected' = stream.keys
      BY <1>1, <1>4
    <2> QED BY <1>1, <1>2, <1>3, <1>5, <2>1 DEF ParserInv, Place
  <1>7. Waits'
    BY <1>1 DEF ParserInv, Waits
  <1> QED BY <1>5, <1>6, <1>7 DEF ParserInv

\* A key that is still expected.
LEMMA KeyKeeps ==
  ASSUME ParserInv, Parser!Key
  PROVE  ParserInv'
  <1>1. /\ pstate = "keylist" /\ Parser!Whole /\ Parser!Takes("key") /\ pc = "parse"
        /\ stream' = stream /\ read' = read /\ decrypted' = decrypted
        /\ state' = state /\ pc' = pc /\ pstate' = pstate /\ values' = values /\ expected' = expected
        /\ keys' = keys + 1 /\ expected > keys
    BY DEF Parser!Key, Parser!InList, Parser!counters, Parser!MayDisconnect, Parser!Disconnected, Parser!Count, Parser!Index
  <1>2. /\ Len(taken) \in Nat /\ Parser!IsStream(stream)
        /\ keys \in Nat /\ values \in Nat
        /\ stream \in Parser!Stream /\ stream.keys \in Nat /\ stream.values \in Nat /\ stream.servers \in Nat
    BY DEF ParserInv, Parsed, Place, Parser!IsStream, Parser!Stream
  <1>3. ~stream.noList /\ expected = stream.keys /\ keys < stream.keys /\ Len(taken) = 3 + keys
    BY <1>1, <1>2 DEF ParserInv, Place, Waits
  <1>4. Parser!KindOf(stream, Len(taken) + 1) = "key"
    BY <1>1, <1>2, <1>3, Layout
  <1>5. Parsed' /\ Clear' /\ Len(taken') = Len(taken) + 1
    <2>1. "key" \in Parser!Kind
      BY DEF Parser!Kind
    <2> QED BY <1>1, <1>4, <2>1, LaterItem
  <1>6. Place(Len(taken))'
    BY <1>1, <1>2, <1>3, <1>5 DEF ParserInv, Place
  <1>7. Waits'
    BY <1>1 DEF ParserInv, Waits
  <1> QED BY <1>5, <1>6, <1>7 DEF ParserInv

\* The number of popular values.
LEMMA ValueCountKeeps ==
  ASSUME ParserInv, Parser!ValueCount
  PROVE  ParserInv'
  <1>1. /\ pstate = "uniquevaluelist" /\ Parser!Whole /\ Parser!Takes("valuecount") /\ pc = "parse"
        /\ stream' = stream /\ read' = read /\ decrypted' = decrypted
        /\ state' = state /\ pc' = pc /\ pstate' = pstate /\ keys' = keys /\ values' = 0 /\ expected = -1
        /\ expected' = CASE Parser!KindOf(stream, Len(taken) + 1) = "keycount" -> stream.keys
                         [] Parser!KindOf(stream, Len(taken) + 1) = "valuecount" -> stream.values
                         [] Parser!KindOf(stream, Len(taken) + 1) \notin {"keycount", "valuecount"} -> 0
    BY DEF Parser!ValueCount, Parser!InList, Parser!counters, Parser!MayDisconnect, Parser!Disconnected, Parser!Count, Parser!Index
  <1>2. /\ Len(taken) \in Nat /\ Parser!IsStream(stream)
        /\ keys \in Nat /\ values \in Nat
        /\ stream \in Parser!Stream /\ stream.keys \in Nat /\ stream.values \in Nat /\ stream.servers \in Nat
    BY DEF ParserInv, Parsed, Place, Parser!IsStream, Parser!Stream
  <1>3. ~stream.noList /\ Len(taken) = 3 + stream.keys
    BY <1>1, <1>2 DEF ParserInv, Place, Waits
  <1>4. Parser!KindOf(stream, Len(taken) + 1) = "valuecount"
    BY SMTT(30), <1>1, <1>2, <1>3, Layout
  <1>5. Parsed' /\ Clear' /\ Len(taken') = Len(taken) + 1
    <2>1. "valuecount" \in Parser!Kind
      BY DEF Parser!Kind
    <2> QED BY <1>1, <1>4, <2>1, LaterItem
  <1>6. Place(Len(taken))'
    <2>1. expected' = stream.values
      BY <1>1, <1>4
    <2> QED BY SMTT(30), <1>1, <1>2, <1>3, <1>5, <2>1 DEF ParserInv, Place
  <1>7. Waits'
    BY <1>1 DEF ParserInv, Waits
  <1> QED BY <1>5, <1>6, <1>7 DEF ParserInv

\* A value that is still expected.
LEMMA ValueKeeps ==
  ASSUME ParserInv, Parser!Value
  PROVE  ParserInv'
  <1>1. /\ pstate = "uniquevaluelist" /\ Parser!Whole /\ Parser!Takes("value") /\ pc = "parse"
        /\ stream' = stream /\ read' = read /\ decrypted' = decrypted
        /\ state' = state /\ pc' = pc /\ pstate' = pstate /\ keys' = keys /\ expected' = expected
        /\ values' = values + 1 /\ expected > values
    BY DEF Parser!Value, Parser!InList, Parser!counters, Parser!MayDisconnect, Parser!Disconnected, Parser!Count, Parser!Index
  <1>2. /\ Len(taken) \in Nat /\ Parser!IsStream(stream)
        /\ keys \in Nat /\ values \in Nat
        /\ stream \in Parser!Stream /\ stream.keys \in Nat /\ stream.values \in Nat /\ stream.servers \in Nat
    BY DEF ParserInv, Parsed, Place, Parser!IsStream, Parser!Stream
  <1>3. ~stream.noList /\ expected = stream.values /\ values < stream.values /\ Len(taken) = 4 + stream.keys + values
    BY <1>1, <1>2 DEF ParserInv, Place, Waits
  <1>4. Parser!KindOf(stream, Len(taken) + 1) = "value"
    <2> DEFINE i == Len(taken) + 1
    <2>1. i \in Nat \ {0}
      BY <1>2
    <2> HIDE DEF i
    <2>2. ~stream.noList /\ i > 4 + stream.keys /\ i <= 4 + stream.keys + stream.values => Parser!KindOf(stream, i) = "value"
      BY <1>2, <2>1, Layout
    <2>3. i = Len(taken) + 1
      BY DEF i
    <2> QED BY <1>1, <1>2, <1>3, <2>2, <2>3
  <1>5. Parsed' /\ Clear' /\ Len(taken') = Len(taken) + 1
    <2>1. "value" \in Parser!Kind
      BY DEF Parser!Kind
    <2> QED BY <1>1, <1>4, <2>1, LaterItem
  <1>6. Place(Len(taken))'
    <2>1. /\ pstate' = "uniquevaluelist" /\ ~stream'.noList
          /\ expected' = stream'.values /\ keys' \in Nat /\ values' \in Nat /\ expected' \in Int
      BY <1>1, <1>2, <1>3
    <2>2. values' <= stream'.values
      BY <1>1, <1>2, <1>3
    <2>3. Len(taken') = 4 + stream'.keys + values'
      <3>1. /\ Len(taken') = Len(taken) + 1 /\ Len(taken) = 4 + stream.keys + values
            /\ values' = values + 1 /\ stream' = stream
        BY <1>1, <1>3, <1>5
      <3>2. stream.keys \in Nat /\ values \in Nat
        BY <1>2
      <3>3. Len(taken') = 4 + stream.keys + values'
        <4> DEFINE k == stream.keys
                   n == Len(taken)
        <4>1. n = 4 + k + values /\ values' = values + 1 /\ Len(taken') = n + 1 /\ k \in Nat /\ values \in Nat
          BY <3>1, <3>2
        <4> HIDE DEF k, n
        <4>2. Len(taken') = 4 + k + values'
          BY <4>1
        <4> QED BY <4>2 DEF k
      <3> QED BY <3>1, <3>3
    <2> QED BY <2>1, <2>2, <2>3 DEF Place
  <1>7. Waits'
    BY <1>1 DEF ParserInv, Waits
  <1> QED BY <1>5, <1>6, <1>7 DEF ParserInv

\* A server: what is not the marker comes before it.
LEMMA ServerKeeps ==
  ASSUME ParserInv, Parser!Server
  PROVE  ParserInv'
  <1>1. /\ pstate = "servers" /\ Parser!Whole /\ Parser!Takes("server") /\ pc = "parse"
        /\ stream' = stream /\ read' = read /\ decrypted' = decrypted
        /\ pstate' = pstate /\ keys' = keys /\ values' = values /\ expected' = expected
        /\ Parser!KindOf(stream, Len(taken) + 1) # "marker"
        /\ (state' = state /\ pc' = pc) \/ (state' = "disconnected" /\ pc' = "recv")
    BY DEF Parser!Server, Parser!InList, Parser!counters, Parser!MayDisconnect, Parser!Disconnected, Parser!Count, Parser!Index
  <1>2. /\ Len(taken) \in Nat /\ Parser!IsStream(stream)
        /\ keys \in Nat /\ values \in Nat
        /\ stream \in Parser!Stream /\ stream.keys \in Nat /\ stream.values \in Nat /\ stream.servers \in Nat
    BY DEF ParserInv, Parsed, Place, Parser!IsStream, Parser!Stream
  <1>3. ~stream.noList /\ Len(taken) >= 4 + stream.keys + stream.values
        /\ Len(taken) <= 4 + stream.keys + stream.values + stream.servers
    BY <1>1, <1>2 DEF ParserInv, Place, Waits
  <1>4. Parser!KindOf(stream, Len(taken) + 1) = "server"
    <2> DEFINE i == Len(taken) + 1
               v == 4 + stream.keys + stream.values
               m == v + stream.servers + 1
    <2>0. Len(taken) \in Nat /\ stream.keys \in Nat /\ stream.values \in Nat /\ stream.servers \in Nat
      BY <1>2
    <2>1. i \in Nat \ {0} /\ v \in Nat /\ m \in Nat
      <3>1. i \in Nat
        BY <2>0
      <3>2. i # 0
        BY <2>0
      <3>3. v \in Nat
        BY <2>0
      <3> HIDE DEF v
      <3>4. m \in Nat
        BY <2>0, <3>3
      <3> HIDE DEF i, m
      <3> QED BY <3>1, <3>2, <3>3, <3>4
    <2>2. i > v /\ i <= m /\ ~stream.noList
      BY <1>2, <1>3
    <2>3. Parser!KindOf(stream, i) # "marker"
      BY <1>1
    <2>4. (i = m => Parser!KindOf(stream, i) = "marker") /\ (i > v /\ i < m => Parser!KindOf(stream, i) = "server")
      BY <1>2, <2>1, <2>2, InTheList
    <2> HIDE DEF i, v, m
    <2>5. Parser!KindOf(stream, i) = "server"
      BY <2>1, <2>2, <2>3, <2>4
    <2> QED BY <2>5 DEF i
  <1>5. Parsed' /\ Clear' /\ Len(taken') = Len(taken) + 1
    <2>1. "server" \in Parser!Kind
      BY DEF Parser!Kind
    <2> QED BY <1>1, <1>4, <2>1, LaterItem
  <1>6. Place(Len(taken))'
    <2>1. Len(taken) # 4 + stream.keys + stream.values + stream.servers
      <3> DEFINE i == Len(taken) + 1
                 m == 4 + stream.keys + stream.values + stream.servers + 1
      <3>0. Len(taken) \in Nat /\ stream.keys \in Nat /\ stream.values \in Nat /\ stream.servers \in Nat
        BY <1>2
      <3>1. i \in Nat \ {0} /\ m \in Nat
        <4>1. i \in Nat
          BY <3>0
        <4>2. i # 0
          BY <3>0
        <4>3. 4 + stream.keys + stream.values \in Nat
          BY <3>0
        <4>4. m \in Nat
          <5> DEFINE v == 4 + stream.keys + stream.values
          <5>1. v \in Nat /\ m = v + stream.servers + 1
            BY <4>3
          <5> HIDE DEF v, m
          <5> QED BY <3>0, <5>1
        <4> HIDE DEF i, m
        <4> QED BY <4>1, <4>2, <4>4
      <3>2. i # m
        BY <1>2, <1>3, <1>4, <3>1, InTheList
      <3> HIDE DEF m
      <3>3. Len(taken) = 4 + stream.keys + stream.values + stream.servers => i = m
        BY <1>2 DEF m
      <3> QED BY <3>2, <3>3
    <2> QED BY <1>1, <1>2, <1>3, <1>5, <2>1 DEF ParserInv, Place
  <1>7. Waits'
    BY <1>1 DEF ParserInv, Waits
  <1> QED BY <1>5, <1>6, <1>7 DEF ParserInv

\* The marker after the last server.
LEMMA MarkerKeeps ==
  ASSUME ParserInv, Parser!Marker
  PROVE  ParserInv'
  <1>1. /\ pstate = "servers" /\ Parser!Whole /\ Parser!Takes("marker") /\ pc = "parse"
        /\ stream' = stream /\ read' = read /\ decrypted' = decrypted
        /\ pstate' = "finished" /\ keys' = keys /\ values' = values /\ expected' = expected
        /\ Parser!KindOf(stream, Len(taken) + 1) = "marker"
        /\ (state' = "connected" /\ pc' = pc) \/ (state' = "disconnected" /\ pc' = "recv")
    BY DEF Parser!Marker, Parser!InList, Parser!counters, Parser!MayDisconnect, Parser!Disconnected, Parser!Count, Parser!Index
  <1>2. /\ Len(taken) \in Nat /\ Parser!IsStream(stream)
        /\ keys \in Nat /\ values \in Nat
        /\ stream \in Parser!Stream /\ stream.keys \in Nat /\ stream.values \in Nat /\ stream.servers \in Nat
    BY DEF ParserInv, Parsed, Place, Parser!IsStream, Parser!Stream
  <1>3. ~stream.noList /\ Len(taken) >= 4 + stream.keys + stream.values
        /\ Len(taken) <= 4 + stream.keys + stream.values + stream.servers
    BY <1>1, <1>2 DEF ParserInv, Place, Waits
  <1>4. Parser!KindOf(stream, Len(taken) + 1) = "marker"
    BY <1>1, <1>2, <1>3, Layout
  <1>5. Parsed' /\ Clear' /\ Len(taken') = Len(taken) + 1
    <2>1. "marker" \in Parser!Kind
      BY DEF Parser!Kind
    <2> QED BY <1>1, <1>4, <2>1, LaterItem
  <1>6. Place(Len(taken))'
    <2>1. Len(taken) = 4 + stream.keys + stream.values + stream.servers
      <3> DEFINE i == Len(taken) + 1
                 v == 4 + stream.keys + stream.values
                 m == v + stream.servers + 1
      <3>0. Len(taken) \in Nat /\ stream.keys \in Nat /\ stream.values \in Nat /\ stream.servers \in Nat
        BY <1>2
      <3>1. i \in Nat \ {0} /\ v \in Nat /\ m \in Nat
        <4>1. i \in Nat
          BY <3>0
        <4>2. i # 0
          BY <3>0
        <4>3. v \in Nat
          BY <3>0
        <4> HIDE DEF v
        <4>4. m \in Nat
          BY <3>0, <4>3
        <4> HIDE DEF i, m
        <4> QED BY <4>1, <4>2, <4>3, <4>4
      <3>2. i > v /\ i <= m /\ ~stream.noList
        BY <1>2, <1>3
      <3>3. i > v /\ i < m => Parser!KindOf(stream, i) = "server"
        BY <1>2, <3>1, <3>2, InTheList
      <3>4. Parser!KindOf(stream, i) # "server"
        BY <1>4
      <3>5. m = 4 + stream.keys + stream.values + stream.servers + 1
        OBVIOUS
      <3> HIDE DEF i, v, m
      <3>6. i = m
        BY <3>1, <3>2, <3>3, <3>4
      <3> QED BY SMTT(30), <1>2, <3>5, <3>6 DEF i
    <2> QED BY <1>1, <1>2, <1>3, <1>5, <2>1 DEF ParserInv, Place
  <1>7. Waits'
    BY <1>1 DEF ParserInv, Waits
  <1> QED BY <1>5, <1>6, <1>7 DEF ParserInv

\* A message, when the list is over.
LEMMA MessageKeeps ==
  ASSUME ParserInv, Parser!Message
  PROVE  ParserInv'
  <1>1. /\ pstate = "finished" /\ Parser!Whole /\ Parser!Takes("message") /\ pc = "parse"
        /\ stream' = stream /\ read' = read /\ decrypted' = decrypted
        /\ pstate' = pstate /\ keys' = keys /\ values' = values /\ expected' = expected
        /\ (state' = state /\ pc' = pc) \/ (state' = "disconnected" /\ pc' = "recv")
    BY DEF ParserInv, Waits, Parser!Message, Parser!counters, Parser!MayDisconnect, Parser!Disconnected, Parser!Count, Parser!Index
  <1>2. /\ Len(taken) \in Nat /\ Parser!IsStream(stream)
        /\ keys \in Nat /\ values \in Nat
        /\ stream \in Parser!Stream /\ stream.keys \in Nat /\ stream.values \in Nat /\ stream.servers \in Nat
    BY DEF ParserInv, Parsed, Place, Parser!IsStream, Parser!Stream
  <1>3. Len(taken) >= IF stream.noList THEN 2 ELSE 5 + stream.keys + stream.values + stream.servers
    BY <1>1, <1>2 DEF ParserInv, Place, Waits
  <1>4. Parser!KindOf(stream, Len(taken) + 1) = "message"
    <2> DEFINE i == Len(taken) + 1
    <2>1. i \in Nat \ {0}
      BY <1>2
    <2> HIDE DEF i
    <2>2. i > 2 /\ (stream.noList \/ i > 5 + stream.keys + stream.values + stream.servers) => Parser!KindOf(stream, i) = "message"
      BY <1>2, <2>1, Layout
    <2>3. i = Len(taken) + 1
      BY DEF i
    <2> QED BY <1>1, <1>2, <1>3, <2>2, <2>3
  <1>5. Parsed' /\ Clear' /\ Len(taken') = Len(taken) + 1
    <2>1. "message" \in Parser!Kind
      BY DEF Parser!Kind
    <2> QED BY <1>1, <1>4, <2>1, LaterItem
  <1>6. Place(Len(taken))'
    BY <1>1, <1>2, <1>3, <1>5 DEF ParserInv, Place
  <1>7. Waits'
    BY <1>1 DEF ParserInv, Waits
  <1> QED BY <1>5, <1>6, <1>7 DEF ParserInv

\* The header in the clear: what has come behind it is decrypted.
LEMMA CryptHeaderKeeps ==
  ASSUME ParserInv, Parser!CryptHeader
  PROVE  ParserInv'
  <1>1. /\ pstate = "cryptheader" /\ Parser!Whole /\ Parser!Takes("crypt") /\ pc = "parse"
        /\ stream' = stream /\ read' = read /\ state' = state /\ pc' = pc /\ state = "mainlist"
        /\ pstate' = "fixedheader" /\ expected' = expected /\ keys' = keys /\ values' = values
        /\ Parser!Decrypt(Parser!End(Len(taken) + 1) + 1, read)
    BY DEF Parser!CryptHeader, Parser!InList, Parser!counters, Parser!Index
  <1>2. /\ Len(taken) = 0 /\ taken = <<>> /\ Parser!IsStream(stream) /\ stream \in Parser!Stream /\ read \in Nat
    BY <1>1 DEF ParserInv, Parsed, Place, Parser!IsStream
  <1>3. Parser!KindOf(stream, Len(taken) + 1) = "crypt"
    BY <1>2, Layout
  <1>4. Parsed' /\ Len(taken') = Len(taken) + 1
    <2>1. "crypt" \in Parser!Kind
      BY DEF Parser!Kind
    <2> QED BY <1>1, <1>3, <2>1, ItemTaken DEF ParserInv
  <1>5. taken' # <<>> /\ Len(taken') = 1
    BY <1>2, <1>4
  <1>6. Parser!Total \in Nat /\ Parser!End(1) \in Nat
    <2>1. 1 \in 0 .. Len(stream.ends)
      BY <1>1, <1>2, EndsGrow DEF Parser!Whole, Parser!Index
    <2> QED BY <1>2, <2>1, EndsGrow
  <1>7. decrypted' = [b \in 1 .. Parser!Total |->
                        IF b \in Parser!End(1) + 1 .. read THEN decrypted[b] + 1 ELSE decrypted[b]]
    BY <1>1, <1>2 DEF ParserInv, Clear, Parser!Decrypt
  <1>8. \A b \in 1 .. Parser!Total : decrypted[b] = 0
    BY <1>2 DEF ParserInv, Clear
  <1>9. \A b \in 1 .. Parser!Total : decrypted'[b] = IF b > Parser!End(1) /\ b <= read THEN 1 ELSE 0
    BY <1>2, <1>6, <1>7, <1>8
  <1>10. decrypted' \in [1 .. Parser!Total -> Nat]
    BY <1>7, <1>8
  <1>11. Parser!Total' = Parser!Total /\ Parser!End(1)' = Parser!End(1)
    BY <1>1 DEF Parser!Total, Parser!End
  <1>12. Clear'
    BY <1>1, <1>5, <1>9, <1>10, <1>11 DEF Clear
  <1>13. Place(Len(taken))'
    BY <1>1, <1>5 DEF ParserInv, Place
  <1>14. Waits'
    BY <1>1 DEF ParserInv, Waits
  <1> QED BY <1>4, <1>12, <1>13, <1>14 DEF ParserInv

\* Steps that take nothing.
LEMMA NothingTaken ==
  ASSUME ParserInv, UNCHANGED <<stream, read, parsed, decrypted, taken>>
  PROVE  Parsed' /\ Clear'
  <1>1. Parsed'
    BY DEF ParserInv, Parsed, Parser!End, Parser!Total
  <1>2. Clear'
    BY ClearStays DEF ParserInv
  <1> QED BY <1>1, <1>2

\* The last key has been counted: the values are next, and their number is awaited.
LEMMA KeysDoneKeeps ==
  ASSUME ParserInv, Parser!KeysDone
  PROVE  ParserInv'
  <1>1. /\ pstate = "keylist" /\ expected # -1 /\ expected <= keys /\ pc = "parse"
        /\ UNCHANGED <<stream, read, parsed, decrypted, taken>>
        /\ state' = state /\ pc' = pc /\ keys' = keys /\ values' = values
        /\ pstate' = "uniquevaluelist" /\ expected' = -1
    BY DEF Parser!KeysDone, Parser!InList
  <1>2. keys \in Nat /\ stream.keys \in Nat
    BY DEF ParserInv, Parsed, Place, Parser!IsStream, Parser!Stream
  <1>3. /\ ~stream.noList /\ expected = stream.keys /\ keys <= stream.keys /\ Len(taken) = 3 + keys
    BY <1>1 DEF ParserInv, Place
  <1>4. Len(taken) = 3 + stream.keys
    BY <1>1, <1>2, <1>3
  <1>5. Place(Len(taken))'
    BY <1>1, <1>3, <1>4 DEF ParserInv, Place
  <1>6. Waits'
    BY <1>1 DEF ParserInv, Waits
  <1> QED BY <1>1, <1>5, <1>6, NothingTaken DEF ParserInv

\* The last popular value: the servers are next.
LEMMA ValuesDoneKeeps ==
  ASSUME ParserInv, Parser!ValuesDone
  PROVE  ParserInv'
  <1>1. /\ pstate = "uniquevaluelist" /\ expected # -1 /\ expected <= values /\ pc = "parse"
        /\ UNCHANGED <<stream, read, parsed, decrypted, taken>>
        /\ state' = state /\ pc' = pc /\ keys' = keys /\ values' = values
        /\ pstate' = "servers" /\ expected' = expected
    BY DEF Parser!ValuesDone, Parser!InList, Parser!counters
  <1>2. /\ values \in Nat /\ stream.keys \in Nat /\ stream.values \in Nat /\ stream.servers \in Nat
    BY DEF ParserInv, Parsed, Place, Parser!IsStream, Parser!Stream
  <1>3. /\ ~stream.noList /\ expected = stream.values /\ values <= stream.values
        /\ Len(taken) = 4 + stream.keys + values
    BY <1>1 DEF ParserInv, Place
  <1>4. values = stream.values
    BY <1>1, <1>2, <1>3
  <1>5. Place(Len(taken))'
    BY <1>1, <1>2, <1>3, <1>4 DEF ParserInv, Place
  <1>6. Waits'
    BY <1>1 DEF ParserInv, Waits
  <1> QED BY <1>1, <1>5, <1>6, NothingTaken DEF ParserInv

\* The parser stops only when no whole item is there.
LEMMA BreakKeeps ==
  ASSUME ParserInv, Parser!Break
  PROVE  ParserInv'
  <1>1. /\ ~Parser!Whole /\ pc' = "recv" /\ state' = state /\ pstate' = pstate
        /\ UNCHANGED <<stream, read, parsed, decrypted, taken>>
        /\ keys' = keys /\ values' = values /\ expected' = expected
    BY DEF Parser!Break, Parser!NothingMore, Parser!counters
  <1>2. ~Parser!Whole'
    BY <1>1 DEF Parser!Whole, Parser!Index, Parser!End
  <1>3. Place(Len(taken))'
    BY <1>1 DEF ParserInv, Place
  <1>4. Waits'
    BY <1>1, <1>2 DEF ParserInv, Waits
  <1> QED BY <1>1, <1>3, <1>4, NothingTaken DEF ParserInv

\* A lost connection leaves everything where it was.
LEMMA LostKeeps ==
  ASSUME ParserInv, Parser!Lost
  PROVE  ParserInv'
  <1>1. /\ state' = "disconnected" /\ pc' = "recv" /\ pstate' = pstate
        /\ UNCHANGED <<stream, read, parsed, decrypted, taken>>
        /\ keys' = keys /\ values' = values /\ expected' = expected
    BY DEF Parser!Lost, Parser!Disconnected, Parser!counters
  <1>2. Place(Len(taken))'
    BY <1>1 DEF ParserInv, Place
  <1>3. Waits'
    BY <1>1 DEF ParserInv, Waits
  <1> QED BY <1>1, <1>2, <1>3, NothingTaken DEF ParserInv

\* Every step.
LEMMA ParserKeeps ==
  ASSUME ParserInv, Parser!Next
  PROVE  ParserInv'
  <1>1. CASE Parser!Parse
    BY <1>1, CryptHeaderKeeps, FixedHeaderKeeps, KeyCountKeeps, KeyKeeps, KeysDoneKeeps, ValueCountKeeps,
       ValueKeeps, ValuesDoneKeeps, ServerKeeps, MarkerKeeps, MessageKeeps DEF Parser!Parse
  <1>2. CASE Parser!Break
    BY <1>2, BreakKeeps
  <1>3. CASE Parser!Lost
    BY <1>3, LostKeeps
  <1>4. CASE \E n \in 1 .. stream.size : Parser!Recv(n)
    BY <1>4, RecvKeeps
  <1> QED BY <1>1, <1>2, <1>3, <1>4 DEF Parser!Next

\* A stutter of the parser.
LEMMA ParserStays ==
  ASSUME ParserInv, UNCHANGED <<pc, parser>>
  PROVE  ParserInv'
  <1>1. /\ UNCHANGED <<stream, read, parsed, decrypted, taken>>
        /\ state' = state /\ pc' = pc /\ pstate' = pstate
        /\ keys' = keys /\ values' = values /\ expected' = expected
    BY DEF parser
  <1>2. Place(Len(taken))'
    BY <1>1 DEF ParserInv, Place
  <1>3. Parser!Whole' = Parser!Whole
    BY <1>1 DEF Parser!Whole, Parser!Index, Parser!End
  <1>4. Waits'
    BY <1>1, <1>3 DEF ParserInv, Waits
  <1> QED BY <1>1, <1>2, <1>4, NothingTaken DEF ParserInv

\* Nothing has come.
LEMMA ParserBegins ==
  ASSUME Parser!SbListAssumption, Parser!Init
  PROVE  ParserInv
  <1>1. Parser!IsStream(stream)
    BY DEF Parser!Init, Parser!SbListAssumption
  <1>2. /\ Len(stream.ends) \in Nat /\ Parser!Total \in Nat /\ stream.size \in Nat
        /\ Parser!End(0) = 0
        /\ \A i \in 1 .. Len(stream.ends) : Parser!End(i) > Parser!End(0)
    BY <1>1, EndsGrow
  <1>3. /\ state = "mainlist" /\ pstate = "cryptheader" /\ pc = "recv" /\ read = 0 /\ parsed = 0
        /\ decrypted = [b \in 1 .. Parser!Total |-> 0]
        /\ expected = -1 /\ keys = 0 /\ values = 0 /\ taken = <<>>
    BY DEF Parser!Init
  <1>4. taken \in Seq(Parser!Kind) /\ Len(taken) = 0 /\ DOMAIN taken = {}
    BY <1>3
  <1>5. Parsed
    BY <1>1, <1>2, <1>3, <1>4 DEF Parsed
  <1>6. Clear
    BY <1>3 DEF Clear
  <1>7. Place(Len(taken))
    BY <1>3, <1>4 DEF Place
  <1>8. ~Parser!Whole
    <2> SUFFICES ASSUME 1 <= Len(stream.ends), Parser!End(1) <= read PROVE FALSE
      BY <1>4 DEF Parser!Whole, Parser!Index
    <2>1. 1 \in 1 .. Len(stream.ends)
      BY <1>2
    <2>2. Parser!End(1) > 0
      BY <1>2, <2>1
    <2>3. Parser!End(1) \in Nat
      BY <1>1, <1>2, <2>1, EndsGrow
    <2> QED BY <1>3, <2>2, <2>3
  <1>9. Waits
    BY <1>3, <1>8 DEF Waits
  <1> QED BY <1>5, <1>6, <1>7, <1>9 DEF ParserInv

\* What the invariant says of the list.
LEMMA ParserInvIs ==
  ASSUME ParserInv
  PROVE  Parser!TypeOK /\ Parser!TakenForWhatItIs /\ Parser!NothingLeft
  <1>1. /\ Parser!IsStream(stream) /\ taken \in Seq(Parser!Kind) /\ Len(taken) \in Nat
        /\ Len(taken) <= Len(stream.ends) /\ Len(stream.ends) \in Nat
    BY EndsGrow DEF ParserInv, Parsed
  <1>2. Parser!TypeOK
    BY DEF ParserInv, Parsed, Waits, Parser!TypeOK
  <1>3. Parser!TakenForWhatItIs
    <2>1. taken = [i \in 1 .. Len(taken) |-> Parser!KindOf(stream, i)]
      <3>1. DOMAIN taken = 1 .. Len(taken) /\ taken = [i \in 1 .. Len(taken) |-> taken[i]]
        BY <1>1
      <3>2. \A i \in 1 .. Len(taken) : taken[i] = Parser!KindOf(stream, i)
        BY <3>1 DEF ParserInv, Parsed
      <3> QED BY <3>1, <3>2
    <2>2. \A b \in 1 .. read : decrypted[b] = IF b <= Parser!End(1) \/ taken = <<>> THEN 0 ELSE 1
      <3> SUFFICES ASSUME NEW b \in 1 .. read
                   PROVE  decrypted[b] = IF b <= Parser!End(1) \/ taken = <<>> THEN 0 ELSE 1
        OBVIOUS
      <3>1. read \in Nat /\ read <= Parser!Total /\ Parser!Total \in Nat
        BY <1>1, EndsGrow DEF ParserInv, Parsed
      <3>2. b \in 1 .. Parser!Total /\ b <= read
        BY <3>1
      <3>3. decrypted[b] = IF taken # <<>> /\ b > Parser!End(1) /\ b <= read THEN 1 ELSE 0
        BY <3>2 DEF ParserInv, Clear
      <3>4. taken # <<>> => Parser!End(1) \in Nat
        <4> SUFFICES ASSUME taken # <<>> PROVE Parser!End(1) \in Nat
          OBVIOUS
        <4>1. Len(taken) >= 1
          BY <1>1
        <4>2. 1 \in 0 .. Len(stream.ends)
          BY <1>1, <4>1
        <4> QED BY <1>1, <4>2, EndsGrow
      <3> QED BY <3>2, <3>3, <3>4
    <2> QED BY <2>1, <2>2 DEF Parser!TakenForWhatItIs
  <1>4. Parser!NothingLeft
    <2> SUFFICES ASSUME read = Parser!Total, pc = "recv", state # "disconnected" PROVE parsed = Parser!Total
      BY DEF Parser!NothingLeft
    <2>1. ~Parser!Whole
      BY DEF ParserInv, Waits
    <2>2. Len(taken) = Len(stream.ends)
      <3> SUFFICES ASSUME Len(taken) # Len(stream.ends) PROVE FALSE
        OBVIOUS
      <3>1. Len(taken) + 1 \in 0 .. Len(stream.ends)
        BY <1>1
      <3>2. Parser!End(Len(taken) + 1) <= Parser!Total
        BY <1>1, <3>1, EndsGrow
      <3> QED BY <1>1, <2>1, <3>1, <3>2 DEF Parser!Whole, Parser!Index
    <2> QED BY <2>2 DEF ParserInv, Parsed, Parser!Total
  <1> QED BY <1>2, <1>3, <1>4

-----------------------------------------------------------------------------
(***************************************************************************)
(* A reply in several packets                                              *)
(***************************************************************************)
SentPacket == [entries : Seq(Answer!Entry), cut : SUBSET Answer!Entry, final : BOOLEAN]

\* The builder's place: what it goes on with exists.
Building ==
  /\ size \in [Answer!Entry -> 1 .. MaxSize]
  /\ type \in 0 .. 3 /\ key \in 1 .. Keys + 1 /\ sub \in 0 .. Subs /\ free \in 0 .. Room
  /\ pc \in {"type", "key", "sub", "done"}
  /\ pc \in {"key", "sub"} => type \in Answer!Type
  /\ pc = "sub" => key <= Keys
  /\ packet \in Seq(Answer!Entry) /\ sent \in Seq(SentPacket)
  /\ pc = "done" => packet = <<>>
  /\ pc # "done" => came = {}

\* The final packet comes after the last type, and nothing comes after it.
FinalIsLast ==
  /\ \A i \in DOMAIN sent : sent[i].final => i = Len(sent) /\ pc = "done" /\ type = 3
  /\ Len(sent) <= SplitMax + 1
  /\ pc # "done" => Len(sent) <= SplitMax
  /\ pc = "done" => Len(sent) >= 1

\* What is before the builder's place stands whole in some packet and cut in none that was
\* sent after it, or it is in the packet being built.
Passed(e) == e[1] < type \/ (e[1] = type /\ (e[2] < key \/ (e[2] = key /\ e[3] < sub)))
LastWhole(e, i) ==
  e \in Answer!Range(sent[i].entries) /\ \A j \in DOMAIN sent : j >= i => e \notin sent[j].cut
InSome(e) == e \in Answer!Range(packet) \/ \E i \in DOMAIN sent : LastWhole(e, i)
NoneSkipped == \A e \in Answer!Entry : Passed(e) => InSome(e)

\* A value that came whole, and has not come cut in a packet of the same place or a later
\* one, is kept whole.
Coming ==
  /\ came \in SUBSET DOMAIN sent /\ overtaken \in BOOLEAN
  /\ stored \in [Answer!Entry -> {"nothing", "cut", "whole"}]
  /\ (\A e \in Answer!Entry : ~Answer!Ends(e)) /\ ~overtaken =>
       \A e \in Answer!Entry, i \in came :
         e \in Answer!Range(sent[i].entries) /\ (\A j \in came : j >= i => e \notin sent[j].cut)
           => stored[e] = "whole"

ReplyInv == Building /\ FinalIsLast /\ NoneSkipped /\ Coming

\* What the proofs use of the sizes.
LEMMA ReplySizes ==
  ASSUME Answer!ReplyAssumption
  PROVE  /\ Room \in Nat /\ Room > 0 /\ TypeRoom \in Nat /\ TypeRoom >= 2 /\ Keys \in Nat /\ Keys > 0
         /\ Subs \in Nat /\ Subs > 0 /\ MaxSize \in Nat /\ SplitMax \in Nat
  BY DEF Answer!ReplyAssumption

\* An entry: its type, key and player.
LEMMA EntryIs ==
  ASSUME NEW e
  PROVE  e \in Answer!Entry <=>
           /\ e \in Answer!Type \X (1 .. Keys) \X (0 .. Subs)
           /\ e[3] < IF e[1] = 0 THEN 1 ELSE Subs
  BY DEF Answer!Entry, Answer!NumSubs, Answer!Server

\* What takes room leaves some, or none.
LEMMA RoomLeft ==
  ASSUME Answer!ReplyAssumption, free \in 0 .. Room, NEW n \in Nat, Answer!Takes(n)
  PROVE  free' \in 0 .. Room
  <1>1. Room \in Nat
    BY ReplySizes
  <1>2. free' = free - (IF n < free THEN n ELSE free)
    BY DEF Answer!Takes, Answer!Least
  <1> QED BY <1>1, <1>2

\* The names of a sequence to which one is added.
LEMMA OneMore ==
  ASSUME NEW S, NEW q \in Seq(S), NEW x \in S
  PROVE  /\ Append(q, x) \in Seq(S) /\ Len(Append(q, x)) = Len(q) + 1 /\ Len(q) \in Nat
         /\ Append(q, x)[Len(q) + 1] = x
         /\ \A i \in 1 .. Len(q) : Append(q, x)[i] = q[i]
         /\ DOMAIN q = 1 .. Len(q) /\ DOMAIN Append(q, x) = 1 .. Len(q) + 1
  OBVIOUS

\* Of the entries of a packet.
LEMMA OneEntryMore ==
  ASSUME NEW e \in Answer!Entry, packet \in Seq(Answer!Entry)
  PROVE  Answer!Range(Append(packet, e)) = Answer!Range(packet) \union {e}
  <1> DEFINE q == Append(packet, e)
  <1>1. /\ q[Len(packet) + 1] = e /\ \A i \in 1 .. Len(packet) : q[i] = packet[i]
        /\ DOMAIN packet = 1 .. Len(packet) /\ DOMAIN q = 1 .. Len(packet) + 1 /\ Len(packet) \in Nat
    BY OneMore
  <1> HIDE DEF q
  <1>2. Answer!Range(q) = {q[i] : i \in DOMAIN q} /\ Answer!Range(packet) = {packet[i] : i \in DOMAIN packet}
    BY DEF Answer!Range
  <1>3. ASSUME NEW x \in Answer!Range(q) PROVE x \in Answer!Range(packet) \union {e}
    <2>1. PICK i \in DOMAIN q : x = q[i]
      BY <1>2
    <2>2. i = Len(packet) + 1 \/ i \in 1 .. Len(packet)
      BY <1>1
    <2> QED BY <1>1, <1>2, <2>1, <2>2
  <1>4. ASSUME NEW x \in Answer!Range(packet) \union {e} PROVE x \in Answer!Range(q)
    <2>1. CASE x = e
      <3>1. Len(packet) + 1 \in DOMAIN q
        BY <1>1
      <3> QED BY <1>1, <1>2, <2>1, <3>1
    <2>2. CASE x \in Answer!Range(packet)
      <3>1. PICK i \in DOMAIN packet : x = packet[i]
        BY <1>2, <2>2
      <3>2. i \in DOMAIN q
        BY <1>1
      <3> QED BY <1>1, <1>2, <3>1, <3>2
    <2> QED BY <2>1, <2>2
  <1>5. Answer!Range(q) = Answer!Range(packet) \union {e}
    BY <1>3, <1>4
  <1> QED BY <1>5 DEF q

\* Nothing has come, and nothing comes.
LEMMA NothingComes ==
  ASSUME ReplyInv, came' = {}, overtaken' = overtaken, stored' = stored
  PROVE  Coming'
  BY DEF ReplyInv, Coming

\* A packet is sent: with all that was in it, and perhaps more; what is cut in it is not
\* behind the builder's place.
LEMMA PacketSent ==
  ASSUME Answer!ReplyAssumption, ReplyInv, pc # "done",
         NEW all \in Seq(Answer!Entry), NEW cut \in SUBSET Answer!Entry, NEW final \in BOOLEAN,
         Answer!Range(packet) \subseteq Answer!Range(all), final => type = 3,
         \A e \in cut : ~Passed(e),
         Answer!Posts(all, cut, final), UNCHANGED Answer!browser,
         UNCHANGED <<size, type, key, sub>>
  PROVE  ReplyInv'
  <1> DEFINE p == [entries |-> all, cut |-> cut, final |-> final]
  <1>0. /\ sent' = Append(sent, p) /\ packet' = <<>> /\ free' = Room
        /\ pc' = IF final \/ Len(sent) + 1 > SplitMax THEN "done" ELSE "type"
        /\ came' = came /\ overtaken' = overtaken /\ stored' = stored /\ came = {}
    BY DEF Answer!Posts, Answer!browser, ReplyInv, Building
  <1>1. p \in SentPacket /\ p.entries = all /\ p.cut = cut /\ p.final = final
    BY DEF SentPacket
  <1>2. sent \in Seq(SentPacket) /\ sent' = Append(sent, p)
    BY <1>0 DEF ReplyInv, Building
  <1> HIDE DEF p
  <1>3. /\ sent' \in Seq(SentPacket) /\ Len(sent') = Len(sent) + 1 /\ Len(sent) \in Nat
        /\ sent'[Len(sent) + 1] = p
        /\ \A i \in 1 .. Len(sent) : sent'[i] = sent[i]
        /\ DOMAIN sent = 1 .. Len(sent) /\ DOMAIN sent' = 1 .. Len(sent) + 1
    BY <1>1, <1>2, OneMore
  <1>4. Room \in Nat /\ SplitMax \in Nat
    BY ReplySizes
  <1>5. Building'
    <2>1. pc' \in {"type", "done"} /\ packet' \in Seq(Answer!Entry) /\ packet' = <<>>
      BY <1>0
    <2>2. free' \in 0 .. Room
      BY <1>0, <1>4
    <2> QED BY <1>0, <1>3, <2>1, <2>2 DEF ReplyInv, Building
  <1>6. FinalIsLast'
    <2>1. \A i \in DOMAIN sent : ~sent[i].final
      BY DEF ReplyInv, FinalIsLast
    <2>2. ASSUME NEW i \in DOMAIN sent', sent'[i].final
          PROVE  i = Len(sent') /\ pc' = "done" /\ type' = 3
      <3>1. i \notin 1 .. Len(sent)
        BY <1>3, <2>1, <2>2
      <3>2. i = Len(sent) + 1
        BY <1>3, <3>1
      <3>3. final
        BY <1>1, <1>3, <2>2, <3>2
      <3> QED BY <1>0, <1>3, <3>2, <3>3
    <2>3. Len(sent) <= SplitMax
      BY DEF ReplyInv, FinalIsLast
    <2>4. Len(sent') <= SplitMax + 1 /\ Len(sent') >= 1 /\ (pc' # "done" => Len(sent') <= SplitMax)
      BY <1>0, <1>3, <1>4, <2>3
    <2> QED BY <2>2, <2>4 DEF FinalIsLast
  <1>7. NoneSkipped'
    <2> SUFFICES ASSUME NEW e \in Answer!Entry, Passed(e) PROVE InSome(e)'
      BY DEF NoneSkipped, Passed
    <2>1. InSome(e)
      BY DEF ReplyInv, NoneSkipped
    <2>2. e \notin cut
      OBVIOUS
    <2>3. \A j \in DOMAIN sent' : j = Len(sent) + 1 => sent'[j].cut = cut
      BY <1>1, <1>3
    <2>4. CASE e \in Answer!Range(packet)
      <3>1. Len(sent) + 1 \in DOMAIN sent' /\ e \in Answer!Range(sent'[Len(sent) + 1].entries)
        BY <1>1, <1>3, <2>4
      <3>2. \A j \in DOMAIN sent' : j >= Len(sent) + 1 => j = Len(sent) + 1
        BY <1>3
      <3> QED BY <2>2, <2>3, <3>1, <3>2 DEF InSome, LastWhole
    <2>5. CASE \E i \in DOMAIN sent : LastWhole(e, i)
      <3>1. PICK i \in DOMAIN sent : LastWhole(e, i)
        BY <2>5
      <3>2. i \in DOMAIN sent' /\ sent'[i] = sent[i]
        BY <1>3
      <3>3. ASSUME NEW j \in DOMAIN sent', j >= i PROVE e \notin sent'[j].cut
        <4>1. CASE j = Len(sent) + 1
          BY <2>2, <2>3, <4>1
        <4>2. CASE j \in DOMAIN sent
          BY <1>3, <3>1, <3>3, <4>2 DEF LastWhole
        <4> QED BY <1>3, <4>1, <4>2
      <3> QED BY <3>1, <3>2, <3>3 DEF InSome, LastWhole
    <2> QED BY <2>1, <2>4, <2>5 DEF InSome
  <1>8. Coming'
    BY <1>0, NothingComes
  <1> QED BY <1>5, <1>6, <1>7, <1>8 DEF ReplyInv

\* Steps within a packet: the place goes on, and nothing is left behind.
LEMMA WithinPacket ==
  ASSUME ReplyInv, pc # "done", pc' # "done", Building', UNCHANGED <<size, sent, Answer!browser>>,
         \A e \in Answer!Entry : Passed(e)' => Passed(e) \/ e \in Answer!Range(packet'),
         Answer!Range(packet) \subseteq Answer!Range(packet')
  PROVE  ReplyInv'
  <1>1. FinalIsLast'
    BY DEF ReplyInv, FinalIsLast
  <1>2. NoneSkipped'
    <2> SUFFICES ASSUME NEW e \in Answer!Entry, Passed(e)' PROVE InSome(e)'
      BY DEF NoneSkipped
    <2>1. CASE Passed(e)
      <3>1. InSome(e)
        BY <2>1 DEF ReplyInv, NoneSkipped
      <3> QED BY <3>1 DEF InSome, LastWhole
    <2>2. CASE e \in Answer!Range(packet')
      BY <2>2 DEF InSome
    <2> QED BY <2>1, <2>2
  <1>3. Coming'
    BY NothingComes DEF ReplyInv, Building, Answer!browser
  <1> QED BY <1>1, <1>2, <1>3 DEF ReplyInv

\* The numbers of the invariant.
LEMMA BuildingNumbers ==
  ASSUME Answer!ReplyAssumption, ReplyInv
  PROVE  /\ type \in Nat /\ type <= 3 /\ key \in Nat /\ sub \in Nat /\ free \in 0 .. Room
         /\ packet \in Seq(Answer!Entry) /\ size \in [Answer!Entry -> 1 .. MaxSize]
         /\ Room \in Nat /\ Keys \in Nat /\ Subs \in Nat /\ Subs >= 1
         /\ \A e \in Answer!Entry :
              /\ e[1] \in Nat /\ e[2] \in Nat /\ e[3] \in Nat /\ e[1] <= 2 /\ e[2] >= 1 /\ e[2] <= Keys
              /\ e[3] < (IF e[1] = 0 THEN 1 ELSE Subs) /\ e = <<e[1], e[2], e[3]>>
  <1>1. Room \in Nat /\ Keys \in Nat /\ Subs \in Nat /\ Subs >= 1
    BY ReplySizes
  <1>2. /\ type \in Nat /\ type <= 3 /\ key \in Nat /\ sub \in Nat /\ free \in 0 .. Room
        /\ packet \in Seq(Answer!Entry) /\ size \in [Answer!Entry -> 1 .. MaxSize]
    BY <1>1 DEF ReplyInv, Building
  <1>3. ASSUME NEW e \in Answer!Entry
        PROVE  /\ e[1] \in Nat /\ e[2] \in Nat /\ e[3] \in Nat /\ e[1] <= 2 /\ e[2] >= 1 /\ e[2] <= Keys
               /\ e[3] < (IF e[1] = 0 THEN 1 ELSE Subs) /\ e = <<e[1], e[2], e[3]>>
    <2>1. e \in Answer!Type \X (1 .. Keys) \X (0 .. Subs) /\ e[3] < IF e[1] = 0 THEN 1 ELSE Subs
      BY EntryIs
    <2> QED BY <1>1, <2>1 DEF Answer!Type
  <1> QED BY <1>1, <1>2, <1>3

\* A packet is sent as it is.
LEMMA PlainlySent ==
  ASSUME Answer!ReplyAssumption, ReplyInv, pc # "done", NEW final \in BOOLEAN, final => type = 3,
         Answer!Sends(final), UNCHANGED Answer!browser, UNCHANGED <<size, type, key, sub>>
  PROVE  ReplyInv'
  <1>1. packet \in Seq(Answer!Entry) /\ Answer!Posts(packet, {}, final)
    BY BuildingNumbers DEF Answer!Sends
  <1> QED BY <1>1, PacketSent

\* The type byte, or the packet as it is.
LEMMA StartTypeKeeps ==
  ASSUME Answer!ReplyAssumption, ReplyInv, Answer!StartType
  PROVE  ReplyInv'
  <1>1. /\ pc = "type" /\ type \in Answer!Type
        /\ size' = size /\ type' = type /\ key' = key /\ sub' = sub /\ UNCHANGED Answer!browser
    BY DEF Answer!StartType, Answer!progress
  <1>2. CASE free < TypeRoom
    <2>1. Answer!Sends(FALSE)
      BY <1>2 DEF Answer!StartType
    <2> QED BY <1>1, <2>1, PlainlySent
  <1>3. CASE ~(free < TypeRoom)
    <2>1. Answer!Takes(1) /\ pc' = "key" /\ packet' = packet /\ sent' = sent
      BY <1>3 DEF Answer!StartType
    <2>2. free' \in 0 .. Room
      BY <2>1, BuildingNumbers, RoomLeft
    <2>3. Building'
      BY <1>1, <2>1, <2>2 DEF ReplyInv, Building, Answer!browser
    <2> QED BY <1>1, <2>1, <2>3, WithinPacket DEF Passed
  <1> QED BY <1>2, <1>3

\* The name of a key, or the packet as it is.
LEMMA StartKeyKeeps ==
  ASSUME Answer!ReplyAssumption, ReplyInv, Answer!StartKey
  PROVE  ReplyInv'
  <1>1. /\ pc = "key" /\ key <= Keys
        /\ size' = size /\ type' = type /\ key' = key /\ sub' = sub /\ UNCHANGED Answer!browser
    BY DEF Answer!StartKey, Answer!progress, Answer!NumKeys
  <1>2. CASE free <= Answer!NameSize
    <2>1. Answer!Sends(FALSE)
      BY <1>2 DEF Answer!StartKey
    <2> QED BY <1>1, <2>1, PlainlySent
  <1>3. CASE ~(free <= Answer!NameSize)
    <2>1. /\ \E n \in Nat : Answer!Takes(n)
          /\ pc' = "sub" /\ packet' = packet /\ sent' = sent
      <3>1. Answer!Takes(IF type = Answer!Server THEN Answer!NameSize ELSE Answer!NameSize + 1)
        BY <1>3 DEF Answer!StartKey
      <3>2. (IF type = Answer!Server THEN Answer!NameSize ELSE Answer!NameSize + 1) \in Nat
        BY DEF Answer!NameSize
      <3> QED BY <1>3, <3>1, <3>2 DEF Answer!StartKey
    <2>2. free' \in 0 .. Room
      BY <2>1, BuildingNumbers, RoomLeft
    <2>3. Building'
      BY <1>1, <2>1, <2>2 DEF ReplyInv, Building, Answer!browser
    <2> QED BY <1>1, <2>1, <2>3, WithinPacket DEF Passed
  <1> QED BY <1>2, <1>3

\* A value that may have been cut comes again; one that fits is behind.
LEMMA AddValueKeeps ==
  ASSUME Answer!ReplyAssumption, ReplyInv, Answer!AddValue
  PROVE  ReplyInv'
  <1> DEFINE e == <<type, key, sub>>
  <1>1. /\ pc = "sub" /\ sub < (IF type = 0 THEN 1 ELSE Subs) /\ type \in Answer!Type /\ key \in 1 .. Keys
        /\ size' = size /\ type' = type /\ key' = key /\ Answer!Value(e) /\ UNCHANGED Answer!browser
    BY DEF Answer!AddValue, Answer!NumSubs, Answer!Server, ReplyInv, Building
  <1>2. e \in Answer!Entry
    <2>1. sub \in 0 .. Subs
      BY DEF ReplyInv, Building
    <2> QED BY <1>1, <2>1, EntryIs
  <1>3. size[e] \in Nat /\ packet \in Seq(Answer!Entry) /\ free \in Nat
    <2>1. size[e] \in 1 .. MaxSize /\ MaxSize \in Nat
      BY <1>2, BuildingNumbers, ReplySizes
    <2> QED BY <2>1, BuildingNumbers
  <1>4. Append(packet, e) \in Seq(Answer!Entry) /\ Answer!Range(Append(packet, e)) = Answer!Range(packet) \union {e}
    BY <1>2, <1>3, OneEntryMore
  <1>5. CASE size[e] >= free
    <2> DEFINE all == IF size[e] = free THEN Append(packet, e) ELSE packet
    <2>1. Answer!Posts(all, Answer!Cut(e), FALSE) /\ sub' = sub
      BY <1>1, <1>5 DEF Answer!Value
    <2>2. all \in Seq(Answer!Entry) /\ Answer!Range(packet) \subseteq Answer!Range(all)
      BY <1>3, <1>4
    <2>3. Answer!Cut(e) \in SUBSET Answer!Entry /\ \A f \in Answer!Cut(e) : f = e
      BY <1>2 DEF Answer!Cut
    <2>4. ~Passed(e)
      BY BuildingNumbers DEF Passed
    <2> HIDE DEF all, e
    <2> QED BY <1>1, <2>1, <2>2, <2>3, <2>4, PacketSent
  <1>6. CASE ~(size[e] >= free)
    <2>1. Answer!Takes(size[e]) /\ packet' = Append(packet, e) /\ sub' = sub + 1 /\ pc' = pc /\ sent' = sent
      BY <1>1, <1>6 DEF Answer!Value
    <2>2. free' \in 0 .. Room
      BY <1>3, <2>1, BuildingNumbers, RoomLeft
    <2>3. sub' \in 0 .. Subs
      <3>1. sub \in Nat /\ Subs \in Nat /\ Subs >= 1
        BY BuildingNumbers
      <3>2. sub < Subs \/ sub < 1
        BY <1>1
      <3> QED BY <2>1, <3>1, <3>2
    <2>4. Building'
      BY <1>1, <1>4, <2>1, <2>2, <2>3 DEF ReplyInv, Building, Answer!browser
    <2>5. \A f \in Answer!Entry : Passed(f)' => Passed(f) \/ f \in Answer!Range(packet')
      <3> SUFFICES ASSUME NEW f \in Answer!Entry, Passed(f)', ~Passed(f) PROVE f = e
        BY <1>4, <2>1
      <3>1. f[1] \in Nat /\ f[2] \in Nat /\ f[3] \in Nat /\ f = <<f[1], f[2], f[3]>>
        BY BuildingNumbers
      <3>2. type \in Nat /\ key \in Nat /\ sub \in Nat
        BY BuildingNumbers
      <3>3. f[1] = type /\ f[2] = key /\ f[3] = sub
        BY <1>1, <2>1, <3>1, <3>2 DEF Passed
      <3> QED BY <3>1, <3>3
    <2>6. Answer!Range(packet) \subseteq Answer!Range(packet')
      BY <1>4, <2>1
    <2> QED BY <1>1, <2>1, <2>4, <2>5, <2>6, WithinPacket
  <1> QED BY <1>5, <1>6

\* The last value of a key.
LEMMA EndKeyKeeps ==
  ASSUME Answer!ReplyAssumption, ReplyInv, Answer!EndKey
  PROVE  ReplyInv'
  <1>1. /\ pc = "sub" /\ sub = (IF type = 0 THEN 1 ELSE Subs) /\ type \in Answer!Type /\ key \in 1 .. Keys
        /\ key' = key + 1 /\ sub' = 0 /\ pc' = "key"
        /\ size' = size /\ type' = type /\ packet' = packet /\ sent' = sent /\ UNCHANGED Answer!browser
    BY DEF Answer!EndKey, Answer!NumSubs, Answer!Server, ReplyInv, Building
  <1>2. free' \in 0 .. Room
    <2>1. free' = free \/ Answer!Takes(1)
      BY DEF Answer!EndKey
    <2> QED BY <2>1, BuildingNumbers, RoomLeft
  <1>3. key' \in 1 .. Keys + 1 /\ sub' \in 0 .. Subs
    BY <1>1, BuildingNumbers
  <1>4. Building'
    BY <1>1, <1>2, <1>3 DEF ReplyInv, Building, Answer!browser
  <1>5. \A f \in Answer!Entry : Passed(f)' => Passed(f)
    <2> SUFFICES ASSUME NEW f \in Answer!Entry, Passed(f)' PROVE Passed(f)
      OBVIOUS
    <2>1. f[1] \in Nat /\ f[2] \in Nat /\ f[3] \in Nat /\ f[3] < (IF f[1] = 0 THEN 1 ELSE Subs)
      BY BuildingNumbers
    <2>2. type \in Nat /\ key \in Nat /\ Subs \in Nat
      BY BuildingNumbers
    <2> QED BY <1>1, <2>1, <2>2 DEF Passed
  <1> QED BY <1>1, <1>4, <1>5, WithinPacket

\* The last key of a type.
LEMMA EndTypeKeeps ==
  ASSUME Answer!ReplyAssumption, ReplyInv, Answer!EndType
  PROVE  ReplyInv'
  <1>1. /\ pc = "key" /\ key > Keys /\ type \in 0 .. 2
        /\ type' = type + 1 /\ key' = 1 /\ sub' = 0 /\ pc' = "type"
        /\ size' = size /\ packet' = packet /\ sent' = sent /\ Answer!Takes(1) /\ UNCHANGED Answer!browser
    BY DEF Answer!EndType, Answer!NumKeys, Answer!Type, ReplyInv, Building
  <1>2. free' \in 0 .. Room
    BY <1>1, BuildingNumbers, RoomLeft
  <1>3. type' \in 0 .. 3 /\ key' \in 1 .. Keys + 1 /\ sub' \in 0 .. Subs
    BY <1>1, BuildingNumbers
  <1>4. Building'
    BY <1>1, <1>2, <1>3 DEF ReplyInv, Building, Answer!browser
  <1>5. \A f \in Answer!Entry : Passed(f)' => Passed(f)
    <2> SUFFICES ASSUME NEW f \in Answer!Entry, Passed(f)' PROVE Passed(f)
      OBVIOUS
    <2>1. f[1] \in Nat /\ f[2] \in Nat /\ f[3] \in Nat /\ f[2] <= Keys /\ f[2] >= 1
      BY BuildingNumbers
    <2>2. type \in Nat /\ key \in Nat /\ Keys \in Nat
      BY BuildingNumbers
    <2> QED BY <1>1, <2>1, <2>2 DEF Passed
  <1> QED BY <1>1, <1>4, <1>5, WithinPacket

\* The final packet, after the last type.
LEMMA FinishKeeps ==
  ASSUME Answer!ReplyAssumption, ReplyInv, Answer!Finish
  PROVE  ReplyInv'
  <1>1. /\ pc = "type" /\ type = 3 /\ Answer!Sends(TRUE)
        /\ size' = size /\ type' = type /\ key' = key /\ sub' = sub /\ UNCHANGED Answer!browser
    <2>1. type \in 0 .. 3 /\ type \notin 0 .. 2
      BY DEF Answer!Finish, Answer!Type, ReplyInv, Building
    <2>2. type = 3
      BY <2>1
    <2> QED BY <2>2 DEF Answer!Finish, Answer!progress
  <1> QED BY <1>1, PlainlySent

\* A packet comes: what is whole in it is kept whole; what is cut in it is cut in no packet
\* before one that has come.
LEMMA ReceiveKeeps ==
  ASSUME Answer!ReplyAssumption, ReplyInv, NEW k \in DOMAIN sent, Answer!Receive(k)
  PROVE  ReplyInv'
  <1> DEFINE es == sent[k].entries
             cut == IF \E n \in DOMAIN es : Answer!Ends(es[n]) THEN {} ELSE sent[k].cut
             NoEnd == \A e \in Answer!Entry : ~Answer!Ends(e)
  <1>1. /\ pc = "done" /\ came' = came \union {k}
        /\ stored' = [e \in Answer!Entry |-> IF e \in cut THEN "cut"
                           ELSE IF e \in Answer!Read(es) THEN "whole" ELSE stored[e]]
        /\ overtaken' = (overtaken \/ (sent[k].cut # {} /\ \E j \in came : j > k))
        /\ UNCHANGED <<size, type, key, sub, pc, free, packet, sent>>
    BY DEF Answer!Receive, Answer!builder, Answer!progress
  <1>2. Building' /\ FinalIsLast' /\ NoneSkipped'
    BY <1>1 DEF ReplyInv, Building, FinalIsLast, NoneSkipped, Passed, InSome, LastWhole
  <1>3. /\ sent \in Seq(SentPacket) /\ DOMAIN sent = 1 .. Len(sent) /\ Len(sent) \in Nat
        /\ came \in SUBSET DOMAIN sent /\ es \in Seq(Answer!Entry)
    <2>1. sent \in Seq(SentPacket) /\ came \in SUBSET DOMAIN sent
      BY DEF ReplyInv, Building, Coming
    <2>2. sent[k] \in SentPacket
      BY <2>1
    <2> QED BY <2>1, <2>2 DEF SentPacket
  <1>4. NoEnd => Answer!Read(es) = Answer!Range(es) /\ \A e \in sent[k].cut : e \in cut
    <2> SUFFICES ASSUME NoEnd
                 PROVE  Answer!Read(es) = Answer!Range(es) /\ \A e \in sent[k].cut : e \in cut
      OBVIOUS
    <2>1. \A n \in DOMAIN es : ~Answer!Ends(es[n])
      BY <1>3
    <2>2. DOMAIN es = 1 .. Len(es) /\ Len(es) \in Nat
      BY <1>3
    <2>3. \A m \in DOMAIN es : \A l \in 1 .. m : l \in DOMAIN es
      BY <2>2
    <2> HIDE DEF es
    <2>4. Answer!Read(es) = Answer!Range(es)
      BY <2>1, <2>3 DEF Answer!Read, Answer!Range
    <2> QED BY <2>1, <2>4
  <1>5. ASSUME NoEnd, ~overtaken', NEW e \in Answer!Entry, NEW i \in came',
               e \in Answer!Range(sent[i].entries),
               \A j \in came' : j >= i => e \notin sent[j].cut
        PROVE  stored'[e] = "whole"
    <2>1. e \notin sent[k].cut
      <3>1. CASE k >= i
        BY <1>1, <1>5, <3>1
      <3>2. CASE ~(k >= i)
        <4>1. i \in came /\ i > k
          BY <1>1, <1>3, <3>2
        <4> QED BY <1>1, <1>5, <4>1
      <3> QED BY <3>1, <3>2
    <2>2. stored'[e] = IF e \in Answer!Range(es) THEN "whole" ELSE stored[e]
      BY <1>1, <1>4, <1>5, <2>1
    <2>3. CASE i = k
      BY <1>5, <2>2, <2>3
    <2>4. CASE i # k
      <3>1. i \in came /\ \A j \in came : j >= i => e \notin sent[j].cut
        BY <1>1, <1>5, <2>4
      <3>2. stored[e] = "whole"
        BY <1>1, <1>5, <3>1 DEF ReplyInv, Coming
      <3> QED BY <2>2, <3>2
    <2> QED BY <2>3, <2>4
  <1>6. Coming'
    <2>1. came' \in SUBSET DOMAIN sent' /\ overtaken' \in BOOLEAN
      BY <1>1, <1>3 DEF ReplyInv, Coming
    <2>2. stored' \in [Answer!Entry -> {"nothing", "cut", "whole"}]
      BY <1>1 DEF ReplyInv, Coming
    <2>3. (\A e \in Answer!Entry : ~Answer!Ends(e))' => NoEnd
      BY <1>1 DEF Answer!Ends
    <2>4. sent' = sent
      BY <1>1
    <2> HIDE DEF NoEnd, es, cut
    <2> QED BY <1>5, <2>1, <2>2, <2>3, <2>4 DEF Coming
  <1> QED BY <1>2, <1>6 DEF ReplyInv

\* Every step.
LEMMA SplitReplyKeeps ==
  ASSUME Answer!ReplyAssumption, ReplyInv, Answer!Next
  PROVE  ReplyInv'
  BY StartTypeKeeps, StartKeyKeeps, AddValueKeeps, EndKeyKeeps, EndTypeKeeps, FinishKeeps, ReceiveKeeps
  DEF Answer!Next, Answer!Builds

\* A stutter of the builder.
LEMMA ReplyStays ==
  ASSUME ReplyInv, UNCHANGED <<pc, answer>>
  PROVE  ReplyInv'
  BY DEF answer, ReplyInv, Building, FinalIsLast, NoneSkipped, Coming, Passed, InSome, LastWhole, Answer!Ends

\* Nothing is sent, and nothing is behind.
LEMMA ReplyBegins ==
  ASSUME Answer!ReplyAssumption, Answer!Init
  PROVE  ReplyInv
  <1>1. /\ size \in [Answer!Entry -> 1 .. MaxSize] /\ type = 0 /\ key = 1 /\ sub = 0
        /\ pc = "type" /\ free = Room /\ packet = <<>> /\ sent = <<>>
        /\ came = {} /\ stored = [e \in Answer!Entry |-> "nothing"] /\ overtaken = FALSE
    BY DEF Answer!Init, Answer!Server
  <1>2. Building
    BY <1>1, ReplySizes DEF Building
  <1>3. FinalIsLast
    BY <1>1, ReplySizes DEF FinalIsLast
  <1>4. NoneSkipped
    <2> SUFFICES ASSUME NEW e \in Answer!Entry PROVE ~Passed(e)
      BY DEF NoneSkipped
    <2>1. e[1] \in Nat /\ e[2] \in Nat /\ e[3] \in Nat /\ e[2] >= 1
      BY EntryIs, ReplySizes DEF Answer!Type
    <2> QED BY <1>1, <2>1 DEF Passed
  <1>5. Coming
    BY <1>1 DEF Coming
  <1> QED BY <1>2, <1>3, <1>4, <1>5 DEF ReplyInv

\* What has come stands for all that could come only if all that was sent has come.
LEMMA AllMustCome ==
  ASSUME Answer!ReplyAssumption, ReplyInv, Answer!FullKeys
  PROVE  came = DOMAIN sent
  <1>1. /\ sent \in Seq(SentPacket) /\ Len(sent) \in Nat /\ DOMAIN sent = 1 .. Len(sent)
        /\ Len(sent) <= SplitMax + 1 /\ SplitMax \in Nat /\ came \in SUBSET DOMAIN sent
        /\ \A i \in DOMAIN sent : sent[i].final => i = Len(sent)
    <2>1. sent \in Seq(SentPacket) /\ Len(sent) <= SplitMax + 1 /\ SplitMax \in Nat
      BY ReplySizes DEF ReplyInv, Building, FinalIsLast
    <2>2. Len(sent) \in Nat /\ DOMAIN sent = 1 .. Len(sent)
      BY <2>1
    <2>3. came \in SUBSET DOMAIN sent
      BY DEF ReplyInv, Coming
    <2>4. \A i \in DOMAIN sent : sent[i].final => i = Len(sent)
      BY DEF ReplyInv, FinalIsLast
    <2> QED BY <2>1, <2>2, <2>3, <2>4
  <1>0. came \subseteq DOMAIN sent
    BY <1>1
  <1> SUFFICES ASSUME NEW i \in DOMAIN sent PROVE i \in came
    BY <1>0
  <1>2. i - 1 \in 0 .. SplitMax
    BY <1>1
  <1>3. PICK j \in came : i - 1 \in Answer!Bits(j)
    BY <1>2 DEF Answer!FullKeys
  <1>4. j \in DOMAIN sent
    BY <1>1
  <1>5. CASE sent[j].final
    <2>1. j = Len(sent) /\ i - 1 >= j - 1
      BY <1>1, <1>3, <1>4, <1>5 DEF Answer!Bits
    <2> QED BY <1>1, <2>1
  <1>6. CASE ~sent[j].final
    <2>1. i - 1 = j - 1
      BY <1>3, <1>6 DEF Answer!Bits
    <2> QED BY <1>1, <1>4, <2>1
  <1> QED BY <1>5, <1>6

\* What the invariant says of the reply.
LEMMA ReplyInvIs ==
  ASSUME Answer!ReplyAssumption, ReplyInv
  PROVE  Answer!TypeOK /\ Answer!OneFinal /\ Answer!CompleteMeansWhole
  <1>1. Answer!TypeOK
    BY DEF ReplyInv, Building, Coming, Answer!TypeOK
  <1>2. Answer!OneFinal
    BY DEF ReplyInv, FinalIsLast, Answer!OneFinal
  <1>3. Answer!CompleteMeansWhole
    <2> SUFFICES ASSUME Answer!FullKeys, NEW f \in came, sent[f].final, ~overtaken,
                        \A e \in Answer!Entry : ~Answer!Ends(e),
                        NEW e \in Answer!Entry
                 PROVE  stored[e] = "whole"
      BY DEF Answer!CompleteMeansWhole
    <2>1. came = DOMAIN sent
      BY AllMustCome
    <2>2. type = 3 /\ packet = <<>>
      <3>1. f \in DOMAIN sent
        BY <2>1
      <3> QED BY <3>1 DEF ReplyInv, Building, FinalIsLast
    <2>3. Passed(e)
      BY <2>2, BuildingNumbers DEF Passed
    <2>4. InSome(e)
      BY <2>3 DEF ReplyInv, NoneSkipped
    <2>5. Answer!Range(packet) = {}
      BY <2>2 DEF Answer!Range
    <2>6. PICK i \in DOMAIN sent : LastWhole(e, i)
      BY <2>4, <2>5 DEF InSome
    <2> QED BY <2>1, <2>6 DEF ReplyInv, Coming, LastWhole
  <1> QED BY <1>1, <1>2, <1>3

-----------------------------------------------------------------------------
(***************************************************************************)
(* Reply and list, in the behaviours that are about them                   *)
(***************************************************************************)
ArrivesInv == (part = "answer" => ReplyInv) /\ (part = "list" => ParserInv)

\* In what is about neither.
LEMMA ArrivesStays ==
  ASSUME ArrivesInv, part' = part, part = "answer" => UNCHANGED <<pc, answer>>,
         part = "list" => UNCHANGED <<pc, parser>>
  PROVE  ArrivesInv'
  BY ReplyStays, ParserStays DEF ArrivesInv

(***************************************************************************)
(* Whatever the sizes of keys, values and packets, whatever packets of a   *)
(* reply are lost, doubled or late, and however the list's stream is cut:  *)
(* of a reply that is taken for complete every entry is kept whole, unless *)
(* a packet that ends in a cut value came after a later one or a value of  *)
(* a player or team is empty; every item of the list is taken for what it  *)
(* is and decrypted once, and nothing that has come is left unread         *)
(* (qr2.c:967-1087, sb_server.c:629-776, sb_serverlist.c:1168-1326).       *)
(***************************************************************************)
THEOREM ArrivesWholeHolds == BrowsingSpec => []ArrivesWhole
  <1>1. Answer!ReplyAssumption /\ Parser!SbListAssumption
    BY PartsAssumption
  <1>2. Begins => ArrivesInv
    BY <1>1, ReplyBegins, ParserBegins DEF Begins, ArrivesInv, Alone
  <1>3. ArrivesInv /\ [Moves]_browsing => ArrivesInv'
    <2> SUFFICES ASSUME ArrivesInv, [Moves]_browsing PROVE ArrivesInv'
      OBVIOUS
    <2>1. CASE OfAnswer(Answer!Next)
      <3>1. part = "answer" /\ part' = part /\ Answer!Next
        BY <2>1 DEF OfAnswer
      <3> QED BY <1>1, <3>1, SplitReplyKeeps DEF ArrivesInv
    <2>2. CASE OfStream(Parser!Next)
      <3>1. part = "list" /\ part' = part /\ Parser!Next
        BY <2>2 DEF OfStream
      <3> QED BY <3>1, ParserKeeps DEF ArrivesInv
    <2>3. CASE Moves /\ ~OfAnswer(Answer!Next) /\ ~OfStream(Parser!Next)
      <3>1. part' = part /\ part # "answer" /\ part # "list"
        BY <2>3 DEF Moves, OfHost, OfBrowser, OfSearch, Alone
      <3> QED BY <3>1, ArrivesStays
    <2>4. CASE UNCHANGED browsing
      <3>1. part' = part /\ UNCHANGED <<pc, answer>> /\ UNCHANGED <<pc, parser>>
        BY <2>4 DEF browsing
      <3> QED BY <3>1, ArrivesStays
    <2> QED BY <2>1, <2>2, <2>3, <2>4
  <1>4. ArrivesInv => ArrivesWhole
    BY <1>1, ReplyInvIs, ParserInvIs DEF ArrivesInv, ArrivesWhole
  <1> QED BY <1>2, <1>3, <1>4, PTL DEF BrowsingSpec
=============================================================================
