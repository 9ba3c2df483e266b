--------------------------------- MODULE Qr2 ---------------------------------
(***************************************************************************)
(* Query and reporting (qr2.c): a host tells the master server about its   *)
(* game in heartbeats, and answers what arrives on its socket.  The host   *)
(* thinks over and over; each time it may send a heartbeat or a keepalive, *)
(* then it reads its packets and forgets old challenges.                   *)
(*                                                                         *)
(* The master server is not part of this repository.  Any of its packets   *)
(* may come late or more than once; what the host sends may be lost, so    *)
(* the master server repeats a client message until it sees the            *)
(* acknowledgement.                                                        *)
(*                                                                         *)
(* Times are ages in units of which only the order is kept; an age that    *)
(* has passed every limit is Old.                                          *)
(***************************************************************************)
EXTENDS Integers, FiniteSets

CONSTANTS
  FirstHbTime, MinStateChangedTime, HbTime, KaTime,   \* FIRST_HB_TIME, MIN_STATECHANGED_HB_TIME, HB_TIME, KA_TIME
  MaxFirstCount,   \* MAX_FIRST_COUNT
  Recent,          \* RECENT_CLIENT_MESSAGES_TO_TRACK
  Window,          \* client messages the master server has under way at once
  Messages,        \* bound on client messages
  Slots, MaxDuplicates, VerifyTime,   \* QR2_IPVERIFY_ARRAY_SIZE, _MAXDUPLICATES, _TIMEOUT
  Asker,           \* addresses that query the host
  Challenges       \* bound on challenges given

Qr2Assumption ==
  /\ {FirstHbTime, MinStateChangedTime, HbTime, KaTime, MaxFirstCount, Recent, Window, Messages,
      Slots, MaxDuplicates, VerifyTime, Challenges} \subseteq Nat
  /\ FirstHbTime <= HbTime /\ MinStateChangedTime <= HbTime /\ KaTime <= HbTime /\ VerifyTime <= HbTime
  /\ Window > 0 /\ Recent >= 2 * Window - 1 /\ Slots > 0 /\ MaxFirstCount > 0

Old == HbTime + 1
Age == 0 .. Old

VARIABLES
  open,        \* hbsock # INVALID_SOCKET
  listed,      \* listed_state
  hbAge,       \* time since lastheartbeat
  kaAge,       \* time since lastka
  requested,   \* userstatechangerequested
  changed,     \* history: the game has changed since the last heartbeat that says so
  option,      \* backendoptions ask for the query challenge
  ring, cur,   \* client_message_keys, cur_message_key
  newest,      \* history: the newest client message that arrived
  handled,     \* history: how often the callback was called for each
  told,        \* history: the add error callbacks
  verify,      \* ipverify: a challenge per slot
  given,       \* challenges given so far
  answered     \* history: the challenge of each query answered

heartbeats == <<listed, hbAge, kaAge, requested, changed, told>>
messages == <<ring, cur, newest, handled>>
queries == <<option, verify, given, answered>>
vars == <<open, heartbeats, messages, queries>>

Free == [who |-> "nobody", challenge |-> 0, age |-> 0]

\* qr2_init_socket: lastheartbeat and lastka are 0, long ago.
Init ==
  /\ open = TRUE /\ listed = 1
  /\ hbAge = Old /\ kaAge = Old
  /\ requested = FALSE /\ changed = FALSE /\ option = FALSE
  /\ ring = [i \in 0 .. Recent - 1 |-> 0] /\ cur = 0
  /\ newest = 0 /\ handled = [m \in 1 .. Messages |-> 0]
  /\ told = <<0, 0>>
  /\ verify = [s \in 1 .. Slots |-> Free] /\ given = 0 /\ answered = {}

-----------------------------------------------------------------------------
(***************************************************************************)
(* Heartbeats                                                              *)
(***************************************************************************)
\* send_heartbeat: kind 0 says nothing of a change, 1 that the state changed,
\* 2 goodbye, 3 first try.
SendHeartbeat(kind) ==
  /\ hbAge' = 0 /\ kaAge' = 0
  /\ requested' = (requested /\ kind = 0)
  /\ changed' = (changed /\ kind = 0)

SendKeepalive ==
  /\ kaAge' = 0
  /\ UNCHANGED <<hbAge, requested, changed>>

NoChallenge == told' = <<told[1] + 1, told[2]>>

NothingSent == UNCHANGED <<hbAge, kaAge, requested, changed>>

\* qr2_check_send_heartbeat.
FirstTry == listed > 0 /\ hbAge > FirstHbTime

CheckSendHeartbeat ==
  IF FirstTry
  THEN IF listed >= MaxFirstCount
       THEN listed' = 0 /\ NoChallenge /\ NothingSent
       ELSE listed' = listed + 1 /\ SendHeartbeat(3) /\ UNCHANGED told
  ELSE /\ CASE requested /\ hbAge > MinStateChangedTime -> SendHeartbeat(1)
            [] ~(requested /\ hbAge > MinStateChangedTime) /\ hbAge > HbTime -> SendHeartbeat(0)
            [] OTHER -> IF kaAge > KaTime THEN SendKeepalive ELSE NothingSent
       /\ UNCHANGED <<listed, told>>

\* qr2_expire_ip_verify.
ExpireIpVerify ==
  verify' = [s \in DOMAIN verify |-> IF verify[s].age > VerifyTime THEN Free ELSE verify[s]]

\* qr2_think with nothing to read; what is read is an action of its own below,
\* and comes between the two.
Think ==
  /\ open
  /\ CheckSendHeartbeat
  /\ ExpireIpVerify
  /\ UNCHANGED <<open, messages, option, given, answered>>

\* Seeded fault: a change too soon after a heartbeat is dropped.
DropsTooSoon ==
  /\ open /\ changed' = TRUE
  /\ IF hbAge < MinStateChangedTime
     THEN UNCHANGED <<hbAge, kaAge, requested>>
     ELSE hbAge' = 0 /\ kaAge' = 0 /\ requested' = FALSE
  /\ UNCHANGED <<open, listed, told, messages, queries>>

\* The game changes, and qr2_send_statechanged is called.
SendStateChanged ==
  /\ open
  /\ IF hbAge < MinStateChangedTime
     THEN requested' = TRUE /\ changed' = TRUE /\ UNCHANGED <<hbAge, kaAge>>
     ELSE /\ hbAge' = 0 /\ kaAge' = 0
          /\ requested' = FALSE /\ changed' = FALSE
  /\ UNCHANGED <<open, listed, told, messages, queries>>

\* qr2_shutdown: the goodbye, and no socket from then on.
Shutdown ==
  /\ open /\ open' = FALSE
  /\ hbAge' = Old                       \* lastheartbeat = 0
  /\ kaAge' = 0 /\ requested' = FALSE /\ changed' = FALSE
  /\ UNCHANGED <<listed, told, messages, queries>>

Older(age) == IF age < Old THEN age + 1 ELSE Old

Passes ==
  /\ open
  /\ hbAge' = Older(hbAge) /\ kaAge' = Older(kaAge)
  /\ verify' = [s \in DOMAIN verify |->
                  IF verify[s] = Free THEN Free ELSE [verify[s] EXCEPT !.age = Older(@)]]
  /\ <<hbAge, kaAge, verify>>' # <<hbAge, kaAge, verify>>
  /\ UNCHANGED <<open, listed, requested, changed, told, messages, option, given, answered>>

\* The clock is set back: every time lies ahead, and its unsigned age is huge.
ClockSetBack ==
  /\ open /\ hbAge' = Old /\ kaAge' = Old
  /\ verify' = [s \in DOMAIN verify |->
                  IF verify[s] = Free THEN Free ELSE [verify[s] EXCEPT !.age = Old]]
  /\ UNCHANGED <<open, listed, requested, changed, told, messages, option, given, answered>>

-----------------------------------------------------------------------------
(***************************************************************************)
(* Packets: qr2_parse_query                                                *)
(***************************************************************************)
\* Any packet with the magic bytes ends the first tries.
Heard == listed' = IF listed > 0 THEN 0 ELSE listed

\* PACKET_CHALLENGE with the instance key: it carries the options, and is answered.
ReceiveChallenge ==
  /\ open /\ Heard
  /\ option' \in BOOLEAN
  /\ UNCHANGED <<open, hbAge, kaAge, requested, changed, told, messages, verify, given, answered>>

\* PACKET_ECHO, PACKET_KEEPALIVE and the like, and packets without the instance key.
ReceiveOther ==
  /\ open /\ listed > 0 /\ Heard
  /\ UNCHANGED <<open, hbAge, kaAge, requested, changed, told, messages, queries>>

\* PACKET_ADDERROR with the instance key.
ReceiveAddError ==
  /\ open /\ listed # -1
  /\ listed' = -1
  /\ told' = <<told[1], told[2] + 1>>
  /\ UNCHANGED <<open, hbAge, kaAge, requested, changed, messages, queries>>

Recently(m) == m \in {ring[i] : i \in DOMAIN ring}

\* Seeded fault: the ring always writes the same place.
RingStuck(m) == ring' = [ring EXCEPT ![cur] = m] /\ cur' = cur
\* qr_got_recent_message, when it is new: it is remembered in place of the oldest.
Remembers(m) == cur' = (cur + 1) % Recent /\ ring' = [ring EXCEPT ![cur'] = m]

\* The master server repeats a message until it sees the acknowledgement, and has
\* at most Window of them under way: all that are newer than the oldest one that
\* is not acknowledged.
UnderWay(m) ==
  /\ m + Window > newest
  /\ \A older \in 1 .. m - Window : handled[older] > 0

\* PACKET_CLIENT_MESSAGE with the instance key: always acknowledged, and the
\* callback is called when it is new.  (A ring of -1s takes a first message
\* whose key is -1 for an old one; no message here has that key.)
ReceiveClientMessage(m) ==
  /\ open /\ Heard /\ UnderWay(m)
  /\ newest' = IF m > newest THEN m ELSE newest
  /\ IF Recently(m)
     THEN UNCHANGED <<ring, cur, handled>>
     ELSE Remembers(m) /\ handled' = [handled EXCEPT ![m] = @ + 1]
  /\ UNCHANGED <<open, hbAge, kaAge, requested, changed, told, queries>>

\* qr2_process_ip_verify: a challenge in the first free slot.  The count of the
\* asker's slots is compared after they are counted, so MaxDuplicates + 1 fit.
Duplicates(who) == Cardinality({s \in DOMAIN verify : verify[s].who = who})
FreeSlots == {s \in DOMAIN verify : verify[s] = Free}

ProcessIpVerify(who) ==
  /\ open /\ option /\ Heard
  /\ given < Challenges
  /\ Duplicates(who) <= MaxDuplicates /\ FreeSlots # {}
  /\ LET s == CHOOSE f \in FreeSlots : \A g \in FreeSlots : f <= g IN
     verify' = [verify EXCEPT ![s] = [who |-> who, challenge |-> given + 1, age |-> 0]]
  /\ given' = given + 1
  /\ UNCHANGED <<open, hbAge, kaAge, requested, changed, told, messages, option, answered>>

\* Seeded fault: the slot keeps its challenge.
KeepsChallenge(s) == UNCHANGED verify
\* qr2_check_ip_verify: the slot is free again.
UsesChallenge(s) == verify' = [verify EXCEPT ![s] = Free]

\* PACKET_QUERY with a challenge: answered only when the asker has it.
ReceiveQuery(who, challenge) ==
  /\ open /\ option /\ Heard
  /\ \E s \in DOMAIN verify :
       /\ verify[s].who = who /\ verify[s].challenge = challenge
       /\ UsesChallenge(s)
  /\ answered' = answered \union {<<who, challenge, challenge \in {a[2] : a \in answered}>>}
  /\ UNCHANGED <<open, hbAge, kaAge, requested, changed, told, messages, option, given>>

Next ==
  \/ Think \/ SendStateChanged \/ Shutdown \/ Passes \/ ClockSetBack
  \/ ReceiveChallenge \/ ReceiveOther \/ ReceiveAddError
  \/ \E m \in 1 .. Messages : ReceiveClientMessage(m)
  \/ \E who \in Asker : ProcessIpVerify(who)
  \/ \E who \in Asker, c \in 1 .. Challenges : ReceiveQuery(who, c)

Spec == Init /\ [][Next]_vars

\* Time passes and the host thinks; what the master server does is not owed.
FairSpec == Spec /\ WF_vars(Think) /\ WF_vars(Passes)
-----------------------------------------------------------------------------
TypeOK ==
  /\ {open, requested, changed, option} \subseteq BOOLEAN
  /\ listed \in -1 .. MaxFirstCount
  /\ {hbAge, kaAge} \subseteq Age
  /\ ring \in [0 .. Recent - 1 -> 0 .. Messages] /\ cur \in 0 .. Recent - 1
  /\ verify \in [1 .. Slots -> {Free} \union
       [who : Asker, challenge : 1 .. Challenges, age : Age]]

\* However often and in whatever order the messages under way arrive, the ring
\* remembers long enough: each is handled once, and the newest it has forgotten
\* will not come again.  It takes a ring of twice the window (qr2.c:1258-1270).
HandledOnce == \A m \in 1 .. newest : handled[m] <= 1

\* The program is told of each error at most once, and a host whose first
\* heartbeats were answered is never told that no challenge came.
ErrorsOnce == told[1] <= 1 /\ told[2] <= 1

\* A challenge answers one query (qr2.c:1319-1339).
ChallengeOnce == \A a \in answered : ~a[3]

\* What the host owes to each that speaks to it: one answer, one call, one error.
HostAnswersOnce == TypeOK /\ HandledOnce /\ ErrorsOnce /\ ChallengeOnce

(***************************************************************************)
(* Why a message is handled once.  The slots of the ring are in the order  *)
(* in which they were written; what was written after a message is no      *)
(* older than Window before it, and what the ring has forgotten was        *)
(* written before all that it holds.                                       *)
(***************************************************************************)
Behind(i) == IF i <= cur THEN cur - i ELSE cur - i + Recent

After(x, m) == x > 0 /\ x + Window > m

RingInv ==
  /\ newest \in 0 .. Messages /\ handled \in [1 .. Messages -> 0 .. 1]
  /\ \A m \in 1 .. Messages : handled[m] > 0 => m <= newest
  /\ \A i \in DOMAIN ring : ring[i] > 0 => handled[ring[i]] = 1
  /\ \A i, k \in DOMAIN ring : i # k /\ ring[i] = ring[k] => ring[i] = 0
  /\ \A i, k \in DOMAIN ring : ring[i] > 0 /\ Behind(k) < Behind(i) => After(ring[k], ring[i])
  /\ \A m \in 1 .. Messages : handled[m] > 0 /\ ~Recently(m) =>
       \A i \in DOMAIN ring : After(ring[i], m)

\* Why a challenge answers one query: none is given twice, and one that has answered has no slot.
VerifyInv ==
  /\ given \in 0 .. Challenges
  /\ \A s \in DOMAIN verify : verify[s].challenge <= given
  /\ \A s, t \in DOMAIN verify :
       s # t /\ verify[s].challenge = verify[t].challenge => verify[s].challenge = 0
  /\ \A a \in answered :
       a[2] \in 1 .. given /\ \A s \in DOMAIN verify : verify[s].challenge # a[2]

\* Why an error is told once: the first tries end for good, and so does a listing with an error.
ErrorInv ==
  /\ told \in Nat \X Nat
  /\ listed > 0 => told[1] = 0
  /\ listed # -1 => told[2] = 0

HostInv == HostAnswersOnce /\ RingInv /\ VerifyInv /\ ErrorInv

\* A change of the game is told sooner or later, also when it comes too soon after
\* a heartbeat (qr2.c:573-598), and a table of challenges that are never answered
\* has room again (qr2.c:1342-1352).
ChangeIsTold == []<>(~changed)
RoomAgain == []<>(~open \/ FreeSlots # {})
=============================================================================
