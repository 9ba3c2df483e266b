----------------------------- MODULE MatchSteps ------------------------------
(***************************************************************************)
(* What one step of one phone does: a phone of DuelSession stays a phone,   *)
(* and what the match invariant of DuelMatch says of the two phones and of  *)
(* the packets under way between them still holds.                          *)
(***************************************************************************)
EXTENDS DuelMatch, SequenceTheorems, TLAPS

-----------------------------------------------------------------------------
(***************************************************************************)
(* The state of a phone in DuelSession stays a state of a phone, whatever   *)
(* the screens, the buttons and the packets do to it.                       *)
(*                                                                          *)
(* The one field that a screen cannot answer for alone is the timer of the  *)
(* start screen: OPONTYPE_RESPONSE starts it whatever screen is on top.  It *)
(* reaches a phone before anything else does (Opening), so that the screen  *)
(* is the start screen.                                                     *)
(***************************************************************************)

\* What a phone g becomes on receiving TIME, TIME_TRY or OPONTYPE_RESPONSE_TRY, told
\* the other player's money m and the round's delay t.
Met(g, m, t) ==
  [Goes(MatchStarted(g), "start") EXCEPT !.server = FALSE, !.opMoney = m, !.randomTime = t,
                                         !.serverType = TRUE, !.mayStart = TRUE]
Asked(g, m, t) ==
  [Goes(g, "start") EXCEPT
     !.tally = NoRounds, !.shot = FALSE, !.endDuel = FALSE, !.btnStartClick = FALSE,
     !.server = FALSE, !.opMoney = m, !.randomTime = t,
     !.serverType = @ \/ g.view = "list", !.mayStart = @ \/ g.view # "start",
     !.waiting = g.waiting /\ g.view = "start", !.won = 0, !.lost = 0]
Ready(g, m) ==
  [Goes(g, "start") EXCEPT !.endDuel = FALSE, !.server = TRUE, !.opMoney = m,
                           !.mayStart = @ /\ g.view = "start", !.tried = FALSE]
Agreed(g, m, covered) == [Waiting(StartClicked(Ready(g, m))) EXCEPT !.waiting = @ /\ covered]

\* The fields of a phone have their types.
LEMMA FieldTypes ==
  ASSUME NEW g \in Local
  PROVE  /\ g.money \in Int /\ g.opMoney \in Int /\ g.amount \in Int /\ g.booked \in Int
         /\ g.copies \in Nat /\ g.won \in Nat /\ g.lost \in Nat /\ g.randomTime \in Nat
         /\ g.tally \in [number : Nat, win : Nat, lose : Nat] /\ g.tally \in Tally
         /\ g.view \in View
  BY DEF Local, Tally

\* The empty tally is a tally.
LEMMA NoRoundsType == NoRounds \in Tally
  BY DEF NoRounds, Tally

\* The screens are screens.
LEMMA ViewType == "list" \in View /\ "start" \in View /\ "duel" \in View /\ "final" \in View
  BY DEF View

\* A tenth of some money is a positive amount.
LEMMA TenthType ==
  ASSUME NEW m \in Int
  PROVE  Tenth(m) \in Int /\ Tenth(m) > 0
  BY DEF Tenth

\* Going to another screen gives a phone again.
LEMMA GoesType ==
  ASSUME NEW g \in Local, NEW v \in View
  PROVE  Goes(g, v) \in Local
  BY ZenonT(60) DEF Local, Goes

\* matchStarted gives a phone again.
LEMMA MatchStartedType ==
  ASSUME NEW g \in Local
  PROVE  MatchStarted(g) \in Local
  BY NoRoundsType, ZenonT(60) DEF Local, MatchStarted

\* lostConnection gives a phone again.
LEMMA LostConnectionType ==
  ASSUME NEW g \in Local
  PROVE  LostConnection(g) \in Local
  <1>1. Goes(g, "list") \in Local
    BY GoesType, ViewType
  <1>2. QED
    BY <1>1, ZenonT(60) DEF Local, LostConnection

\* A cancelled duel gives a phone again.
LEMMA CancelledType ==
  ASSUME NEW g \in Local
  PROVE  Cancelled(g) \in Local
  <1>1. LostConnection(g) \in Local
    BY LostConnectionType
  <1>2. QED
    BY <1>1, NoRoundsType, ZenonT(60) DEF Local, Cancelled

\* startDuel gives a phone again.
LEMMA StartDuelType ==
  ASSUME NEW g \in Local
  PROVE  StartDuel(g) \in Local
  <1>1. Goes(g, "duel") \in Local
    BY GoesType, ViewType
  <1>2. [g EXCEPT !.btnStartClick = TRUE] \in Local
    BY DEF Local
  <1>3. QED
    BY <1>1, <1>2 DEF StartDuel

\* The waiting sign gives a phone again.
LEMMA WaitingType ==
  ASSUME NEW g \in Local
  PROVE  Waiting(g) \in Local
  <1>1. (g.view # "duel") \in BOOLEAN
    OBVIOUS
  <1>2. QED
    BY <1>1, ZenonT(60) DEF Local, Waiting

\* A press of Start gives a phone again.
LEMMA StartClickedType ==
  ASSUME NEW g \in Local
  PROVE  StartClicked(g) \in Local
  <1> DEFINE stray == g.stray \/ g.timer
  <1>1. stray \in BOOLEAN
    OBVIOUS
  <1> HIDE DEF stray
  <1>2. [g EXCEPT !.stray = stray, !.timer = TRUE] \in Local
    BY <1>1 DEF Local
  <1>3. QED
    BY <1>2, StartDuelType DEF StartClicked, stray

\* nextDuelStart gives a phone again.
LEMMA NextDuelStartType ==
  ASSUME NEW g \in Local
  PROVE  NextDuelStart(g) \in Local
  <1> DEFINE fresh == [g EXCEPT !.endDuel = FALSE, !.shot = FALSE]
  <1>1. fresh \in Local
    BY DEF Local
  <1>2. Goes(fresh, "duel") \in Local
    BY <1>1, GoesType, ViewType
  <1> HIDE DEF fresh
  <1>3. [fresh EXCEPT !.btnStartClick = TRUE, !.waiting = TRUE] \in Local
    BY <1>1 DEF Local
  <1>4. QED
    BY <1>2, <1>3 DEF NextDuelStart, fresh

\* The winning scene gives a phone again.
LEMMA WinSceneType ==
  ASSUME NEW g \in Local
  PROVE  WinScene(g) \in Local
  <1> DEFINE moneyExch == Tenth(g.opMoney)
  <1>1. moneyExch \in Int
    BY FieldTypes, TenthType
  <1>2. g.money + moneyExch \in Int /\ g.opMoney - moneyExch \in Int /\ g.won + 1 \in Nat
    BY <1>1, FieldTypes
  <1> HIDE DEF moneyExch
  <1>3. [g EXCEPT !.lastDuel = TRUE, !.money = @ + moneyExch, !.opMoney = @ - moneyExch,
                  !.amount = moneyExch, !.won = @ + 1] \in Local
    BY <1>1, <1>2 DEF Local
  <1>4. QED
    BY <1>3 DEF WinScene, moneyExch

\* The losing scene gives a phone again.
LEMMA LoseSceneType ==
  ASSUME NEW g \in Local
  PROVE  LoseScene(g) \in Local
  <1> DEFINE moneyExch == Tenth(g.money)
             paid == IF g.money > moneyExch THEN moneyExch ELSE g.money
  <1>1. moneyExch \in Int /\ paid \in Int
    BY FieldTypes, TenthType
  <1>2. g.money - paid \in Int /\ g.opMoney + moneyExch \in Int /\ -paid \in Int /\ g.lost + 1 \in Nat
    BY <1>1, FieldTypes
  <1> HIDE DEF moneyExch, paid
  <1>3. [g EXCEPT !.lastDuel = TRUE, !.money = @ - paid, !.opMoney = @ + moneyExch,
                  !.amount = -paid, !.lost = @ + 1] \in Local
    BY <1>2 DEF Local
  <1>4. QED
    BY <1>3 DEF LoseScene, moneyExch, paid

\* The scene after the last round gives a phone again.
LEMMA LastSceneType ==
  ASSUME NEW g \in Local
  PROVE  LastScene(g) \in Local
  <1> DEFINE waits == g.waiting /\ g.view # "final"
  <1>1. waits \in BOOLEAN /\ g.copies + 1 \in Nat
    BY FieldTypes
  <1> HIDE DEF waits
  <1>2. [g EXCEPT !.copies = @ + 1, !.waiting = waits] \in Local
    BY <1>1 DEF Local
  <1>3. QED
    BY <1>2 DEF LastScene, waits

\* A round added to a tally gives a tally.
LEMMA ScoreTypes ==
  ASSUME NEW s \in Tally
  PROVE  WinRound(s) \in Tally /\ LoseRound(s) \in Tally
  <1>1. s.win + 1 \in Nat /\ s.lose + 1 \in Nat /\ s.number + 1 \in Nat
    BY DEF Tally
  <1>2. QED
    BY <1>1 DEF Tally, WinRound, LoseRound

\* The result screen, before its scenes, is a state of a phone.
LEMMA ShownType ==
  ASSUME NEW g \in Local, NEW s \in Tally, NEW b \in Int
  PROVE  [g EXCEPT !.tally = s, !.hasFinal = TRUE, !.lastDuel = FALSE,
                   !.booked = b, !.copies = 0, !.amount = 10] \in Local
  <1> DEFINE t == [g EXCEPT !.tally = s, !.hasFinal = TRUE, !.lastDuel = FALSE]
  <1>1. t \in Local
    BY DEF Local
  <1> HIDE DEF t
  <1> DEFINE u == [t EXCEPT !.booked = b]
  <1>2. u \in Local
    BY <1>1 DEF Local
  <1> HIDE DEF u
  <1>3. [u EXCEPT !.copies = 0] \in Local
    BY <1>2 DEF Local
  <1>4. [u EXCEPT !.copies = 0, !.amount = 10] \in Local
    BY <1>3, 10 \in Int, ZenonT(60) DEF Local
  <1>5. QED
    BY <1>4 DEF t, u

\* The result screen with its scenes is a state of a phone.
LEMMA NewFinalType ==
  ASSUME NEW g \in Local, NEW r \in Result
  PROVE  NewFinal(g, r) \in Local
  <1> DEFINE tally == CASE r = "won"  -> WinRound(g.tally)
                        [] r = "lost" -> LoseRound(g.tally)
                        [] OTHER      -> g.tally
             top   == Goes(g, "final")
             shown == [Goes(g, "final") EXCEPT
                        !.tally = tally, !.hasFinal = TRUE, !.lastDuel = FALSE,
                        !.booked = @ + g.copies * g.amount, !.copies = 0, !.amount = 10]
             won   == IF tally.win = 2 THEN WinScene(shown) ELSE shown
             lost  == IF tally.lose = 2 THEN LoseScene(won) ELSE won
  <1>1. tally \in Tally
    BY FieldTypes, ScoreTypes DEF Result
  <1>2. top \in Local
    BY GoesType, ViewType
  <1>3. top.booked \in Int /\ g.copies \in Nat /\ g.amount \in Int
    BY <1>2, FieldTypes
  <1> DEFINE booked == top.booked + g.copies * g.amount
  <1>4. booked \in Int
    BY <1>3
  <1> HIDE DEF tally, top, booked
  <1>5. [top EXCEPT !.tally = tally, !.hasFinal = TRUE, !.lastDuel = FALSE,
                    !.booked = booked, !.copies = 0, !.amount = 10] \in Local
    BY <1>1, <1>2, <1>4, ShownType
  <1>6. shown \in Local
    BY <1>5 DEF booked, top
  <1> HIDE DEF shown
  <1>7. won \in Local
    BY <1>6, WinSceneType
  <1> HIDE DEF won
  <1>8. lost \in Local
    BY <1>7, LoseSceneType
  <1> HIDE DEF lost
  <1>9. (IF lost.lastDuel THEN LastScene(lost) ELSE lost) \in Local
    BY <1>8, LastSceneType
  <1>10. QED
    BY <1>9 DEF NewFinal, lost, won, shown, tally

\* A phone that has settled a round is a phone.
LEMMA SettledType ==
  ASSUME NEW g \in Local, NEW r \in Result
  PROVE  Settled(g, r) \in Local
  <1>1. NewFinal(g, r) \in Local
    BY NewFinalType
  <1>2. QED
    BY <1>1, ZenonT(60) DEF Local, Settled

\* What a phone sends is a packet.
LEMMA PacketTypes ==
  /\ \A id \in PacketID : Plain(id) \in Packet
  /\ \A id \in PacketID, g \in Local : Introduction(id, g) \in Packet
  /\ \A r \in Result : ShotTime(r) \in Packet
  <1>1. "none" \in Result /\ "SEND_SHOT_TIME" \in PacketID
    BY DEF Result, PacketID
  <1>2. \A id \in PacketID : Plain(id) \in Packet
    BY <1>1 DEF Plain, Packet
  <1>3. \A g \in Local : g.money \in Int /\ g.randomTime \in Nat
    BY FieldTypes
  <1>4. ASSUME NEW id \in PacketID, NEW g \in Local
        PROVE  Introduction(id, g) \in Packet
    <2>1. g.money \in Int /\ g.randomTime \in Nat /\ Plain(id) \in Packet
      BY <1>2, <1>3
    <2>2. QED
      BY <2>1 DEF Packet, Introduction
  <1>5. \A r \in Result : ShotTime(r) \in Packet
    BY <1>1, <1>2 DEF Packet, ShotTime
  <1>6. QED
    BY <1>2, <1>4, <1>5

\* There are two phones, each the other's other.
LEMMA PhoneFacts ==
  /\ \A p \in Phone : Other(p) \in Phone /\ Other(p) # p /\ Other(Other(p)) = p
  /\ Phone = {0, 1} /\ Other(0) = 1 /\ Other(1) = 0
  BY DEF Phone, Other

\* The opposite of a result is a result.
LEMMA OppositeType ==
  /\ \A r \in Result : Opposite(r) \in Result
  /\ \A r \in Result \ {"none"} : Opposite(r) \in Result \ {"none"}
  BY DEF Opposite, Result

Timed(g) == g.timer => g.view = "start"

\* No screen but the start screen has its timer running: what leaves it stops it.
LEMMA TimedScreens ==
  ASSUME NEW g \in Local, Timed(g)
  PROVE  /\ \A v \in View : Timed(Goes(g, v))
         /\ Timed(MatchStarted(g)) /\ Timed(Waiting(g)) /\ Timed(StartDuel(g))
         /\ Timed(LostConnection(g)) /\ Timed(Cancelled(g)) /\ Timed(NextDuelStart(g))
  <1>1. \A v \in View : Timed(Goes(g, v))
    BY DEF Local, Timed, Goes
  <1>2. Timed(MatchStarted(g)) /\ Timed(Waiting(g)) /\ Timed(StartDuel(g))
    BY DEF Local, Timed, MatchStarted, Waiting, StartDuel, Goes
  <1>3. Timed(LostConnection(g)) /\ Timed(Cancelled(g)) /\ Timed(NextDuelStart(g))
    BY DEF Local, Timed, LostConnection, Cancelled, NextDuelStart, Goes
  <1>4. QED
    BY <1>1, <1>2, <1>3

\* A press of Start on the start screen starts the timer of that screen.
LEMMA TimedStart ==
  ASSUME NEW g \in Local, Timed(g), g.view = "start"
  PROVE  Timed(StartClicked(g))
  <1> DEFINE t == [g EXCEPT !.stray = @ \/ g.timer, !.timer = TRUE]
  <1>1. Timed(t) /\ t \in Local
    <2> DEFINE stray == g.stray \/ g.timer
    <2>1. stray \in BOOLEAN
      OBVIOUS
    <2> HIDE DEF stray
    <2>2. [g EXCEPT !.stray = stray, !.timer = TRUE] \in Local
      BY <2>1 DEF Local
    <2>3. QED
      BY <2>2 DEF Local, Timed, stray
  <1>2. QED
    BY <1>1, TimedScreens DEF StartClicked

\* The scenes leave the timer alone.
LEMMA TimedScenes ==
  ASSUME NEW g \in Local, Timed(g)
  PROVE  Timed(WinScene(g)) /\ Timed(LoseScene(g)) /\ Timed(LastScene(g))
  BY DEF Local, Timed, WinScene, LoseScene, LastScene

\* The result screen has no timer.
LEMMA TimedFinal ==
  ASSUME NEW g \in Local, NEW r \in Result, Timed(g)
  PROVE  Timed(NewFinal(g, r)) /\ Timed(Settled(g, r))
  <1> DEFINE tally == CASE r = "won"  -> WinRound(g.tally)
                        [] r = "lost" -> LoseRound(g.tally)
                        [] OTHER      -> g.tally
             top   == Goes(g, "final")
             b     == top.booked + g.copies * g.amount
             shown == [top EXCEPT !.tally = tally, !.hasFinal = TRUE, !.lastDuel = FALSE,
                                  !.booked = b, !.copies = 0, !.amount = 10]
             won   == IF tally.win = 2 THEN WinScene(shown) ELSE shown
             lost  == IF tally.lose = 2 THEN LoseScene(won) ELSE won
             f     == IF lost.lastDuel THEN LastScene(lost) ELSE lost
  <1>1. f = NewFinal(g, r)
    BY DEF NewFinal
  <1>2. top \in Local /\ Timed(top)
    BY GoesType, ViewType, TimedScreens
  <1>3. top.booked \in Int /\ g.copies \in Nat /\ g.amount \in Int
    BY <1>2, FieldTypes
  <1> HIDE DEF top
  <1>4. b \in Int
    BY <1>3
  <1>5. tally \in Tally
    BY FieldTypes, ScoreTypes DEF Result
  <1> HIDE DEF tally, b
  <1>6. shown \in Local
    BY <1>2, <1>4, <1>5, ShownType
  <1>7. Timed(shown)
    BY <1>2 DEF Timed, Local
  <1> HIDE DEF shown
  <1>8. won \in Local /\ Timed(won)
    BY <1>6, <1>7, WinSceneType, TimedScenes
  <1> HIDE DEF won
  <1>9. lost \in Local /\ Timed(lost)
    BY <1>8, LoseSceneType, TimedScenes
  <1> HIDE DEF lost
  <1>10. f \in Local /\ Timed(f)
    BY <1>9, LastSceneType, TimedScenes
  <1> HIDE DEF f
  <1>11. Timed([f EXCEPT !.endDuel = TRUE, !.shot = TRUE, !.btnStartClick = FALSE])
    BY <1>10 DEF Timed, Local
  <1>12. QED
    BY <1>1, <1>10, <1>11 DEF Settled

(***************************************************************************)
(* The queues.                                                             *)
(***************************************************************************)
Queues == [Phone -> Seq(Packet)]

\* What delivering packets to a phone does to the queues.
LEMMA DeliverFacts ==
  ASSUME NEW queues \in Queues, NEW p \in Phone, NEW g, NEW ms \in Seq(Packet)
  PROVE  /\ Deliver(queues, p, g, ms) \in Queues
         /\ Deliver(queues, p, g, ms)[p] = (IF g.open THEN queues[p] ELSE << >>)
         /\ Deliver(queues, p, g, ms)[Other(p)] =
              (IF ph[p].open /\ ph[Other(p)].open THEN queues[Other(p)] \o ms ELSE queues[Other(p)])
  <1>1. Other(p) \in Phone /\ Other(p) # p
    BY PhoneFacts
  <1>2. queues[p] \in Seq(Packet) /\ queues[Other(p)] \in Seq(Packet) /\ << >> \in Seq(Packet)
    BY <1>1 DEF Queues
  <1>3. queues[Other(p)] \o ms \in Seq(Packet)
    BY <1>2
  <1>4. QED
    BY <1>1, <1>2, <1>3 DEF Deliver, Queues

\* A step of one phone changes that phone only.
LEMMA PhoneUpdate ==
  ASSUME NEW f \in [Phone -> Local], NEW p \in Phone, NEW g \in Local
  PROVE  /\ [f EXCEPT ![p] = g] \in [Phone -> Local]
         /\ [f EXCEPT ![p] = g][p] = g /\ [f EXCEPT ![p] = g][Other(p)] = f[Other(p)]
         /\ \A q \in Phone : q = p \/ q = Other(p)
  BY PhoneFacts

\* No clock of the round starts.
ClocksStop == clock' \in [Phone -> BOOLEAN] /\ \A x \in Phone : clock'[x] => clock[x]

\* A step of phone p keeps the types if its new state and its packets have them.
LEMMA ActsType ==
  ASSUME TypeOK, ClocksStop, NEW p \in Phone, NEW g \in Local, Timed(g), NEW ms \in Seq(Packet),
         Acts(p, g, ms), tries' \in 0 .. MaxTries, mishaps' \subseteq Mishap
  PROVE  TypeOK'
  <1>1. ph' \in [Phone -> Local] /\ ph'[p] = g /\ ph'[Other(p)] = ph[Other(p)] /\ \A q \in Phone :
        q = p \/ q = Other(p)
    BY PhoneUpdate DEF TypeOK, Acts
  <1>2. \A q \in Phone : ph'[q].timer => ph'[q].view = "start"
    BY <1>1, PhoneFacts DEF TypeOK, Timed
  <1>3. net' \in [Phone -> Seq(Packet)]
    BY DeliverFacts DEF TypeOK, Acts, Queues
  <1>4. QED
    BY <1>1, <1>2, <1>3 DEF TypeOK, ClocksStop

\* A handler that gives a phone and packets keeps the types.
LEMMA HandlesType ==
  ASSUME TypeOK, ClocksStop, NEW p \in Phone, NEW id, NEW g \in Local, Timed(g), NEW ms \in Seq(Packet),
         Handles(p, id, g, ms), tries' \in 0 .. MaxTries, mishaps' \subseteq Mishap
  PROVE  TypeOK'
  <1>0. ph' = [ph EXCEPT ![p] = g] /\ ph \in [Phone -> Local]
    BY DEF TypeOK, Handles
  <1>1. ph' \in [Phone -> Local] /\ ph'[p] = g /\ ph'[Other(p)] = ph[Other(p)] /\ \A q \in Phone :
        q = p \/ q = Other(p)
    BY <1>0, PhoneUpdate
  <1>2. \A q \in Phone : ph'[q].timer => ph'[q].view = "start"
    BY <1>1, PhoneFacts DEF TypeOK, Timed
  <1>3. net[p] \in Seq(Packet) /\ net[p] # << >>
    BY DEF TypeOK, Handles
  <1>4. Tail(net[p]) \in Seq(Packet)
    BY <1>3
  <1>5. [net EXCEPT ![p] = Tail(@)] \in Queues
    BY <1>4 DEF TypeOK, Queues
  <1>6. net' \in [Phone -> Seq(Packet)]
    BY <1>5, DeliverFacts DEF Handles, Queues
  <1>7. QED
    BY <1>1, <1>2, <1>6 DEF TypeOK, ClocksStop

\* The packet a handler takes is a packet, and what is left a queue.
LEMMA HeadType ==
  ASSUME TypeOK, NEW p \in Phone, net[p] # << >>
  PROVE  /\ Head(net[p]).money \in Int /\ Head(net[p]).randomTime \in Nat
         /\ Head(net[p]).result \in Result /\ Head(net[p]).id \in PacketID
  <1>1. Head(net[p]) \in Packet
    BY DEF TypeOK
  <1>2. QED
    BY <1>1 DEF Packet

\* A queue with packets added is a queue.
LEMMA SendTypes ==
  ASSUME NEW g
  PROVE  /\ StartDuelSends(g) \in Seq(Packet) /\ NextDuelStartSends(g) \in Seq(Packet)
         /\ << >> \in Seq(Packet)
         /\ \A id \in PacketID : << Plain(id) >> \in Seq(Packet)
         /\ \A id \in PacketID, h \in Local : << Introduction(id, h) >> \in Seq(Packet)
         /\ \A r \in Result : << ShotTime(r) >> \in Seq(Packet)
  <1>1. \A id \in PacketID : << Plain(id) >> \in Seq(Packet)
    BY PacketTypes
  <1>2. "START_DUEL" \in PacketID /\ "START_DUEL_TRUE" \in PacketID
    BY DEF PacketID
  <1>3. StartDuelSends(g) \in Seq(Packet) /\ NextDuelStartSends(g) \in Seq(Packet)
    BY <1>1, <1>2 DEF StartDuelSends, NextDuelStartSends
  <1>4. \A id \in PacketID, h \in Local : << Introduction(id, h) >> \in Seq(Packet)
    BY PacketTypes
  <1>5. \A r \in Result : << ShotTime(r) >> \in Seq(Packet)
    BY PacketTypes
  <1>6. QED
    BY <1>1, <1>3, <1>4, <1>5

\* The state of phone p itself.
LEMMA PhoneType ==
  ASSUME TypeOK, NEW p \in Phone
  PROVE  /\ ph[p] \in Local /\ ph[Other(p)] \in Local /\ Timed(ph[p])
         /\ net[p] \in Seq(Packet) /\ net[Other(p)] \in Seq(Packet)
  BY PhoneFacts DEF TypeOK, Timed

\* The timer of the start screen depends on two fields.
LEMMA TimedFields ==
  ASSUME NEW f \in Local, Timed(f)
  PROVE  /\ [f EXCEPT !.btnStartClick = FALSE] \in Local
         /\ Timed([f EXCEPT !.btnStartClick = FALSE])
         /\ [f EXCEPT !.timer = FALSE] \in Local /\ Timed([f EXCEPT !.timer = FALSE])
         /\ [f EXCEPT !.stray = FALSE] \in Local /\ Timed([f EXCEPT !.stray = FALSE])
         /\ [f EXCEPT !.shot = TRUE, !.btnStartClick = FALSE] \in Local
         /\ Timed([f EXCEPT !.shot = TRUE, !.btnStartClick = FALSE])
  <1>1. [f EXCEPT !.btnStartClick = FALSE] \in Local /\ [f EXCEPT !.timer = FALSE] \in Local
    BY ZenonT(60) DEF Local
  <1>2. [f EXCEPT !.stray = FALSE] \in Local
        /\ [f EXCEPT !.shot = TRUE, !.btnStartClick = FALSE] \in Local
    BY ZenonT(60) DEF Local
  <1>3. Timed([f EXCEPT !.btnStartClick = FALSE]) /\ Timed([f EXCEPT !.timer = FALSE])
    BY DEF Local, Timed
  <1>4. Timed([f EXCEPT !.stray = FALSE]) /\ Timed([f EXCEPT !.shot = TRUE, !.btnStartClick = FALSE])
    BY DEF Local, Timed
  <1>5. QED
    BY <1>1, <1>2, <1>3, <1>4

\* The kinds of a queue of one packet, and of none.
LEMMA KindsOfOne ==
  /\ Kinds(<< >>) = {}
  /\ \A m : Kinds(<< m >>) = {m.id}
  /\ \A id : Plain(id).id = id
  /\ \A id, g : Introduction(id, g).id = id
  /\ \A r : ShotTime(r).id = "SEND_SHOT_TIME"
  <1>1. Kinds(<< >>) = {} /\ \A m : Kinds(<< m >>) = {m.id}
    BY DEF Kinds
  <1>2. \A id : Plain(id).id = id
    BY DEF Plain
  <1>3. (\A id, g : Introduction(id, g).id = id) /\ \A r : ShotTime(r).id = "SEND_SHOT_TIME"
    BY DEF Plain, Introduction, ShotTime
  <1>4. QED
    BY <1>1, <1>2, <1>3

Early == {"TIME", "OPONTYPE_RESPONSE"}

\* In a sequence nothing early comes but first.
LEMMA EarlyTail ==
  ASSUME NEW s \in Seq(Packet), s # << >>, \A i \in DOMAIN s : s[i].id \in Early => i = 1
  PROVE  Kinds(Tail(s)) \intersect Early = {}
  <1>1. \A i \in DOMAIN Tail(s) : i + 1 \in DOMAIN s /\ Tail(s)[i] = s[i + 1] /\ i + 1 # 1
    OBVIOUS
  <1>2. \A i \in DOMAIN Tail(s) : Tail(s)[i].id \notin Early
    BY <1>1
  <1>3. QED
    BY <1>2 DEF Kinds

\* Where the packets of a concatenation come from.
LEMMA ConcatParts ==
  ASSUME NEW s \in Seq(Packet), NEW t \in Seq(Packet)
  PROVE  /\ \A i \in DOMAIN (s \o t) :
              /\ i \in Int
              /\ \/ i \in DOMAIN s /\ (s \o t)[i] = s[i]
                 \/ i - Len(s) \in DOMAIN t /\ (s \o t)[i] = t[i - Len(s)]
         /\ Kinds(s \o t) \subseteq Kinds(s) \union Kinds(t)
  <1> DEFINE c == s \o t
  <1>1. \A i \in DOMAIN c :
          /\ i \in Int
          /\ \/ i \in DOMAIN s /\ c[i] = s[i]
             \/ i - Len(s) \in DOMAIN t /\ c[i] = t[i - Len(s)]
    OBVIOUS
  <1> HIDE DEF c
  <1>2. \A k \in Kinds(c) : k \in Kinds(s) \/ k \in Kinds(t)
    BY <1>1 DEF Kinds
  <1>3. QED
    BY <1>1, <1>2 DEF c

\* Late packets added to a queue leave the early one first.
LEMMA EarlyConcat ==
  ASSUME NEW s \in Seq(Packet), NEW t \in Seq(Packet), Len(t) <= 1,
         \A i \in DOMAIN s : s[i].id \in Early => i = 1,
         Kinds(t) \intersect Early # {} => s = << >>
  PROVE  \A i \in DOMAIN (s \o t) : (s \o t)[i].id \in Early => i = 1
  <1> SUFFICES ASSUME NEW i \in DOMAIN (s \o t), (s \o t)[i].id \in Early
               PROVE  i = 1
    OBVIOUS
  <1>1. CASE i \in DOMAIN s /\ (s \o t)[i] = s[i]
    BY <1>1
  <1>2. CASE i - Len(s) \in DOMAIN t /\ (s \o t)[i] = t[i - Len(s)]
    <2>1. t[i - Len(s)].id \in Kinds(t)
      BY <1>2 DEF Kinds
    <2>2. Len(s) = 0
      BY <1>2, <2>1
    <2>3. QED
      BY <1>2, <2>2, ConcatParts
  <1>3. QED
    BY <1>1, <1>2, ConcatParts

\* A step of one phone that sends late packets keeps the opening of a match in order.
LEMMA OpeningStep ==
  ASSUME TypeOK, Opening, ClocksStop, NEW p \in Phone, NEW g, NEW q \in Seq(Packet), NEW ms \in Seq(Packet),
         ph' = [ph EXCEPT ![p] = g],
         net' = Deliver([net EXCEPT ![p] = q], p, g, ms),
         Len(ms) <= 1, "TIME" \notin Kinds(ms),
         "OPONTYPE_RESPONSE" \in Kinds(ms) => "TIME" \in Kinds(net[p]),
         g.open => ph[p].open,
         \/ q = net[p] /\ (g.open => Early \intersect Kinds(net[p]) = {})
         \/ net[p] # << >> /\ q = Tail(net[p]),
         g.open => "TIME" \notin Kinds(net[Other(p)])
  PROVE  Opening'
  <1> DEFINE o == Other(p)
             queues == [net EXCEPT ![p] = q]
  <1>1. o \in Phone /\ o # p /\ Other(o) = p /\ \A x \in Phone : x = p \/ x = o
    BY PhoneFacts
  <1>2. ph'[p] = g /\ ph'[o] = ph[o]
    BY <1>1 DEF TypeOK
  <1>3. queues \in Queues /\ queues[p] = q /\ queues[o] = net[o] /\ net' = Deliver(queues, p, g, ms)
    BY <1>1 DEF TypeOK, Queues
  <1> HIDE DEF queues
  <1>4. /\ net'[p] = (IF g.open THEN q ELSE << >>)
        /\ net'[o] = (IF ph[p].open /\ ph[o].open THEN net[o] \o ms ELSE net[o])
    BY <1>3, DeliverFacts
  <1>5. net[p] \in Seq(Packet) /\ net[o] \in Seq(Packet)
    BY <1>1 DEF TypeOK
  <1>6. /\ \A i \in DOMAIN net[p] : net[p][i].id \in Early => i = 1
        /\ \A i \in DOMAIN net[o] : net[o][i].id \in Early => i = 1
        /\ "TIME" \in Kinds(net[p]) => net[o] = << >> /\ (ph[o].open => ph[o].view = "start"
           /\ ~ph[o].mayStart)
        /\ "TIME" \in Kinds(net[o]) => ph[o].view = "list"
        /\ "OPONTYPE_RESPONSE" \in Kinds(net[o]) => ph[o].view = "start" /\ ~ph[o].mayStart
        /\ clock[p] => Kinds(net[p]) \intersect Early = {} /\ "TIME" \notin Kinds(net[o])
        /\ clock[o] => Kinds(net[o]) \intersect Early = {} /\ "TIME" \notin Kinds(net[p])
    BY <1>1 DEF Opening, Early
  <1>c. (clock'[p] => clock[p]) /\ (clock'[o] => clock[o])
    BY <1>1 DEF ClocksStop
  <1> HIDE DEF o
  <1>7. Kinds(net'[p]) \intersect Early = {} /\ (~g.open => net'[p] = << >>)
    <2>1. CASE ~g.open
      BY <2>1, <1>4, KindsOfOne
    <2>2. CASE g.open /\ q = net[p] /\ Early \intersect Kinds(net[p]) = {}
      BY <2>2, <1>4
    <2>3. CASE g.open /\ net[p] # << >> /\ q = Tail(net[p])
      BY <2>3, <1>4, <1>5, <1>6, EarlyTail
    <2>4. QED
      BY <2>1, <2>2, <2>3
  <1>8. \A i \in DOMAIN net'[p] : net'[p][i].id \notin Early
    BY <1>7 DEF Kinds
  <1>10. \A k \in Kinds(net'[o]) : k \in Kinds(net[o]) \/ (ph[o].open /\ k \in Kinds(ms))
    BY <1>4, <1>5, ConcatParts
  <1>11. \A i \in DOMAIN net'[o] : net'[o][i].id \in Early => i = 1
    <2>1. Kinds(ms) \intersect Early # {} => net[o] = << >>
      BY <1>6 DEF Early
    <2>2. QED
      BY <2>1, <1>4, <1>5, <1>6, EarlyConcat
  <1>12. "TIME" \in Kinds(net'[o]) => ph[o].view = "list" /\ ~g.open
    BY <1>6, <1>10 DEF o
  <1>13. "OPONTYPE_RESPONSE" \in Kinds(net'[o]) => ph[o].view = "start" /\ ~ph[o].mayStart
    BY <1>6, <1>10
  <1>14. clock'[p] => Kinds(net'[p]) \intersect Early = {} /\ "TIME" \notin Kinds(net'[o])
    BY <1>c, <1>6, <1>7, <1>10
  <1>15. clock'[o] => Kinds(net'[o]) \intersect Early = {} /\ "TIME" \notin Kinds(net'[p])
    <2>1. SUFFICES ASSUME clock[o] PROVE Kinds(net'[o]) \intersect Early = {}
      BY <1>c, <1>7 DEF Early
    <2>2. QED
      BY <2>1, <1>6, <1>10 DEF Early
  <1>16. ASSUME NEW x \in Phone
         PROVE  LET y == Other(x) IN
                /\ \A i \in DOMAIN net'[x] : net'[x][i].id \in Early => i = 1
                /\ "TIME" \in Kinds(net'[x]) =>
                     /\ ph'[x].view = "list" /\ net'[y] = << >>
                     /\ ph'[y].open => ph'[y].view = "start" /\ ~ph'[y].mayStart
                /\ "OPONTYPE_RESPONSE" \in Kinds(net'[x]) => ph'[x].view = "start" /\ ~ph'[x].mayStart
                /\ clock'[x] => Kinds(net'[x]) \intersect Early = {} /\ "TIME" \notin Kinds(net'[y])
    <2>1. CASE x = p
      BY <2>1, <1>1, <1>7, <1>8, <1>14 DEF o, Early
    <2>2. CASE x = o
      BY <2>2, <1>1, <1>2, <1>7, <1>11, <1>12, <1>13, <1>15
    <2>3. QED
      BY <2>1, <2>2, <1>1
  <1>17. QED
    BY <1>16 DEF Opening, Early

\* A handler that sends late packets keeps the types and the opening.
LEMMA Handled ==
  ASSUME TypeOK, Opening, ClocksStop, NEW p \in Phone, NEW id, NEW g \in Local, Timed(g), NEW ms \in Seq(Packet),
         Handles(p, id, g, ms), tries' \in 0 .. MaxTries, mishaps' \subseteq Mishap,
         Len(ms) <= 1, "TIME" \notin Kinds(ms), "OPONTYPE_RESPONSE" \in Kinds(ms) => id = "TIME"
  PROVE  TypeOK' /\ Opening'
  <1>1. TypeOK'
    BY HandlesType
  <1>2. /\ net[p] # << >> /\ Head(net[p]).id = id /\ ph[p].open /\ ph' = [ph EXCEPT ![p] = g]
        /\ net' = Deliver([net EXCEPT ![p] = Tail(net[p])], p, g, ms)
    BY DEF Handles, TypeOK
  <1>3. net[p] \in Seq(Packet)
    BY DEF TypeOK
  <1>4. 1 \in DOMAIN net[p] /\ net[p][1] = Head(net[p]) /\ Tail(net[p]) \in Seq(Packet)
    BY <1>2, <1>3
  <1>5. id \in Kinds(net[p])
    BY <1>2, <1>4 DEF Kinds
  <1>6. "TIME" \notin Kinds(net[Other(p)])
    BY <1>2, PhoneFacts DEF Opening
  <1>7. Opening'
    BY <1>2, <1>4, <1>5, <1>6, OpeningStep
  <1>8. QED
    BY <1>1, <1>7

\* A button or timer that sends late packets keeps the types and the opening.
LEMMA Acted ==
  ASSUME TypeOK, Opening, ClocksStop, NEW p \in Phone, NEW g \in Local, Timed(g), NEW ms \in Seq(Packet),
         Acts(p, g, ms), tries' \in 0 .. MaxTries, mishaps' \subseteq Mishap,
         Len(ms) <= 1, Kinds(ms) \intersect Early = {},
         g.open => ph[p].open /\ (ph[p].view \in {"duel", "final"} \/ (ph[p].view = "start"
         /\ ph[p].mayStart))
  PROVE  TypeOK' /\ Opening'
  <1>1. TypeOK'
    BY ActsType
  <1>2. /\ ph' = [ph EXCEPT ![p] = g] /\ net' = Deliver([net EXCEPT ![p] = net[p]], p, g, ms)
    BY DEF Acts, TypeOK
  <1>3. net[p] \in Seq(Packet)
    BY DEF TypeOK
  <1>4. g.open => "TIME" \notin Kinds(net[Other(p)])
    BY PhoneFacts DEF Opening
  <1>5. g.open => Early \intersect Kinds(net[p]) = {}
    BY DEF Opening, Early
  <1>6. "TIME" \notin Kinds(ms) /\ "OPONTYPE_RESPONSE" \notin Kinds(ms)
    BY DEF Early
  <1>7. Opening'
    BY <1>2, <1>3, <1>4, <1>5, <1>6, OpeningStep
  <1>8. QED
    BY <1>1, <1>7

\* No screen or button opens a connection.
LEMMA OpenKept ==
  ASSUME NEW g \in Local
  PROVE  /\ \A v \in View : Goes(g, v).open = g.open
         /\ MatchStarted(g).open = g.open /\ Waiting(g).open = g.open /\ StartDuel(g).open = g.open
         /\ StartClicked(g).open = g.open /\ NextDuelStart(g).open = g.open
         /\ ~LostConnection(g).open /\ ~Cancelled(g).open
         /\ LoseScene(g).open = g.open /\ LastScene(g).open = g.open /\ WinScene(g).open = g.open
  <1>1. \A v \in View : Goes(g, v).open = g.open
    BY DEF Local, Goes
  <1>2. MatchStarted(g).open = g.open /\ Waiting(g).open = g.open
    BY DEF Local, MatchStarted, Waiting
  <1>3. StartDuel(g).open = g.open
    BY DEF Local, StartDuel, Goes
  <1>4. StartClicked(g).open = g.open
    BY DEF Local, StartClicked, StartDuel, Goes
  <1>5. NextDuelStart(g).open = g.open
    BY DEF Local, NextDuelStart, Goes
  <1>6. ~LostConnection(g).open /\ ~Cancelled(g).open
    BY DEF Local, LostConnection, Cancelled, Goes
  <1>7. LoseScene(g).open = g.open /\ LastScene(g).open = g.open /\ WinScene(g).open = g.open
    BY DEF Local, LoseScene, LastScene, WinScene
  <1>8. QED
    BY <1>1, <1>2, <1>3, <1>4, <1>5, <1>6, <1>7

\* Settling a round keeps a phone open.
LEMMA OpenFinal ==
  ASSUME NEW g \in Local, NEW r \in Result
  PROVE  NewFinal(g, r).open = g.open /\ Settled(g, r).open = g.open
  <1> DEFINE tally == CASE r = "won"  -> WinRound(g.tally)
                        [] r = "lost" -> LoseRound(g.tally)
                        [] OTHER      -> g.tally
             top   == Goes(g, "final")
             b     == top.booked + g.copies * g.amount
             shown == [top EXCEPT !.tally = tally, !.hasFinal = TRUE, !.lastDuel = FALSE,
                                  !.booked = b, !.copies = 0, !.amount = 10]
             won   == IF tally.win = 2 THEN WinScene(shown) ELSE shown
             lost  == IF tally.lose = 2 THEN LoseScene(won) ELSE won
             f     == IF lost.lastDuel THEN LastScene(lost) ELSE lost
  <1>1. f = NewFinal(g, r)
    BY DEF NewFinal
  <1>2. top \in Local /\ top.open = g.open
    BY GoesType, ViewType, OpenKept
  <1>3. top.booked \in Int /\ g.copies \in Nat /\ g.amount \in Int
    BY <1>2, FieldTypes
  <1> HIDE DEF top
  <1>4. b \in Int
    BY <1>3
  <1>5. tally \in Tally
    BY FieldTypes, ScoreTypes DEF Result
  <1> HIDE DEF tally, b
  <1>6. shown \in Local
    BY <1>2, <1>4, <1>5, ShownType
  <1>7. shown.open = top.open
    BY <1>2 DEF Local
  <1> HIDE DEF shown
  <1>8. won \in Local /\ won.open = shown.open
    BY <1>6, WinSceneType, OpenKept
  <1> HIDE DEF won
  <1>9. lost \in Local /\ lost.open = won.open
    BY <1>8, LoseSceneType, OpenKept
  <1> HIDE DEF lost
  <1>10. f \in Local /\ f.open = lost.open
    BY <1>9, LastSceneType, OpenKept
  <1> HIDE DEF f
  <1>11. [f EXCEPT !.endDuel = TRUE, !.shot = TRUE, !.btnStartClick = FALSE].open = f.open
    BY <1>10 DEF Local
  <1>12. QED
    BY <1>1, <1>2, <1>7, <1>8, <1>9, <1>10, <1>11 DEF Settled

\* What a button sends is one packet at most, and no early one.
LEMMA SendsLate ==
  ASSUME NEW g
  PROVE  /\ Len(StartDuelSends(g)) <= 1 /\ Kinds(StartDuelSends(g)) \intersect Early = {}
         /\ Len(NextDuelStartSends(g)) <= 1 /\ Kinds(NextDuelStartSends(g)) \intersect Early = {}
         /\ Len(<< >>) <= 1 /\ Kinds(<< >>) \intersect Early = {}
         /\ \A m : Len(<< m >>) <= 1
         /\ \A id \in PacketID \ Early :
              /\ Kinds(<< Plain(id) >>) \intersect Early = {}
              /\ \A h \in Local : Kinds(<< Introduction(id, h) >>) \intersect Early = {}
         /\ \A r \in Result : Kinds(<< ShotTime(r) >>) \intersect Early = {}
  <1>1. Len(<< >>) <= 1 /\ (\A m : Len(<< m >>) <= 1) /\ Kinds(<< >>) \intersect Early = {}
    BY KindsOfOne
  <1>2. \A id \in PacketID \ Early :
                /\ Kinds(<< Plain(id) >>) \intersect Early = {}
                /\ \A h \in Local : Kinds(<< Introduction(id, h) >>) \intersect Early = {}
    BY KindsOfOne
  <1>3. \A r \in Result : Kinds(<< ShotTime(r) >>) \intersect Early = {}
    BY KindsOfOne DEF Early
  <1>4. "START_DUEL" \in PacketID \ Early /\ "START_DUEL_TRUE" \in PacketID \ Early
    BY DEF PacketID, Early
  <1>5. StartDuelSends(g) \in {<< >>, << Plain("START_DUEL") >>, << Plain("START_DUEL_TRUE") >>}
    BY DEF StartDuelSends
  <1>6. NextDuelStartSends(g) \in {<< Plain("START_DUEL") >>, << Plain("START_DUEL_TRUE") >>}
    BY DEF NextDuelStartSends
  <1>7. QED
    BY <1>1, <1>2, <1>3, <1>4, <1>5, <1>6

\* No button, packet or timer of the start screen starts the clock of a round.
LEMMA ClocksOnlyStop ==
  ASSUME TypeOK, NEW p \in Phone,
         \/ Player(p) \/ Receive(p) \/ WaitTimer(p) \/ LinkLost(p)
         \/ Hit(p) \/ FirstToSettle(p) \/ NobodyShot \/ LimitAlone(p)
  PROVE  ClocksStop
  <1> DEFINE c == [clock EXCEPT ![p] = FALSE]
             n == [x \in Phone |-> FALSE]
  <1>1. clock \in [Phone -> BOOLEAN]
    BY DEF TypeOK
  <1>2. \A d \in {clock, c, n} : d \in [Phone -> BOOLEAN] /\ \A x \in Phone : d[x] => clock[x]
    BY <1>1
  <1>3. Player(p) => clock' = clock
    BY DEF Player, StartButton, CancelButton, NextButton, RunAwayButton, BackButton, TryButton,
       DuelBackButton
  <1>4. WaitTimer(p) \/ LinkLost(p) => clock' = clock
    BY DEF WaitTimer, LinkLost
  <1>5. Receive(p) => clock' \in {clock, c}
    BY DEF Receive, ReceiveTime, ReceiveResponse, ReceiveStartDuel, ReceiveStartDuelTrue,
       ReceiveStartDuelFalse, ReceiveShotTime, ReceiveRunAway, ReceiveTimeTry, ReceiveResponseTry,
       ReceiveDuelCansel, Stop
  <1>6. Hit(p) \/ FirstToSettle(p) \/ LimitAlone(p) => clock' = c
    BY DEF Hit, FirstToSettle, LimitAlone, Stop
  <1>7. NobodyShot => clock' = n
    BY DEF NobodyShot
  <1>8. clock' \in {clock, c, n}
    BY <1>3, <1>4, <1>5, <1>6, <1>7
  <1> HIDE DEF c, n
  <1>9. QED
    BY <1>2, <1>8 DEF ClocksStop

\* The buttons keep the types and the opening.
LEMMA ButtonsKeep ==
  ASSUME TypeOK, Opening, NEW p \in Phone, Player(p)
  PROVE  TypeOK' /\ Opening'
  <1> DEFINE g == ph[p]
  <1> USE PhoneType, SendTypes, SendsLate
  <1>c. ClocksStop
    BY ClocksOnlyStop
  <1> USE <1>c
  <1>0. {"START_DUEL_FALSE", "RUN_AWAY", "DUEL_CANSEL", "TIME_TRY"} \subseteq PacketID \ Early
    BY DEF PacketID, Early
  <1>m. /\ mishaps \subseteq Mishap /\ tries \in 0 .. MaxTries
        /\ {"lateStart"} \subseteq Mishap /\ {"bothRanAway"} \subseteq Mishap
        /\ {"twoTries"} \subseteq Mishap /\ {"leftDuel"} \subseteq Mishap
    BY DEF TypeOK, Mishap
  <1>1. CASE StartButton(p)
    <2>1. StartClicked(g) \in Local /\ Timed(StartClicked(g))
      BY <1>1, StartClickedType, TimedStart DEF StartButton
    <2>2. Waiting(StartClicked(g)) \in Local /\ Timed(Waiting(StartClicked(g)))
      BY <2>1, WaitingType, TimedScreens
    <2>3. Acts(p, Waiting(StartClicked(g)), StartDuelSends(g)) /\ tries' = tries /\ mishaps' = mishaps
      BY <1>1 DEF StartButton
    <2>4. Waiting(StartClicked(g)).open = g.open /\ g.view = "start" /\ g.mayStart
      BY <1>1, <2>1, OpenKept DEF StartButton
    <2>5. QED
      BY <2>2, <2>3, <2>4, <1>m, Acted
  <1>2. CASE CancelButton(p)
    <2>1. Cancelled(g) \in Local /\ Timed(Cancelled(g))
      BY CancelledType, TimedScreens
    <2>2. Acts(p, Cancelled(g), << Plain("START_DUEL_FALSE") >>) /\ tries' = tries
          /\ mishaps' = mishaps
      BY <1>2 DEF CancelButton
    <2>3. QED
      BY <2>1, <2>2, <1>0, <1>m, OpenKept, Acted
  <1>3. CASE NextButton(p)
    <2>1. NextDuelStart(g) \in Local /\ Timed(NextDuelStart(g))
      BY NextDuelStartType, TimedScreens
    <2>2. /\ Acts(p, NextDuelStart(g), NextDuelStartSends(g)) /\ tries' = tries
          /\ mishaps' = mishaps \union (IF UnderWay("RUN_AWAY", p) THEN {"lateStart"} ELSE {})
      BY <1>3 DEF NextButton
    <2>3. mishaps' \subseteq Mishap
      BY <2>2, <1>m
    <2>4. NextDuelStart(g).open = g.open /\ g.view = "final"
      BY <1>3, OpenKept DEF NextButton
    <2>5. QED
      BY <2>1, <2>2, <2>3, <2>4, <1>m, Acted
  <1>4. CASE RunAwayButton(p)
    <2> DEFINE l == LastScene(LoseScene(g))
               f == [l EXCEPT !.shot = FALSE, !.tally = NoRounds]
    <2>1. l \in Local /\ Timed(l) /\ l.open = g.open
      BY LoseSceneType, LastSceneType, TimedScenes, OpenKept
    <2>2. /\ Acts(p, f, << Plain("RUN_AWAY") >>) /\ tries' = tries
          /\ mishaps' = mishaps \union (IF UnderWay("RUN_AWAY", p) THEN {"bothRanAway"} ELSE {})
      BY <1>4 DEF RunAwayButton
    <2> HIDE DEF l
    <2>3. f \in Local /\ Timed(f) /\ f.open = g.open
      <3>1. f \in Local
        BY <2>1, NoRoundsType, ZenonT(60) DEF Local
      <3>2. f.open = l.open /\ f.timer = l.timer /\ f.view = l.view
        BY <2>1 DEF Local
      <3>3. QED
        BY <2>1, <3>1, <3>2 DEF Timed
    <2>4. mishaps' \subseteq Mishap /\ g.view = "final"
      BY <1>4, <2>2, <1>m DEF RunAwayButton
    <2> HIDE DEF f
    <2>5. QED
      BY <2>2, <2>3, <2>4, <1>0, <1>m, Acted
  <1>5. CASE BackButton(p)
    <2> DEFINE t == Goes(g, "list")
               b == IF t.money < 0 THEN 0 ELSE t.money
               f == [t EXCEPT !.userEndMatch = TRUE, !.money = b]
    <2>1. t \in Local /\ Timed(t) /\ t.open = g.open
      BY GoesType, ViewType, TimedScreens, OpenKept
    <2>2. /\ Acts(p, IF f.opponentEndMatch THEN LostConnection(f) ELSE f, << Plain("DUEL_CANSEL") >>)
          /\ tries' = tries /\ mishaps' = mishaps
      BY <1>5 DEF BackButton
    <2>3. b \in Int
      BY <2>1, FieldTypes
    <2> HIDE DEF t, b
    <2>4. f \in Local /\ Timed(f) /\ f.open = g.open
      BY <2>1, <2>3, ZenonT(60) DEF Local, Timed
    <2> HIDE DEF f
    <2>5. LostConnection(f) \in Local /\ Timed(LostConnection(f)) /\ ~LostConnection(f).open
      BY <2>4, LostConnectionType, TimedScreens, OpenKept
    <2>6. g.view = "final"
      BY <1>5 DEF BackButton
    <2>7. QED
      BY <2>2, <2>4, <2>5, <2>6, <1>0, <1>m, Acted
  <1>6. CASE TryButton(p)
    <2>1. PICK t \in RandomTimes : TryButton(p)!(t)
      BY <1>6 DEF TryButton
    <2> DEFINE s == MatchStarted(g)
               f == [s EXCEPT !.randomTime = t, !.waiting = TRUE, !.won = 0, !.lost = 0,
                              !.tried = TRUE]
    <2>2. /\ tries < MaxTries /\ tries' = tries + 1
          /\ Acts(p, f, << Introduction("TIME_TRY", f) >>)
          /\ mishaps' = mishaps \union (IF UnderWay("START_DUEL", p) THEN {"lateStart"} ELSE {})
                          \union (IF ph[p].tried THEN {"twoTries"} ELSE {})
      BY <2>1
    <2>3. s \in Local /\ Timed(s) /\ t \in Nat /\ s.open = g.open
      BY MatchStartedType, TimedScreens, SessionAssumption, OpenKept
    <2> HIDE DEF s
    <2>4. [s EXCEPT !.randomTime = t, !.waiting = TRUE] \in Local
      BY <2>3, ZenonT(60) DEF Local
    <2>5. f \in Local
      <3> DEFINE u == [s EXCEPT !.randomTime = t, !.waiting = TRUE]
      <3> HIDE DEF u
      <3>1. [u EXCEPT !.won = 0, !.lost = 0, !.tried = TRUE] \in Local
        BY <2>4, ZenonT(60) DEF Local, u
      <3>2. QED
        BY <3>1 DEF u
    <2>6. Timed(f) /\ f.open = g.open
      BY <2>3 DEF Local, Timed
    <2>7. tries' \in 0 .. MaxTries
      BY <2>2, <1>m, SessionAssumption
    <2>8. mishaps' \subseteq Mishap /\ g.view = "final"
      BY <2>1, <2>2, <1>m
    <2> HIDE DEF f
    <2>9. QED
      BY <2>2, <2>5, <2>6, <2>7, <2>8, <1>0, Acted
  <1>7. CASE DuelBackButton(p)
    <2>1. LostConnection(g) \in Local /\ Timed(LostConnection(g)) /\ ~LostConnection(g).open
      BY LostConnectionType, TimedScreens, OpenKept
    <2>2. /\ Acts(p, LostConnection(g), << >>) /\ tries' = tries
          /\ mishaps' = mishaps \union {"leftDuel"}
      BY <1>7 DEF DuelBackButton
    <2>3. mishaps' \subseteq Mishap
      BY <2>2, <1>m
    <2>4. QED
      BY <2>1, <2>2, <2>3, <1>m, Acted
  <1>8. QED
    BY <1>1, <1>2, <1>3, <1>4, <1>5, <1>6, <1>7 DEF Player

\* The timer of the start screen and a lost link keep the types and the opening.
LEMMA TimersKeep ==
  ASSUME TypeOK, Opening, NEW p \in Phone, WaitTimer(p) \/ LinkLost(p)
  PROVE  TypeOK' /\ Opening'
  <1> DEFINE c == Cancelled(ph[p])
             l == LostConnection(ph[p])
  <1> USE PhoneType, SendTypes, SendsLate
  <1>c. ClocksStop
    BY ClocksOnlyStop
  <1> USE <1>c
  <1>1. mishaps' \subseteq Mishap /\ tries' \in 0 .. MaxTries
    BY DEF TypeOK, WaitTimer, LinkLost
  <1>2. c \in Local /\ Timed(c) /\ ~c.open /\ l \in Local /\ Timed(l) /\ ~l.open
    BY CancelledType, LostConnectionType, TimedScreens, OpenKept
  <1> HIDE DEF c, l
  <1>3. \A d \in {[c EXCEPT !.timer = FALSE], [c EXCEPT !.stray = FALSE]} : d \in Local
        /\ Timed(d) /\ ~d.open
    <2>1. ~[c EXCEPT !.timer = FALSE].open /\ ~[c EXCEPT !.stray = FALSE].open
      BY <1>2 DEF Local
    <2>2. QED
      BY <1>2, <2>1, TimedFields
  <1>4. \/ Acts(p, [c EXCEPT !.timer = FALSE], << Plain("START_DUEL_FALSE") >>)
        \/ Acts(p, [c EXCEPT !.stray = FALSE], << Plain("START_DUEL_FALSE") >>)
        \/ Acts(p, l, << >>)
    BY DEF WaitTimer, LinkLost, c, l
  <1>5. "START_DUEL_FALSE" \in PacketID \ Early
    BY DEF PacketID, Early
  <1>6. QED
    BY <1>1, <1>2, <1>3, <1>4, <1>5, Acted

\* A round and its end keep the types and the opening.
LEMMA RoundKeeps ==
  ASSUME TypeOK, Opening, NEW p \in Phone, Round(p)
  PROVE  TypeOK' /\ Opening'
  <1> USE PhoneType, SendTypes, SendsLate, OppositeType
  <1>m. mishaps \subseteq Mishap /\ tries \in 0 .. MaxTries /\ {"limitAlone"} \subseteq Mishap
    BY DEF TypeOK, Mishap
  <1>e. "even" \in Result /\ "lost" \in Result
    BY DEF Result
  <1>f. \A q \in Phone, r \in Result : Settled(ph[q], r) \in Local /\ Timed(Settled(ph[q], r))
    BY SettledType, TimedFinal
  <1>n. ASSUME NEW q \in Phone, NEW r \in Result
        PROVE  /\ [NewFinal(ph[q], r) EXCEPT !.btnStartClick = FALSE] \in Local
               /\ Timed([NewFinal(ph[q], r) EXCEPT !.btnStartClick = FALSE])
    <2> DEFINE n == NewFinal(ph[q], r)
    <2>1. n \in Local /\ Timed(n)
      BY NewFinalType, TimedFinal
    <2> HIDE DEF n
    <2>2. [n EXCEPT !.btnStartClick = FALSE] \in Local /\ Timed([n EXCEPT !.btnStartClick = FALSE])
      BY <2>1, TimedFields
    <2>3. QED
      BY <2>2 DEF n
  <1>d. ASSUME net' = net, NEW f \in Local, ph' = [ph EXCEPT ![p] = f], f.open = ph[p].open,
               clock[p] \/ (ph[p].view = "duel" /\ ph[p].open),
               \A x \in Phone : clock'[x] => clock[x] \/ x = p
        PROVE  Opening'
    <2> DEFINE o == Other(p)
    <2>1. o \in Phone /\ o # p /\ Other(o) = p /\ \A q \in Phone : q = p \/ q = o
      BY PhoneFacts
    <2>2. /\ "TIME" \notin Kinds(net[p]) /\ "OPONTYPE_RESPONSE" \notin Kinds(net[p])
          /\ "TIME" \notin Kinds(net[o])
      BY <1>d, <2>1 DEF Opening
    <2>3. /\ \A i \in DOMAIN net[p] : net[p][i].id \in {"TIME", "OPONTYPE_RESPONSE"} => i = 1
          /\ \A i \in DOMAIN net[o] : net[o][i].id \in {"TIME", "OPONTYPE_RESPONSE"} => i = 1
          /\ "OPONTYPE_RESPONSE" \in Kinds(net[o]) => ph[o].view = "start" /\ ~ph[o].mayStart
          /\ clock[o] => Kinds(net[o]) \intersect {"TIME", "OPONTYPE_RESPONSE"} = {}
      BY <2>1 DEF Opening
    <2>4. ph'[o] = ph[o] /\ (clock'[o] => clock[o])
      BY <1>d, <2>1 DEF TypeOK
    <2> HIDE DEF o
    <2>5. Opening!(p)' /\ Opening!(o)'
      BY <1>d, <2>1, <2>2, <2>3, <2>4 DEF o
    <2>6. QED
      BY <2>1, <2>5 DEF Opening
  <1>1. CASE FirstToSettle(p)
    <2>1. PICK r \in Result \ {"none"} : Acts(p, Settled(ph[p], r), << ShotTime(Opposite(r)) >>)
      BY <1>1 DEF FirstToSettle
    <2>2. tries' = tries /\ mishaps' = mishaps
      BY <1>1 DEF FirstToSettle
    <2>c. ClocksStop
      BY <1>1, ClocksOnlyStop
    <2>3. Settled(ph[p], r).open = ph[p].open /\ ph[p].view = "duel" /\ Opposite(r) \in Result
      BY <1>1, OpenFinal DEF FirstToSettle, Playing
    <2> DEFINE f == Settled(ph[p], r)
               ms == << ShotTime(Opposite(r)) >>
    <2>4. f \in Local /\ Timed(f) /\ f.open = ph[p].open
      BY <1>f, <2>3
    <2>5. ms \in Seq(Packet) /\ Len(ms) <= 1 /\ Kinds(ms) \intersect Early = {}
      BY <2>3
    <2>6. Acts(p, f, ms) /\ tries' \in 0 .. MaxTries /\ mishaps' \subseteq Mishap
      BY <2>1, <2>2, <1>m
    <2> HIDE DEF f, ms
    <2>7. QED
      BY <2>3, <2>c, <2>4, <2>5, <2>6, Acted
  <1>2. CASE Hit(p)
    <2> DEFINE f == [ph[p] EXCEPT !.shot = TRUE, !.btnStartClick = FALSE]
    <2>1. f \in Local /\ Timed(f)
      BY TimedFields
    <2>o. f.open = ph[p].open
      BY DEF Local
    <2>2. /\ ph' = [ph EXCEPT ![p] = f] /\ net' = net /\ tries' = tries /\ mishaps' = mishaps
          /\ ClocksStop /\ clock[p]
      BY <1>2, ClocksOnlyStop DEF Hit, TypeOK
    <2> HIDE DEF f
    <2>3. ph' \in [Phone -> Local] /\ \A q \in Phone : ph'[q].timer => ph'[q].view = "start"
      BY <2>1, <2>2, PhoneUpdate DEF TypeOK, Timed
    <2>4. TypeOK'
      BY <2>2, <2>3 DEF TypeOK, ClocksStop
    <2>5. QED
      BY <2>1, <2>o, <2>2, <2>4, <1>d DEF ClocksStop
  <1>3. CASE NobodyShot
    <2>0. \A q \in Phone : ph'[q] = [NewFinal(ph[q], "even") EXCEPT !.btnStartClick = FALSE]
      BY <1>3 DEF NobodyShot
    <2>1. ASSUME NEW q \in Phone
          PROVE  ph'[q] \in Local /\ Timed(ph'[q])
      <3> DEFINE f == [NewFinal(ph[q], "even") EXCEPT !.btnStartClick = FALSE]
      <3>1. f \in Local /\ Timed(f)
        BY <1>n, <1>e
      <3>2. ph'[q] = f
        BY <2>0
      <3> HIDE DEF f
      <3>3. QED
        BY <3>1, <3>2
    <2>2. ph' = [q \in Phone |-> ph'[q]]
      BY <1>3 DEF NobodyShot
    <2>3. ph' \in [Phone -> Local]
      BY <2>1, <2>2
    <2>4. net' = net /\ tries' = tries /\ mishaps' = mishaps /\ ClocksStop
      BY <1>3, ClocksOnlyStop DEF NobodyShot
    <2>5. TypeOK'
      BY <2>1, <2>3, <2>4 DEF TypeOK, Timed, ClocksStop
    <2>6. \A q \in Phone : Kinds(net'[q]) = {} /\ net'[q] = << >>
      BY <1>3, <2>4, KindsOfOne DEF NobodyShot
    <2>7. Opening'
      BY <2>6, PhoneFacts DEF Opening
    <2>8. QED
      BY <2>5, <2>7
  <1>4. CASE LimitAlone(p)
    <2>1. PICK r \in {"even", "lost"} :
            ph' = [ph EXCEPT ![p] = [NewFinal(ph[p], r) EXCEPT !.btnStartClick = FALSE]]
      BY <1>4 DEF LimitAlone, TypeOK
    <2> DEFINE n == NewFinal(ph[p], r)
               f == [n EXCEPT !.btnStartClick = FALSE]
    <2>2. f \in Local /\ Timed(f) /\ n \in Local /\ n.open = ph[p].open
      BY <1>n, <1>e, NewFinalType, OpenFinal
    <2>3. ph' = [ph EXCEPT ![p] = f]
      BY <2>1
    <2> HIDE DEF n
    <2>4. f.open = ph[p].open
      BY <2>2 DEF Local
    <2> HIDE DEF f
    <2>5. ph' \in [Phone -> Local] /\ \A q \in Phone : ph'[q].timer => ph'[q].view = "start"
      BY <2>2, <2>3, PhoneUpdate DEF TypeOK, Timed
    <2>6. /\ net' = net /\ tries' = tries /\ mishaps' = mishaps \union {"limitAlone"}
          /\ clock[p] /\ ClocksStop
      BY <1>4, ClocksOnlyStop DEF LimitAlone
    <2>7. TypeOK'
      BY <2>5, <2>6, <1>m DEF TypeOK, ClocksStop
    <2>8. QED
      BY <2>2, <2>3, <2>4, <2>6, <2>7, <1>d DEF ClocksStop
  <1>5. CASE ClockStarts(p)
    <2>1. /\ ph' = [ph EXCEPT ![p] = ph[p]] /\ ph' = ph /\ net' = net /\ tries' = tries
          /\ mishaps' = mishaps /\ clock' = [clock EXCEPT ![p] = TRUE]
          /\ ph[p].view = "duel" /\ ph[p].open
      BY <1>5 DEF ClockStarts, Playing, TypeOK
    <2>2. clock' \in [Phone -> BOOLEAN] /\ \A x \in Phone : clock'[x] => clock[x] \/ x = p
      BY <2>1 DEF TypeOK
    <2>3. TypeOK'
      BY <2>1, <2>2 DEF TypeOK
    <2>4. QED
      BY <2>1, <2>2, <2>3, <1>d
  <1>6. QED
    BY <1>1, <1>2, <1>3, <1>4, <1>5 DEF Round

\* Handlers that change a flag give a phone again.
LEMMA PlainTypes ==
  ASSUME NEW g \in Local, Timed(g)
  PROVE  /\ [g EXCEPT !.opponentEndMatch = TRUE] \in Local
         /\ Timed([g EXCEPT !.opponentEndMatch = TRUE])
         /\ [g EXCEPT !.shot = FALSE] \in Local /\ Timed([g EXCEPT !.shot = FALSE])
  <1>1. [g EXCEPT !.opponentEndMatch = TRUE] \in Local /\ Timed([g EXCEPT !.opponentEndMatch = TRUE])
    BY DEF Local, Timed
  <1>2. [g EXCEPT !.shot = FALSE] \in Local /\ Timed([g EXCEPT !.shot = FALSE])
    BY DEF Local, Timed
  <1>3. QED
    BY <1>1, <1>2

\* Answering TIME_TRY gives a phone again.
LEMMA AnsweredType ==
  ASSUME NEW g \in Local, Timed(g), NEW m \in Int
  PROVE  LET f == [g EXCEPT !.endDuel = FALSE, !.server = TRUE, !.opMoney = m]
         IN f \in Local /\ Timed(f) /\ f.view = g.view
  <1> DEFINE f == [g EXCEPT !.endDuel = FALSE, !.server = TRUE, !.opMoney = m]
  <1>1. f \in Local
    BY DEF Local
  <1>2. f.view = g.view /\ f.timer = g.timer
    BY DEF Local
  <1>3. QED
    BY <1>1, <1>2 DEF Timed

\* What a phone that receives TIME_TRY or OPONTYPE_RESPONSE_TRY becomes.
LEMMA AskedType ==
  ASSUME NEW g \in Local, Timed(g), NEW m \in Int, NEW t \in Nat
  PROVE  Asked(g, m, t) \in Local /\ Timed(Asked(g, m, t))
  <1> DEFINE a == Goes(g, "start")
             x == a.serverType \/ g.view = "list"
             y == a.mayStart \/ g.view # "start"
             z == g.waiting /\ g.view = "start"
             b == [a EXCEPT !.tally = NoRounds, !.shot = FALSE, !.endDuel = FALSE,
                            !.btnStartClick = FALSE]
             c == [b EXCEPT !.server = FALSE, !.opMoney = m, !.randomTime = t]
             d == [c EXCEPT !.serverType = x, !.mayStart = y, !.waiting = z]
             f == [d EXCEPT !.won = 0, !.lost = 0]
  <1>1. a \in Local /\ a.view = "start"
    <2>1. a \in Local
      BY GoesType, ViewType
    <2>2. a.view = "start"
      BY DEF Local, Goes
    <2>3. QED
      BY <2>1, <2>2
  <1>2. x \in BOOLEAN /\ y \in BOOLEAN /\ z \in BOOLEAN
    OBVIOUS
  <1>3. f = Asked(g, m, t)
    BY DEF Asked
  <1> HIDE DEF a, x, y, z
  <1>4. b \in Local /\ b.view = a.view
    BY <1>1, NoRoundsType, ZenonT(60) DEF Local
  <1> HIDE DEF b
  <1>5. c \in Local /\ c.view = b.view
    BY <1>4, ZenonT(60) DEF Local
  <1> HIDE DEF c
  <1>6. d \in Local /\ d.view = c.view
    <2> DEFINE e == [c EXCEPT !.serverType = x, !.mayStart = y]
    <2>1. e \in Local /\ e.view = c.view
      BY <1>2, <1>5, ZenonT(60) DEF Local
    <2>2. d = [e EXCEPT !.waiting = z]
      OBVIOUS
    <2> HIDE DEF e, d
    <2>3. QED
      BY <1>2, <2>1, <2>2 DEF Local
  <1> HIDE DEF d
  <1>7. f \in Local /\ f.view = d.view
    BY <1>6 DEF Local
  <1> HIDE DEF f
  <1>8. f \in Local /\ Timed(f)
    BY <1>1, <1>4, <1>5, <1>6, <1>7 DEF Timed
  <1>9. QED
    BY <1>3, <1>8

\* Agreeing to another duel gives a phone again.
LEMMA AgreedType ==
  ASSUME NEW g \in Local, Timed(g), NEW m \in Int, NEW covered \in BOOLEAN
  PROVE  Agreed(g, m, covered) \in Local /\ Timed(Agreed(g, m, covered))
  <1> DEFINE a == Goes(g, "start")
             y == a.mayStart /\ g.view = "start"
             b == [a EXCEPT !.endDuel = FALSE, !.server = TRUE, !.opMoney = m]
             s == [b EXCEPT !.mayStart = y, !.tried = FALSE]
             w == Waiting(StartClicked(s))
             z == w.waiting /\ covered
             f == [w EXCEPT !.waiting = z]
  <1>1. a \in Local /\ a.view = "start"
    <2>1. a \in Local
      BY GoesType, ViewType
    <2>2. a.view = "start"
      BY DEF Local, Goes
    <2>3. QED
      BY <2>1, <2>2
  <1>a. Timed(a)
    BY ViewType, TimedScreens
  <1>2. y \in BOOLEAN /\ z \in BOOLEAN
    OBVIOUS
  <1>3. s = Ready(g, m)
    BY DEF Ready
  <1> HIDE DEF a, y
  <1>4. b \in Local /\ b.view = a.view /\ Timed(b)
    BY <1>1, <1>a, ZenonT(60) DEF Local, Timed
  <1> HIDE DEF b
  <1>5. s \in Local /\ s.view = b.view /\ Timed(s)
    <2>1. s \in Local
      BY <1>2, <1>4, ZenonT(60) DEF Local
    <2>2. s.view = b.view /\ s.timer = b.timer
      BY <1>4 DEF Local
    <2>3. QED
      BY <1>4, <2>1, <2>2 DEF Timed
  <1> HIDE DEF s
  <1>6. StartClicked(s) \in Local /\ Timed(StartClicked(s))
    BY <1>1, <1>4, <1>5, StartClickedType, TimedStart
  <1>7. w \in Local /\ Timed(w)
    BY <1>6, WaitingType, TimedScreens
  <1> HIDE DEF w, z
  <1>8. f \in Local /\ Timed(f)
    BY <1>2, <1>7 DEF Local, Timed
  <1>9. QED
    BY <1>3, <1>8 DEF w, z, Agreed

\* The handlers of the packets keep the types and the opening.
LEMMA ReceivesKeep ==
  ASSUME TypeOK, Opening, NEW p \in Phone, Receive(p)
  PROVE  TypeOK' /\ Opening'
  <1> DEFINE g == ph[p]
             m == Head(net[p])
  <1> USE PhoneType, SendTypes, SendsLate
  <1>c. ClocksStop
    BY ClocksOnlyStop
  <1> USE <1>c
  <1>k. /\ {"START_DUEL_TRUE", "OPONTYPE_RESPONSE_TRY"} \subseteq PacketID \ Early
        /\ "OPONTYPE_RESPONSE" \in PacketID
    BY DEF PacketID, Early
  <1>m. /\ mishaps \subseteq Mishap /\ tries \in 0 .. MaxTries
        /\ {"twoTries"} \subseteq Mishap /\ {"calledBack"} \subseteq Mishap
    BY DEF TypeOK, Mishap
  <1>t. net[p] # << >> => m.money \in Int /\ m.randomTime \in Nat /\ m.result \in Result
    BY HeadType
  <1>1. CASE ReceiveTime(p)
    <2> DEFINE s == Goes(MatchStarted(g), "start")
               b == [s EXCEPT !.server = FALSE, !.opMoney = m.money, !.randomTime = m.randomTime]
               f == [b EXCEPT !.serverType = TRUE, !.mayStart = TRUE]
    <2>1. /\ Handles(p, "TIME", f, << Introduction("OPONTYPE_RESPONSE", f) >>) /\ net[p] # << >>
          /\ tries' = tries /\ mishaps' = mishaps
      BY <1>1 DEF ReceiveTime, Handles
    <2>2. s \in Local /\ Timed(s)
      BY MatchStartedType, GoesType, ViewType, TimedScreens
    <2> HIDE DEF s
    <2>3. m.money \in Int /\ m.randomTime \in Nat
      BY <2>1, <1>t
    <2> HIDE DEF m
    <2>4. b \in Local /\ Timed(b)
      <3>1. b \in Local
        BY <2>2, <2>3, ZenonT(60) DEF Local
      <3>2. b.view = s.view /\ b.timer = s.timer
        BY <2>2 DEF Local
      <3>3. QED
        BY <2>2, <3>1, <3>2 DEF Timed
    <2> HIDE DEF b
    <2>5. f \in Local /\ Timed(f)
      <3>1. f \in Local
        BY <2>4, ZenonT(60) DEF Local
      <3>2. f.view = b.view /\ f.timer = b.timer
        BY <2>4 DEF Local
      <3>3. QED
        BY <2>4, <3>1, <3>2 DEF Timed
    <2> HIDE DEF f
    <2>6. "TIME" \notin Kinds(<< Introduction("OPONTYPE_RESPONSE", f) >>)
      BY KindsOfOne
    <2>7. << Introduction("OPONTYPE_RESPONSE", f) >> \in Seq(Packet)
      BY <2>5, <1>k
    <2>8. QED
      BY <2>1, <2>5, <2>6, <2>7, <1>m, Handled
  <1>2. CASE ReceiveResponse(p)
    <2> DEFINE s == [g EXCEPT !.endDuel = FALSE, !.server = TRUE, !.opMoney = m.money]
               f == Waiting(StartClicked(s))
    <2>1. /\ Handles(p, "OPONTYPE_RESPONSE", f, StartDuelSends(s)) /\ net[p] # << >>
          /\ m.id = "OPONTYPE_RESPONSE"
          /\ tries' = tries /\ mishaps' = mishaps
      BY <1>2 DEF ReceiveResponse, Handles
    <2>2. m.money \in Int
      BY <2>1, <1>t
    <2>3. g.view = "start"
      <3>1. 1 \in DOMAIN net[p] /\ net[p][1].id = "OPONTYPE_RESPONSE"
        BY <2>1
      <3>2. QED
        BY <3>1 DEF Opening, Kinds
    <2> HIDE DEF m
    <2>4. s \in Local /\ Timed(s) /\ s.view = "start"
      BY <2>2, <2>3, AnsweredType
    <2> HIDE DEF s
    <2>5. f \in Local /\ Timed(f)
      BY <2>4, StartClickedType, TimedStart, WaitingType, TimedScreens
    <2> HIDE DEF f
    <2>6. QED
      BY <2>1, <2>5, <1>m, Handled DEF Early
  <1>3. CASE ReceiveStartDuel(p)
    <2> DEFINE s == [g EXCEPT !.shot = FALSE]
               f == Goes(s, "duel")
               b == [s EXCEPT !.btnStartClick = TRUE]
    <2>1. /\ \/ Handles(p, "START_DUEL", f, << Plain("START_DUEL_TRUE") >>)
             \/ Handles(p, "START_DUEL", b, << >>)
          /\ tries' = tries /\ mishaps' = mishaps
      BY <1>3 DEF ReceiveStartDuel
    <2>2. s \in Local /\ Timed(s)
      BY PlainTypes
    <2> HIDE DEF s
    <2>3. f \in Local /\ Timed(f)
      BY <2>2, GoesType, ViewType, TimedScreens
    <2>4. b \in Local /\ Timed(b)
      BY <2>2, ZenonT(60) DEF Local, Timed
    <2> HIDE DEF f, b
    <2>5. QED
      BY <2>1, <2>3, <2>4, <1>m, <1>k, Handled DEF Early
  <1>4. CASE ReceiveStartDuelTrue(p)
    <2> DEFINE f == IF g.view = "duel" THEN g ELSE Goes(g, "duel")
    <2>1. Handles(p, "START_DUEL_TRUE", f, << >>) /\ tries' = tries /\ mishaps' = mishaps
      BY <1>4 DEF ReceiveStartDuelTrue
    <2>2. f \in Local /\ Timed(f)
      BY GoesType, ViewType, TimedScreens
    <2> HIDE DEF f
    <2>3. QED
      BY <2>1, <2>2, <1>m, Handled DEF Early
  <1>5. CASE ReceiveStartDuelFalse(p)
    <2>1. Handles(p, "START_DUEL_FALSE", LostConnection(g), << >>) /\ tries' = tries
          /\ mishaps' = mishaps
      BY <1>5 DEF ReceiveStartDuelFalse
    <2>2. LostConnection(g) \in Local /\ Timed(LostConnection(g))
      BY LostConnectionType, TimedScreens
    <2>3. QED
      BY <2>1, <2>2, <1>m, Handled DEF Early
  <1>6. CASE ReceiveShotTime(p)
    <2> DEFINE f == IF g.endDuel THEN g ELSE Settled(g, m.result)
    <2>1. /\ Handles(p, "SEND_SHOT_TIME", f, << >>) /\ net[p] # << >>
          /\ tries' = tries /\ mishaps' = mishaps
      BY <1>6 DEF ReceiveShotTime, Handles
    <2>2. f \in Local /\ Timed(f)
      BY <2>1, <1>t, SettledType, TimedFinal
    <2> HIDE DEF f
    <2>3. QED
      BY <2>1, <2>2, <1>m, Handled DEF Early
  <1>7. CASE ReceiveRunAway(p)
    <2> DEFINE f == IF g.hasFinal THEN LastScene(WinScene(g)) ELSE g
    <2>1. Handles(p, "RUN_AWAY", f, << >>) /\ tries' = tries /\ mishaps' = mishaps
      BY <1>7 DEF ReceiveRunAway
    <2>2. f \in Local /\ Timed(f)
      BY WinSceneType, LastSceneType, TimedScenes
    <2> HIDE DEF f
    <2>3. QED
      BY <2>1, <2>2, <1>m, Handled DEF Early
  <1>8. CASE ReceiveTimeTry(p)
    <2> DEFINE f == Asked(g, m.money, m.randomTime)
    <2>1. /\ Handles(p, "TIME_TRY", f, << Introduction("OPONTYPE_RESPONSE_TRY", f) >>)
          /\ net[p] # << >>
          /\ tries' = tries
          /\ mishaps' = mishaps \union (IF ph[p].tried THEN {"twoTries"} ELSE {})
                          \union (IF ph[p].view = "list" THEN {"calledBack"} ELSE {})
      BY <1>8 DEF ReceiveTimeTry, Handles, Asked
    <2>2. f \in Local /\ Timed(f)
      BY <2>1, <1>t, AskedType
    <2> HIDE DEF f
    <2>3. mishaps' \subseteq Mishap
      BY <2>1, <1>m
    <2>4. Kinds(<< Introduction("OPONTYPE_RESPONSE_TRY", f) >>) \intersect Early = {}
      BY <2>2, <1>k
    <2>5. << Introduction("OPONTYPE_RESPONSE_TRY", f) >> \in Seq(Packet)
      BY <2>2, <1>k
    <2>6. QED
      BY <2>1, <2>2, <2>3, <2>4, <2>5, <1>m, Handled DEF Early
  <1>9. CASE ReceiveResponseTry(p)
    <2> DEFINE s == Ready(g, m.money)
    <2>1. PICK covered \in {TRUE, g.view = "start"} :
            Handles(p, "OPONTYPE_RESPONSE_TRY", Agreed(g, m.money, covered), StartDuelSends(s))
      BY <1>9 DEF ReceiveResponseTry, Agreed, Ready
    <2> DEFINE f == Agreed(g, m.money, covered)
    <2>2. net[p] # << >>
      BY <2>1 DEF Handles
    <2>3. f \in Local /\ Timed(f)
      BY <2>2, <1>t, AgreedType, covered \in BOOLEAN
    <2>4. Handles(p, "OPONTYPE_RESPONSE_TRY", f, StartDuelSends(s)) /\ tries' = tries
          /\ mishaps' = mishaps
      BY <1>9, <2>1 DEF ReceiveResponseTry
    <2> HIDE DEF f, s
    <2>5. QED
      BY <2>3, <2>4, <1>m, Handled DEF Early
  <1>10. CASE ReceiveDuelCansel(p)
    <2> DEFINE f == IF g.userEndMatch THEN LostConnection(g) ELSE [g EXCEPT !.opponentEndMatch = TRUE]
    <2>1. Handles(p, "DUEL_CANSEL", f, << >>) /\ tries' = tries /\ mishaps' = mishaps
      BY <1>10 DEF ReceiveDuelCansel
    <2>2. [g EXCEPT !.opponentEndMatch = TRUE] \in Local
          /\ Timed([g EXCEPT !.opponentEndMatch = TRUE])
      BY PlainTypes
    <2>3. f \in Local /\ Timed(f)
      BY <2>2, LostConnectionType, TimedScreens
    <2> HIDE DEF f
    <2>4. QED
      BY <2>1, <2>3, <1>m, Handled DEF Early
  <1>11. QED
    BY <1>1, <1>2, <1>3, <1>4, <1>5, <1>6, <1>7, <1>8, <1>9, <1>10 DEF Receive

\* A match begins with two phones and one packet, the guest's TIME.
LEMMA InitTypes ==
  ASSUME Init
  PROVE  TypeOK /\ Opening
  <1>1. PICK t \in RandomTimes : Init!(t)
    BY DEF Init
  <1> DEFINE guest == [Idle EXCEPT !.view = "start", !.randomTime = t]
  <1>2. Idle \in Local /\ Idle.timer = FALSE /\ Idle.view = "list"
    BY SessionAssumption, NoRoundsType DEF Idle, Local, View
  <1>3. t \in Nat
    BY SessionAssumption
  <1>4. guest \in Local /\ guest.timer = FALSE /\ guest.view = "start" /\ guest.mayStart = FALSE
    <2>1. guest \in Local
      BY <1>2, <1>3, ViewType DEF Local
    <2>2. guest.timer = FALSE /\ guest.view = "start" /\ guest.mayStart = FALSE
      BY DEF Idle
    <2>3. QED
      BY <2>1, <2>2
  <1>5. /\ ph = [p \in Phone |-> IF p = 0 THEN Idle ELSE guest]
        /\ net = [p \in Phone |-> IF p = 0 THEN << Introduction("TIME", guest) >> ELSE << >>]
        /\ tries = 0 /\ mishaps = {} /\ clock = [p \in Phone |-> FALSE]
    BY <1>1
  <1> HIDE DEF guest
  <1>6. << Introduction("TIME", guest) >> \in Seq(Packet) /\ << >> \in Seq(Packet)
    BY <1>4, SendTypes DEF PacketID
  <1>7. TypeOK
    BY <1>2, <1>4, <1>5, <1>6, SessionAssumption DEF TypeOK
  <1>8. ph[0] = Idle /\ ph[1] = guest /\ net[0] = << Introduction("TIME", guest) >> /\ net[1] = << >>
    BY <1>5, PhoneFacts
  <1>9. Kinds(net[0]) = {"TIME"} /\ Kinds(net[1]) = {} /\ \A i \in DOMAIN net[0] : i = 1
    BY <1>8, KindsOfOne
  <1>c. \A x \in Phone : ~clock[x]
    BY <1>5
  <1>10. Opening
    <2>1. ASSUME NEW p \in Phone PROVE Opening!(p)
      <3>1. CASE p = 0
        BY <3>1, <1>2, <1>4, <1>8, <1>9, <1>c, PhoneFacts
      <3>2. CASE p = 1
        BY <3>2, <1>8, <1>9, <1>c, PhoneFacts
      <3>3. QED
        BY <3>1, <3>2, PhoneFacts
    <2>2. QED
      BY <2>1 DEF Opening
  <1>11. QED
    BY <1>7, <1>10

\* TypeOK is inductive together with Opening: OPONTYPE_RESPONSE starts a timer,
\* and finds the start screen on top because it reaches nobody later.
THEOREM SessionTypeCorrect == Spec => []TypeOK /\ []Opening
  <1>1. Init => TypeOK /\ Opening
    BY InitTypes
  <1>2. TypeOK /\ Opening /\ [Next]_vars => TypeOK' /\ Opening'
    <2> SUFFICES ASSUME TypeOK, Opening, [Next]_vars PROVE TypeOK' /\ Opening'
      OBVIOUS
    <2>1. CASE Next
      <3>1. PICK p \in Phone : Player(p) \/ Round(p) \/ Receive(p) \/ WaitTimer(p) \/ LinkLost(p)
        BY <2>1 DEF Next
      <3>2. QED
        BY <3>1, ButtonsKeep, RoundKeeps, ReceivesKeep, TimersKeep
    <2>2. CASE UNCHANGED vars
      BY <2>2 DEF vars, TypeOK, Opening
    <2>3. QED
      BY <2>1, <2>2
  <1>3. QED
    BY <1>1, <1>2, PTL DEF Spec

-----------------------------------------------------------------------------
(***************************************************************************)
(* What one step of one phone does to the match invariant of DuelMatch: the *)
(* phone g becomes another, the kinds of packets under way to it (U) and to *)
(* the other phone (V) lose or gain one, and everything that Match says of  *)
(* the two still holds.                                                     *)
(*                                                                          *)
(* There is a lemma for each button, timer and handler.  Each computes the  *)
(* fields the invariant speaks of and then goes through the parts of Match. *)
(***************************************************************************)

Kept(f, g) ==
  /\ f.open = g.open /\ f.server = g.server /\ f.btnStartClick = g.btnStartClick
  /\ f.endDuel = g.endDuel /\ f.mayStart = g.mayStart /\ f.tried = g.tried

\* What the winning scene changes of what the invariant speaks of.
LEMMA WinSceneFacts ==
  ASSUME NEW g \in Local
  PROVE  LET f == WinScene(g) IN
         /\ f \in Local
         /\ Kept(f, g) /\ f.view = g.view /\ f.waiting = g.waiting /\ f.hasFinal = g.hasFinal
         /\ f.tally = g.tally /\ f.lost = g.lost /\ f.copies = g.copies /\ f.booked = g.booked
         /\ f.lastDuel = TRUE /\ f.won = g.won + 1
         /\ f.amount > 0 /\ f.amount = Tenth(g.opMoney) /\ f.money = g.money + f.amount
         /\ f.opMoney = g.opMoney - f.amount
  <1> DEFINE f == WinScene(g)
  <1> DEFINE k == Tenth(g.opMoney)
  <1>1. k \in Int /\ k > 0
    BY FieldTypes, TenthType
  <1>2. f \in Local
    BY WinSceneType
  <1>3. /\ f.view = g.view /\ f.waiting = g.waiting /\ f.hasFinal = g.hasFinal
           /\ f.tally = g.tally /\ f.lost = g.lost /\ f.copies = g.copies /\ f.booked = g.booked
           /\ f.lastDuel = TRUE /\ f.won = g.won + 1
           /\ f.amount = k /\ f.money = g.money + k /\ f.opMoney = g.opMoney - k
    BY DEF Local, WinScene
  <1>4. Kept(f, g)
    BY DEF Local, WinScene, Kept
  <1> HIDE DEF k
  <1>5. QED
    BY <1>1, <1>2, <1>3, <1>4 DEF k

\* What the losing scene changes of what the invariant speaks of.
LEMMA LoseSceneFacts ==
  ASSUME NEW g \in Local, g.money >= 0
  PROVE  LET f == LoseScene(g) IN
         /\ f \in Local
         /\ Kept(f, g) /\ f.view = g.view /\ f.waiting = g.waiting /\ f.hasFinal = g.hasFinal
         /\ f.tally = g.tally /\ f.won = g.won /\ f.copies = g.copies /\ f.booked = g.booked
         /\ f.lastDuel = TRUE /\ f.lost = g.lost + 1
         /\ f.money >= 0 /\ f.money = g.money + f.amount
         /\ f.opMoney = g.opMoney + Tenth(g.money)
         /\ f.amount = -(IF g.money > Tenth(g.money) THEN Tenth(g.money) ELSE g.money)
  <1> DEFINE f == LoseScene(g)
  <1> DEFINE k == Tenth(g.money)
             paid == IF g.money > k THEN k ELSE g.money
  <1>1. k \in Int /\ k > 0 /\ paid \in Int /\ paid <= g.money /\ g.money \in Int
    BY FieldTypes, TenthType
  <1>2. f \in Local
    BY LoseSceneType
  <1>3. /\ f.view = g.view /\ f.waiting = g.waiting /\ f.hasFinal = g.hasFinal
           /\ f.tally = g.tally /\ f.won = g.won /\ f.copies = g.copies /\ f.booked = g.booked
           /\ f.lastDuel = TRUE /\ f.lost = g.lost + 1
           /\ f.amount = -paid /\ f.money = g.money - paid /\ f.opMoney = g.opMoney + k
    BY DEF Local, LoseScene
  <1>4. Kept(f, g)
    BY DEF Local, LoseScene, Kept
  <1> HIDE DEF k, paid
  <1>5. f.money >= 0 /\ f.money = g.money + f.amount
    BY <1>1, <1>3
  <1>6. QED
    BY <1>2, <1>3, <1>4, <1>5 DEF k, paid

\* What the scene after the last round changes: it leaves a duel to be booked.
LEMMA LastSceneFacts ==
  ASSUME NEW g \in Local
  PROVE  LET f == LastScene(g) IN
         /\ f \in Local
         /\ Kept(f, g) /\ f.view = g.view /\ f.hasFinal = g.hasFinal
         /\ f.waiting <=> g.waiting /\ g.view # "final"
         /\ f.tally = g.tally /\ f.won = g.won /\ f.lost = g.lost /\ f.booked = g.booked
         /\ f.lastDuel = g.lastDuel /\ f.money = g.money /\ f.opMoney = g.opMoney
         /\ f.amount = g.amount /\ f.copies = g.copies + 1
  <1> DEFINE f == LastScene(g)
  <1>1. f \in Local
    BY LastSceneType
  <1>2. Kept(f, g)
    BY DEF Local, LastScene, Kept
  <1>3. QED
    BY <1>1, <1>2, ZenonT(60) DEF Local, LastScene

\* How a round counts.
LEMMA ScoreFacts ==
  ASSUME NEW s \in [number : Nat, win : Nat, lose : Nat]
  PROVE  /\ WinRound(s).win = s.win + 1 /\ WinRound(s).lose = s.lose
         /\ WinRound(s).number = s.number + 1
         /\ LoseRound(s).win = s.win /\ LoseRound(s).lose = s.lose + 1
         /\ LoseRound(s).number = s.number + 1
  BY DEF WinRound, LoseRound

\* The result screen of a round: its score, whether it decides the duel, its books.
LEMMA NewFinalFacts ==
  ASSUME NEW g \in Local, NEW r \in Result \ {"none"}, Books(g),
         g.won = 0, g.lost = 0, g.tally.win < 2, g.tally.lose < 2,
         g.tally.number = g.tally.win + g.tally.lose
  PROVE  LET f == NewFinal(g, r) IN
         /\ f \in Local
         /\ Kept(f, g) /\ f.view = "final" /\ ~f.waiting /\ f.hasFinal = TRUE
         /\ f.tally.win = Win(g, r) /\ f.tally.lose = Lose(g, r)
         /\ f.tally.number = f.tally.win + f.tally.lose
         /\ f.lastDuel <=> (Win(g, r) = 2 \/ Lose(g, r) = 2)
         /\ f.won = (IF Win(g, r) = 2 THEN 1 ELSE 0) /\ f.lost = (IF Lose(g, r) = 2 THEN 1 ELSE 0)
         /\ Books(f)
  <1> DEFINE tally == CASE r = "won"  -> WinRound(g.tally)
                        [] r = "lost" -> LoseRound(g.tally)
                        [] OTHER      -> g.tally
             shown == [Goes(g, "final") EXCEPT
                    !.tally = tally, !.hasFinal = TRUE, !.lastDuel = FALSE,
                    !.booked = @ + g.copies * g.amount, !.copies = 0, !.amount = 10]
             won   == IF tally.win = 2 THEN WinScene(shown) ELSE shown
             lost  == IF tally.lose = 2 THEN LoseScene(won) ELSE won
             f     == NewFinal(g, r)
  <1>1. f = IF lost.lastDuel THEN LastScene(lost) ELSE lost
    BY DEF NewFinal
  <1>2. /\ Win(g, r) \in Nat /\ Lose(g, r) \in Nat /\ ~(Win(g, r) = 2 /\ Lose(g, r) = 2)
    BY FieldTypes DEF Win, Lose
  <1>3. /\ tally \in Tally /\ tally.win = Win(g, r) /\ tally.lose = Lose(g, r)
        /\ tally.number = Win(g, r) + Lose(g, r)
    <2>1. tally \in Tally
      BY FieldTypes, ScoreTypes DEF Result
    <2>2. g.tally \in Tally /\ g.tally \in [number : Nat, win : Nat, lose : Nat]
      BY FieldTypes
    <2>3. CASE r = "won"
      <3>1. tally = WinRound(g.tally)
        BY <2>3
      <3> HIDE DEF tally
      <3>2. QED
        BY <3>1, <2>1, <2>2, <2>3, ScoreFacts DEF Win, Lose
    <2>4. CASE r = "lost"
      <3>1. tally = LoseRound(g.tally)
        BY <2>4
      <3> HIDE DEF tally
      <3>2. QED
        BY <3>1, <2>1, <2>2, <2>4, ScoreFacts DEF Win, Lose
    <2>5. CASE r = "even"
      BY <2>1, <2>2, <2>5 DEF Win, Lose
    <2>6. QED
      BY <2>3, <2>4, <2>5 DEF Result
  <1>4. f \in Local
    BY NewFinalType
  <1> HIDE DEF tally, f
  <1>5. shown \in Local
    <2> DEFINE t == Goes(g, "final")
               b == t.booked + g.copies * g.amount
    <2>1. t \in Local
      BY GoesType, ViewType
    <2>2. t.booked \in Int /\ g.copies \in Nat /\ g.amount \in Int
      BY <2>1, FieldTypes
    <2> HIDE DEF t
    <2>3. b \in Int
      BY <2>2
    <2> HIDE DEF b
    <2>4. [t EXCEPT !.tally = tally, !.hasFinal = TRUE, !.lastDuel = FALSE,
                    !.booked = b, !.copies = 0, !.amount = 10] \in Local
      BY <2>1, <2>3, <1>3, ShownType
    <2>5. QED
      BY <2>4 DEF t, b
  <1>6. /\ Kept(shown, g) /\ shown.view = "final" /\ ~shown.waiting /\ shown.hasFinal = TRUE
        /\ shown.tally = tally /\ shown.lastDuel = FALSE /\ shown.copies = 0 /\ shown.amount = 10
        /\ shown.money = g.money /\ shown.booked = g.booked + g.copies * g.amount
        /\ shown.won = 0 /\ shown.lost = 0
    BY DEF Local, Goes, Kept
  <1>7. /\ shown.money >= 0 /\ shown.money \in Int /\ shown.booked = shown.money - Money
    BY <1>6, FieldTypes DEF Books
  <1> HIDE DEF shown
  <1>8. CASE Win(g, r) = 2
    <2> DEFINE w == WinScene(shown)
    <2>1. w.lastDuel = TRUE
      BY <1>5, WinSceneFacts
    <2>2. f = LastScene(w)
      BY <1>1, <1>2, <1>3, <1>8, <2>1
    <2>3. w \in Local
      BY <1>5, WinSceneType
    <2> HIDE DEF w
    <2>4. /\ Kept(w, shown) /\ w.view = "final" /\ ~w.waiting /\ w.hasFinal = TRUE
          /\ w.tally = tally /\ w.copies = 0 /\ w.booked = shown.booked /\ w.lastDuel = TRUE
          /\ w.won = 1 /\ w.lost = 0 /\ w.money >= 0 /\ w.money = shown.money + w.amount
          /\ w.amount \in Int /\ w.money \in Int
      <3>1. w.amount \in Int /\ w.money \in Int
        BY <2>3, FieldTypes
      <3>2. /\ Kept(w, shown) /\ w.view = shown.view /\ w.waiting = shown.waiting
            /\ w.hasFinal = shown.hasFinal /\ w.tally = shown.tally /\ w.copies = shown.copies
            /\ w.booked = shown.booked /\ w.lastDuel = TRUE
        BY <1>5, <1>7, WinSceneFacts DEF w
      <3>3. w.won = shown.won + 1 /\ w.lost = shown.lost  /\ w.money = shown.money + w.amount
        BY <1>5, <1>7, WinSceneFacts DEF w
      <3>4. w.amount > 0
        BY <1>5, <1>7, WinSceneFacts DEF w
      <3>5. QED
        BY <3>1, <3>2, <3>3, <3>4, <1>6, <1>7
    <2>5. /\ Kept(f, w) /\ f.view = w.view /\ f.hasFinal = w.hasFinal /\ ~f.waiting
          /\ f.tally = w.tally /\ f.won = w.won /\ f.lost = w.lost /\ f.booked = w.booked
          /\ f.lastDuel = w.lastDuel /\ f.money = w.money /\ f.amount = w.amount /\ f.copies = 1
      <3>1. (f.waiting <=> w.waiting /\ w.view # "final") /\ f.copies = w.copies + 1
        BY <2>2, <2>3, LastSceneFacts
      <3>2. /\ Kept(f, w) /\ f.view = w.view /\ f.hasFinal = w.hasFinal
            /\ f.tally = w.tally /\ f.won = w.won /\ f.lost = w.lost /\ f.booked = w.booked
            /\ f.lastDuel = w.lastDuel /\ f.money = w.money /\ f.amount = w.amount
        BY <2>2, <2>3, LastSceneFacts
      <3>3. ~f.waiting
        BY <3>1, <2>4
      <3>4. f.copies = 1
        BY <3>1, <2>4
      <3>5. QED
        BY <3>2, <3>3, <3>4, <2>4
    <2>6. Books(f)
      BY <2>4, <2>5, <1>7, SessionAssumption DEF Books
    <2>7. Kept(f, g)
      BY <2>4, <2>5, <1>6 DEF Kept
    <2>8. QED
      BY <2>4, <2>5, <2>6, <2>7, <1>2, <1>3, <1>4, <1>8 DEF f
  <1>9. CASE Lose(g, r) = 2
    <2> DEFINE w == LoseScene(shown)
    <2>1. w.lastDuel = TRUE
      BY <1>5, <1>7, LoseSceneFacts
    <2>2. f = LastScene(w)
      BY <1>1, <1>2, <1>3, <1>9, <2>1
    <2>3. w \in Local
      BY <1>5, LoseSceneType
    <2> HIDE DEF w
    <2>4. /\ Kept(w, shown) /\ w.view = "final" /\ ~w.waiting /\ w.hasFinal = TRUE
          /\ w.tally = tally /\ w.copies = 0 /\ w.booked = shown.booked /\ w.lastDuel = TRUE
          /\ w.lost = 1 /\ w.won = 0 /\ w.money >= 0 /\ w.money = shown.money + w.amount
          /\ w.amount \in Int /\ w.money \in Int
      <3>1. w.amount \in Int /\ w.money \in Int
        BY <2>3, FieldTypes
      <3>2. /\ Kept(w, shown) /\ w.view = shown.view /\ w.waiting = shown.waiting
            /\ w.hasFinal = shown.hasFinal /\ w.tally = shown.tally /\ w.copies = shown.copies
            /\ w.booked = shown.booked /\ w.lastDuel = TRUE
        BY <1>5, <1>7, LoseSceneFacts DEF w
      <3>3. w.won = shown.won  /\ w.lost = shown.lost + 1 /\ w.money = shown.money + w.amount
        BY <1>5, <1>7, LoseSceneFacts DEF w
      <3>4. w.money >= 0
        BY <1>5, <1>7, LoseSceneFacts DEF w
      <3>5. QED
        BY <3>1, <3>2, <3>3, <3>4, <1>6, <1>7
    <2>5. /\ Kept(f, w) /\ f.view = w.view /\ f.hasFinal = w.hasFinal /\ ~f.waiting
          /\ f.tally = w.tally /\ f.won = w.won /\ f.lost = w.lost /\ f.booked = w.booked
          /\ f.lastDuel = w.lastDuel /\ f.money = w.money /\ f.amount = w.amount /\ f.copies = 1
      <3>1. (f.waiting <=> w.waiting /\ w.view # "final") /\ f.copies = w.copies + 1
        BY <2>2, <2>3, LastSceneFacts
      <3>2. /\ Kept(f, w) /\ f.view = w.view /\ f.hasFinal = w.hasFinal
            /\ f.tally = w.tally /\ f.won = w.won /\ f.lost = w.lost /\ f.booked = w.booked
            /\ f.lastDuel = w.lastDuel /\ f.money = w.money /\ f.amount = w.amount
        BY <2>2, <2>3, LastSceneFacts
      <3>3. ~f.waiting
        BY <3>1, <2>4
      <3>4. f.copies = 1
        BY <3>1, <2>4
      <3>5. QED
        BY <3>2, <3>3, <3>4, <2>4
    <2>6. Books(f)
      BY <2>4, <2>5, <1>7, SessionAssumption DEF Books
    <2>7. Kept(f, g)
      BY <2>4, <2>5, <1>6 DEF Kept
    <2>8. QED
      BY <2>4, <2>5, <2>6, <2>7, <1>2, <1>3, <1>4, <1>9 DEF f
  <1>10. CASE Win(g, r) # 2 /\ Lose(g, r) # 2
    <2>1. f = shown
      BY <1>1, <1>3, <1>6, <1>10
    <2>2. shown.copies * shown.amount = 0
      BY <1>6
    <2> Books(f)
      BY <2>1, <2>2, <1>6, <1>7, SessionAssumption DEF Books
    <2>3. QED
      BY <2>1, <2>2, <1>2, <1>3, <1>5, <1>6, <1>10 DEF f
  <1>11. QED
    BY <1>8, <1>9, <1>10 DEF f

First(x, U) == x \in U /\ \A y \in U \ {x} : Ahead(x, y) /\ Between(x, y, U)
Last(x, V) == \A y \in V : Ahead(y, x) /\ Between(y, x, V)

\* Before the duel is decided nobody has won it.
LEMMA NotYet ==
  ASSUME NEW g \in Local, Verdict(g)
  PROVE  /\ ~Decided(g) \/ g.tried => g.won = 0 /\ g.lost = 0 /\ g.tally.win < 2 /\ g.tally.lose < 2
         /\ g.view = "start" \/ g.tried => g.tally.win = 0 /\ g.tally.lose = 0
  <1>1. g.won \in Nat /\ g.lost \in Nat /\ g.tally.win \in Nat /\ g.tally.lose \in Nat
    BY FieldTypes
  <1>2. QED
    BY <1>1 DEF Verdict, Decided

\* The books and the verdict of a player who runs away.
LEMMA RunAwayFacts ==
  ASSUME NEW g \in Local, Sound(g), g.view = "final", ~g.lastDuel, ~g.waiting
  PROVE  LET f == [LastScene(LoseScene(g)) EXCEPT !.shot = FALSE, !.tally = NoRounds] IN
         /\ Kept(f, g) /\ f.view = "final" /\ ~f.waiting /\ f.hasFinal = TRUE /\ f.lastDuel = TRUE
         /\ f.tally = NoRounds /\ f.won = 0 /\ f.lost = 1 /\ Books(f)
  <1> DEFINE w == LoseScene(g)
             l == LastScene(w)
             f == [l EXCEPT !.shot = FALSE, !.tally = NoRounds]
  <1>1. g.copies = 0 /\ g.won = 0 /\ g.lost = 0 /\ g.money >= 0 /\ g.hasFinal
        /\ g.booked + g.copies * g.amount = g.money - Money
    <2>1. g.won \in Nat /\ g.lost \in Nat
      BY FieldTypes
    <2>2. Books(g) /\ Verdict(g) /\ Screens(g)
      BY DEF Sound
    <2>3. g.won = 0 /\ g.lost = 0
      BY <2>1, <2>2 DEF Verdict
    <2>4. g.copies = 0 /\ g.money >= 0 /\ g.booked + g.copies * g.amount = g.money - Money
      BY <2>2 DEF Books
    <2>5. QED
      BY <2>2, <2>3, <2>4 DEF Screens
  <1>2. g.booked = g.money - Money /\ g.money \in Int
    BY <1>1, FieldTypes, SessionAssumption
  <1>3. w \in Local /\ l \in Local
    BY LoseSceneType, LastSceneType
  <1>4. /\ Kept(w, g) /\ w.view = g.view /\ w.waiting = g.waiting /\ w.hasFinal = g.hasFinal
        /\ w.won = g.won /\ w.copies = g.copies /\ w.booked = g.booked /\ w.lastDuel = TRUE
    BY <1>1, LoseSceneFacts
  <1>5. w.lost = g.lost + 1 /\ w.money >= 0 /\ w.money = g.money + w.amount
    BY <1>1, LoseSceneFacts
  <1>6. w.amount \in Int /\ w.money \in Int
    BY <1>3, FieldTypes
  <1> HIDE DEF w
  <1>7. /\ Kept(l, w) /\ l.view = w.view /\ l.hasFinal = w.hasFinal
        /\ l.tally = w.tally /\ l.won = w.won /\ l.lost = w.lost /\ l.booked = w.booked
        /\ l.lastDuel = w.lastDuel /\ l.money = w.money /\ l.amount = w.amount
    BY <1>3, LastSceneFacts
  <1>8. (l.waiting <=> w.waiting /\ w.view # "final") /\ l.copies = w.copies + 1
    BY <1>3, LastSceneFacts
  <1> HIDE DEF l
  <1>9. /\ Kept(f, l) /\ f.view = l.view /\ f.waiting = l.waiting /\ f.hasFinal = l.hasFinal
        /\ f.tally = NoRounds /\ f.won = l.won /\ f.lost = l.lost /\ f.booked = l.booked
        /\ f.lastDuel = l.lastDuel /\ f.money = l.money /\ f.amount = l.amount /\ f.copies = l.copies
    BY <1>3 DEF Local, Kept
  <1>10. Kept(f, g)
    BY <1>4, <1>7, <1>9 DEF Kept
  <1> HIDE DEF f
  <1>11. f.copies = 1 /\ f.lost = 1 /\ f.money = g.money + f.amount
    BY <1>1, <1>4, <1>5, <1>7, <1>8, <1>9
  <1>12. Books(f)
    BY <1>2, <1>4, <1>5, <1>6, <1>7, <1>9, <1>11, SessionAssumption DEF Books
  <1>13. f.view = "final" /\ ~f.waiting /\ f.hasFinal = TRUE /\ f.lastDuel = TRUE
         /\ f.tally = NoRounds /\ f.won = 0
    BY <1>1, <1>4, <1>7, <1>8, <1>9 DEF Local
  <1>14. QED
    BY <1>10, <1>11, <1>12, <1>13 DEF f, l, w

\* The books and the verdict of a player whose opponent has run away.
LEMMA RanAwayFacts ==
  ASSUME NEW g \in Local, Sound(g), ~g.lastDuel
  PROVE  LET f == LastScene(WinScene(g)) IN
         /\ Kept(f, g) /\ f.view = g.view /\ (f.waiting <=> g.waiting /\ g.view # "final")
         /\ f.hasFinal = g.hasFinal /\ f.lastDuel = TRUE
         /\ f.tally = g.tally /\ f.won = 1 /\ f.lost = 0 /\ Books(f)
  <1> DEFINE w == WinScene(g)
             l == LastScene(w)
  <1>0. g.copies = 0 /\ g.money >= 0 /\ g.booked + g.copies * g.amount = g.money - Money
    BY FieldTypes DEF Sound, Books
  <1>1. g.won = 0 /\ g.lost = 0
    BY FieldTypes DEF Sound, Verdict
  <1>2. g.booked = g.money - Money /\ g.money \in Int
    BY <1>0, FieldTypes, SessionAssumption
  <1>3. w \in Local /\ l \in Local
    BY WinSceneType, LastSceneType
  <1>4. /\ Kept(w, g) /\ w.view = g.view /\ w.waiting = g.waiting /\ w.hasFinal = g.hasFinal
        /\ w.tally = g.tally /\ w.lost = g.lost /\ w.copies = g.copies /\ w.booked = g.booked
        /\ w.lastDuel = TRUE
    BY WinSceneFacts
  <1>5. w.won = g.won + 1 /\ w.amount > 0 /\ w.money = g.money + w.amount
    BY WinSceneFacts
  <1>6. w.amount \in Int /\ w.money \in Int
    BY <1>3, FieldTypes
  <1> HIDE DEF w
  <1>7. /\ Kept(l, w) /\ l.view = w.view /\ l.hasFinal = w.hasFinal
        /\ l.tally = w.tally /\ l.won = w.won /\ l.lost = w.lost /\ l.booked = w.booked
        /\ l.lastDuel = w.lastDuel /\ l.money = w.money /\ l.amount = w.amount
    BY <1>3, LastSceneFacts
  <1>8. (l.waiting <=> w.waiting /\ w.view # "final") /\ l.copies = w.copies + 1
    BY <1>3, LastSceneFacts
  <1> HIDE DEF l
  <1>10. Kept(l, g)
    BY <1>4, <1>7 DEF Kept
  <1>11. l.copies = 1 /\ l.won = 1 /\ l.money = g.money + l.amount
    BY <1>0, <1>1, <1>4, <1>5, <1>7, <1>8
  <1>12. Books(l)
    BY <1>0, <1>2, <1>4, <1>5, <1>6, <1>7, <1>11, SessionAssumption DEF Books
  <1>13. l.view = g.view /\ (l.waiting <=> g.waiting /\ g.view # "final")
         /\ l.hasFinal = g.hasFinal /\ l.lastDuel = TRUE /\ l.tally = g.tally /\ l.lost = 0
    BY <1>1, <1>4, <1>7, <1>8
  <1>14. QED
    BY <1>10, <1>11, <1>12, <1>13 DEF l, w

\* The books and the verdict of a player who has settled a round.
LEMMA SettledFacts ==
  ASSUME NEW g \in Local, NEW r \in Result \ {"none"}, Sound(g), g.view = "duel"
  PROVE  LET f == Settled(g, r) IN
         /\ f.open = g.open /\ f.server = g.server /\ f.mayStart = g.mayStart /\ f.tried = g.tried
         /\ f.endDuel = TRUE /\ f.btnStartClick = FALSE /\ f.view = "final" /\ ~f.waiting
         /\ f.hasFinal = TRUE
         /\ f.tally.win = Win(g, r) /\ f.tally.lose = Lose(g, r)
         /\ f.tally.number = f.tally.win + f.tally.lose
         /\ f.lastDuel <=> (Win(g, r) = 2 \/ Lose(g, r) = 2)
         /\ f.won = (IF Win(g, r) = 2 THEN 1 ELSE 0) /\ f.lost = (IF Lose(g, r) = 2 THEN 1 ELSE 0)
         /\ Books(f)
  <1> DEFINE n == NewFinal(g, r)
             f == Settled(g, r)
  <1>1. Books(g) /\ g.won = 0 /\ g.lost = 0 /\ g.tally.win < 2 /\ g.tally.lose < 2
        /\ g.tally.number = g.tally.win + g.tally.lose
    BY FieldTypes DEF Sound, Verdict
  <1>2. n \in Local
    BY NewFinalType
  <1>3. /\ Kept(n, g) /\ n.view = "final" /\ ~n.waiting /\ n.hasFinal = TRUE
        /\ n.tally.win = Win(g, r) /\ n.tally.lose = Lose(g, r)
        /\ n.tally.number = n.tally.win + n.tally.lose
        /\ n.lastDuel <=> (Win(g, r) = 2 \/ Lose(g, r) = 2)
        /\ n.won = (IF Win(g, r) = 2 THEN 1 ELSE 0) /\ n.lost = (IF Lose(g, r) = 2 THEN 1 ELSE 0)
        /\ Books(n)
    BY <1>1, NewFinalFacts
  <1> HIDE DEF n
  <1>4. /\ f.open = n.open /\ f.server = n.server /\ f.mayStart = n.mayStart /\ f.tried = n.tried
        /\ f.endDuel = TRUE /\ f.btnStartClick = FALSE /\ f.view = n.view /\ f.waiting = n.waiting
        /\ f.hasFinal = n.hasFinal /\ f.tally = n.tally /\ f.lastDuel = n.lastDuel
        /\ f.won = n.won /\ f.lost = n.lost /\ f.copies = n.copies /\ f.amount = n.amount
        /\ f.money = n.money /\ f.booked = n.booked
    BY <1>2 DEF Settled, Local, n
  <1>5. Books(f)
    BY <1>3, <1>4 DEF Books
  <1>6. QED
    BY <1>3, <1>4, <1>5 DEF Kept

\* StartButton.
LEMMA StartButtonMatch ==
  ASSUME NEW g \in Local, NEW h \in Local, NEW U \in SUBSET PacketID, NEW V \in SUBSET PacketID,
         NEW R \in SUBSET Result, NEW Q \in SUBSET Result,
         Match(g, h, U, V, R, Q), g.view = "start", g.mayStart, ~g.waiting
  PROVE  /\ Match(Waiting(StartClicked(g)),
                  h, U, (IF h.open THEN V \union {"START_DUEL"} ELSE V), R, Q)
         /\ h.open => Last("START_DUEL", V)
  <1> DEFINE g2 == Waiting(StartClicked(g))
  <1> DEFINE U2 == U
  <1> DEFINE W == (IF h.open THEN V \union {"START_DUEL"} ELSE V)
  <1> USE DEF Match
  <1>1. ~g.server /\ g.open
    BY DEF Local, Sound, Screens
  <1>2. /\ g2.view = g.view /\ g2.waiting = TRUE /\ g2.open = g.open
        /\ g2.server = g.server /\ g2.btnStartClick = g.btnStartClick
        /\ g2.endDuel = g.endDuel /\ g2.mayStart = g.mayStart /\ g2.lastDuel = g.lastDuel
        /\ g2.tried = g.tried /\ g2.hasFinal = g.hasFinal /\ g2.tally = g.tally
        /\ g2.won = g.won /\ g2.lost = g.lost /\ g2.copies = g.copies
        /\ g2.amount = g.amount /\ g2.money = g.money /\ g2.booked = g.booked
    BY <1>1 DEF Local, Waiting, StartClicked, StartDuel
  <1> HIDE DEF g2
  <1>3. Books(g2)
    BY <1>1, <1>2 DEF Sound, Books
  <1>4. Verdict(g2)
    BY <1>1, <1>2 DEF Sound, Books, Verdict, Screens, Toward, Arriving, Scored, Win, Lose, Undecided
  <1>5. Screens(g2)
    BY <1>1, <1>2 DEF PacketID, Sound, Verdict, Screens, Undecided, Decided, Toward, Arriving,
       Together, Ahead, Between, First, Last
  <1>6. Arriving(g2, h, U2, W)
    BY <1>1, <1>2 DEF PacketID, Sound, Verdict, Screens, Undecided, Decided, Toward, Arriving,
       Together, Ahead, Between, First, Last
  <1>7. Arriving(h, g2, W, U2)
    BY <1>1, <1>2 DEF PacketID, Sound, Verdict, Screens, Undecided, Decided, Toward, Arriving,
       Together, Ahead, Between, First, Last
  <1>8. Together(g2, h, U2, W)
    BY <1>1, <1>2 DEF PacketID, Sound, Verdict, Screens, Undecided, Decided, Toward, Arriving,
       Together, Ahead, Between, First, Last, Scored
  <1>9. Together(h, g2, W, U2)
    BY <1>1, <1>2 DEF PacketID, Sound, Verdict, Screens, Undecided, Decided, Toward, Arriving,
       Together, Ahead, Between, First, Last, Scored
  <1>10. Scored(g2, h, U2, W, R)
    BY <1>1, <1>2 DEF Sound, Verdict, Screens, Undecided, Decided, Toward, Arriving, Together, Level,
       Scored, Win, Lose
  <1>11. Scored(h, g2, W, U2, Q)
    BY <1>1, <1>2 DEF Sound, Verdict, Screens, Undecided, Decided, Toward, Arriving, Together, Level,
       Scored, Win, Lose
  <1>12. (g2.open \/ U2 = {}) /\ (h.open \/ W = {})
    BY <1>1, <1>2 DEF Toward, Arriving, Screens, Sound
  <1>13. h.open => Last("START_DUEL", V)
    BY <1>1, <1>2 DEF PacketID, Sound, Verdict, Screens, Undecided, Decided, Toward, Arriving,
       Together, Ahead, Between, First, Last
  <1>14. Match(g2, h, U2, W, R, Q)
    BY <1>3, <1>4, <1>5, <1>6, <1>7, <1>8, <1>9, <1>10, <1>11, <1>12, <1>13 DEF Sound, Toward
  <1>15. QED
    BY <1>14, <1>13 DEF g2

\* CancelButton and WaitTimer: the phone leaves.
LEMMA CancelMatch ==
  ASSUME NEW g \in Local, NEW h \in Local, NEW U \in SUBSET PacketID, NEW V \in SUBSET PacketID,
         NEW R \in SUBSET Result, NEW Q \in SUBSET Result,
         Match(g, h, U, V, R, Q), g.open
  PROVE  /\ Match(Cancelled(g), h, {}, (IF h.open THEN V \union {"START_DUEL_FALSE"} ELSE V), {}, Q)
         /\ h.open => Last("START_DUEL_FALSE", V)
  <1> DEFINE g2 == Cancelled(g)
  <1> DEFINE U2 == {}
  <1> DEFINE W == (IF h.open THEN V \union {"START_DUEL_FALSE"} ELSE V)
  <1> USE DEF Match
  <1>1. /\ g2.view = "list" /\ g2.waiting = FALSE /\ g2.open = FALSE
        /\ g2.server = g.server /\ g2.btnStartClick = g.btnStartClick
        /\ g2.endDuel = g.endDuel /\ g2.mayStart = g.mayStart /\ g2.lastDuel = g.lastDuel
        /\ g2.tried = g.tried /\ g2.hasFinal = g.hasFinal /\ g2.tally = NoRounds
        /\ g2.won = g.won /\ g2.lost = g.lost /\ g2.copies = g.copies
        /\ g2.amount = g.amount /\ g2.money = g.money /\ g2.booked = g.booked
    BY DEF Local, Cancelled, LostConnection, Goes
  <1> HIDE DEF g2
  <1>2. Books(g2)
    BY <1>1 DEF Sound, Books
  <1>3. Verdict(g2)
    BY <1>1 DEF Sound, Books, Verdict, Screens, Toward, Arriving, Scored, Win, Lose, Undecided,
       NoRounds
  <1>4. Screens(g2)
    BY <1>1 DEF PacketID, Sound, Verdict, Screens, Undecided, Decided, Toward, Arriving, Together,
       Ahead, Between, First, Last
  <1>5. Arriving(g2, h, U2, W)
    BY <1>1 DEF PacketID, Sound, Verdict, Screens, Undecided, Decided, Toward, Arriving, Together,
       Ahead, Between, First, Last
  <1>6. Arriving(h, g2, W, U2)
    BY <1>1 DEF PacketID, Sound, Verdict, Screens, Undecided, Decided, Toward, Arriving, Together,
       Ahead, Between, First, Last
  <1>7. Together(g2, h, U2, W)
    BY <1>1 DEF PacketID, Sound, Verdict, Screens, Undecided, Decided, Toward, Arriving, Together,
       Ahead, Between, First, Last, Scored
  <1>8. Together(h, g2, W, U2)
    BY <1>1 DEF PacketID, Sound, Verdict, Screens, Undecided, Decided, Toward, Arriving, Together,
       Ahead, Between, First, Last, Scored
  <1>9. Scored(g2, h, U2, W, {})
    BY <1>1 DEF Sound, Verdict, Screens, Undecided, Decided, Toward, Arriving, Together, Level,
       Scored, Win, Lose, NoRounds
  <1>10. Scored(h, g2, W, U2, Q)
    BY <1>1 DEF Sound, Verdict, Screens, Undecided, Decided, Toward, Arriving, Together, Level,
       Scored, Win, Lose, NoRounds
  <1>11. (g2.open \/ U2 = {}) /\ (h.open \/ W = {})
    BY <1>1 DEF Toward, Arriving, Screens, Sound
  <1>12. h.open => Last("START_DUEL_FALSE", V)
    BY <1>1 DEF PacketID, Sound, Verdict, Screens, Undecided, Decided, Toward, Arriving, Together,
       Ahead, Between, First, Last
  <1>13. Match(g2, h, U2, W, {}, Q)
    BY <1>2, <1>3, <1>4, <1>5, <1>6, <1>7, <1>8, <1>9, <1>10, <1>11, <1>12 DEF Sound, Toward
  <1>14. QED
    BY <1>13, <1>12 DEF g2

\* NextButton, pressed first.
LEMMA NextFirstMatch ==
  ASSUME NEW g \in Local, NEW h \in Local, NEW U \in SUBSET PacketID, NEW V \in SUBSET PacketID,
         NEW R \in SUBSET Result, NEW Q \in SUBSET Result,
         Match(g, h, U, V, R, Q), g.view = "final", ~g.lastDuel, ~g.waiting, ~g.btnStartClick,
         "RUN_AWAY" \notin U
  PROVE  /\ Match(NextDuelStart(g), h, U, (IF h.open THEN V \union {"START_DUEL"} ELSE V), R, Q)
         /\ h.open => Last("START_DUEL", V)
  <1> DEFINE g2 == NextDuelStart(g)
  <1> DEFINE U2 == U
  <1> DEFINE W == (IF h.open THEN V \union {"START_DUEL"} ELSE V)
  <1> USE DEF Match
  <1>1. g.open
    BY DEF Local, Sound, Screens
  <1>2. /\ g2.view = g.view /\ g2.waiting = TRUE /\ g2.open = g.open
        /\ g2.server = g.server /\ g2.btnStartClick = TRUE /\ g2.endDuel = FALSE
        /\ g2.mayStart = g.mayStart /\ g2.lastDuel = g.lastDuel /\ g2.tried = g.tried
        /\ g2.hasFinal = g.hasFinal /\ g2.tally = g.tally /\ g2.won = g.won
        /\ g2.lost = g.lost /\ g2.copies = g.copies /\ g2.amount = g.amount
        /\ g2.money = g.money /\ g2.booked = g.booked
    BY DEF Local, NextDuelStart
  <1> HIDE DEF g2
  <1>3. Books(g2)
    BY <1>1, <1>2 DEF Sound, Books
  <1>4. Verdict(g2)
    BY <1>1, <1>2 DEF Sound, Books, Verdict, Screens, Toward, Arriving, Scored, Win, Lose, Undecided
  <1>5. Screens(g2)
    BY <1>1, <1>2 DEF PacketID, Sound, Verdict, Screens, Undecided, Decided, Toward, Arriving,
       Together, Ahead, Between, First, Last
  <1>6. Arriving(g2, h, U2, W)
    BY <1>1, <1>2 DEF PacketID, Sound, Verdict, Screens, Undecided, Decided, Toward, Arriving,
       Together, Ahead, Between, First, Last
  <1>7. Arriving(h, g2, W, U2)
    BY <1>1, <1>2 DEF PacketID, Sound, Verdict, Screens, Undecided, Decided, Toward, Arriving,
       Together, Ahead, Between, First, Last
  <1>8. Together(g2, h, U2, W)
    BY <1>1, <1>2 DEF PacketID, Sound, Verdict, Screens, Undecided, Decided, Toward, Arriving,
       Together, Ahead, Between, First, Last, Scored
  <1>9. Together(h, g2, W, U2)
    BY <1>1, <1>2 DEF PacketID, Sound, Verdict, Screens, Undecided, Decided, Toward, Arriving,
       Together, Ahead, Between, First, Last, Scored
  <1>10. Scored(g2, h, U2, W, R)
    BY <1>1, <1>2 DEF Sound, Verdict, Screens, Undecided, Decided, Toward, Arriving, Together, Level,
       Scored, Win, Lose
  <1>11. Scored(h, g2, W, U2, Q)
    BY <1>1, <1>2 DEF Sound, Verdict, Screens, Undecided, Decided, Toward, Arriving, Together, Level,
       Scored, Win, Lose
  <1>12. (g2.open \/ U2 = {}) /\ (h.open \/ W = {})
    BY <1>1, <1>2 DEF Toward, Arriving, Screens, Sound
  <1>13. h.open => Last("START_DUEL", V)
    BY <1>1, <1>2 DEF PacketID, Sound, Verdict, Screens, Undecided, Decided, Toward, Arriving,
       Together, Ahead, Between, First, Last
  <1>14. Match(g2, h, U2, W, R, Q)
    BY <1>3, <1>4, <1>5, <1>6, <1>7, <1>8, <1>9, <1>10, <1>11, <1>12, <1>13 DEF Sound, Toward
  <1>15. QED
    BY <1>14, <1>13 DEF g2

\* NextButton, pressed second.
LEMMA NextSecondMatch ==
  ASSUME NEW g \in Local, NEW h \in Local, NEW U \in SUBSET PacketID, NEW V \in SUBSET PacketID,
         NEW R \in SUBSET Result, NEW Q \in SUBSET Result,
         Match(g, h, U, V, R, Q), g.view = "final", ~g.lastDuel, ~g.waiting, g.btnStartClick,
         "RUN_AWAY" \notin U
  PROVE  /\ Match(NextDuelStart(g),
                  h, U, (IF h.open THEN V \union {"START_DUEL_TRUE"} ELSE V), R, Q)
         /\ h.open => Last("START_DUEL_TRUE", V)
  <1> DEFINE g2 == NextDuelStart(g)
  <1> DEFINE U2 == U
  <1> DEFINE W == (IF h.open THEN V \union {"START_DUEL_TRUE"} ELSE V)
  <1> USE DEF Match
  <1>1. g.open
    BY DEF Local, Sound, Screens
  <1>2. /\ g2.view = "duel" /\ g2.waiting = FALSE /\ g2.open = g.open
        /\ g2.server = g.server /\ g2.btnStartClick = g.btnStartClick
        /\ g2.endDuel = FALSE /\ g2.mayStart = g.mayStart /\ g2.lastDuel = g.lastDuel
        /\ g2.tried = g.tried /\ g2.hasFinal = g.hasFinal /\ g2.tally = g.tally
        /\ g2.won = g.won /\ g2.lost = g.lost /\ g2.copies = g.copies
        /\ g2.amount = g.amount /\ g2.money = g.money /\ g2.booked = g.booked
    BY DEF Local, NextDuelStart, Goes
  <1> HIDE DEF g2
  <1>3. Books(g2)
    BY <1>1, <1>2 DEF Sound, Books
  <1>4. Verdict(g2)
    BY <1>1, <1>2 DEF Sound, Books, Verdict, Screens, Toward, Arriving, Scored, Win, Lose, Undecided
  <1>5. Screens(g2)
    BY <1>1, <1>2 DEF PacketID, Sound, Verdict, Screens, Undecided, Decided, Toward, Arriving,
       Together, Ahead, Between, First, Last
  <1>6. Arriving(g2, h, U2, W)
    BY <1>1, <1>2 DEF PacketID, Sound, Verdict, Screens, Undecided, Decided, Toward, Arriving,
       Together, Ahead, Between, First, Last
  <1>7. Arriving(h, g2, W, U2)
    BY <1>1, <1>2 DEF PacketID, Sound, Verdict, Screens, Undecided, Decided, Toward, Arriving,
       Together, Ahead, Between, First, Last
  <1>8. Together(g2, h, U2, W)
    BY <1>1, <1>2 DEF PacketID, Sound, Verdict, Screens, Undecided, Decided, Toward, Arriving,
       Together, Ahead, Between, First, Last, Scored
  <1>9. Together(h, g2, W, U2)
    BY <1>1, <1>2 DEF PacketID, Sound, Verdict, Screens, Undecided, Decided, Toward, Arriving,
       Together, Ahead, Between, First, Last, Scored
  <1>10. Scored(g2, h, U2, W, R)
    BY <1>1, <1>2 DEF Sound, Verdict, Screens, Undecided, Decided, Toward, Arriving, Together, Level,
       Scored, Win, Lose
  <1>11. Scored(h, g2, W, U2, Q)
    BY <1>1, <1>2 DEF Sound, Verdict, Screens, Undecided, Decided, Toward, Arriving, Together, Level,
       Scored, Win, Lose
  <1>12. (g2.open \/ U2 = {}) /\ (h.open \/ W = {})
    BY <1>1, <1>2 DEF Toward, Arriving, Screens, Sound
  <1>13. h.open => Last("START_DUEL_TRUE", V)
    BY <1>1, <1>2 DEF PacketID, Sound, Verdict, Screens, Undecided, Decided, Toward, Arriving,
       Together, Ahead, Between, First, Last
  <1>14. Match(g2, h, U2, W, R, Q)
    BY <1>3, <1>4, <1>5, <1>6, <1>7, <1>8, <1>9, <1>10, <1>11, <1>12, <1>13 DEF Sound, Toward
  <1>15. QED
    BY <1>14, <1>13 DEF g2

\* RunAwayButton.
LEMMA RunAwayMatch ==
  ASSUME NEW g \in Local, NEW h \in Local, NEW U \in SUBSET PacketID, NEW V \in SUBSET PacketID,
         NEW R \in SUBSET Result, NEW Q \in SUBSET Result,
         Match(g, h, U, V, R, Q), g.view = "final", ~g.lastDuel, ~g.waiting, "RUN_AWAY" \notin U
  PROVE  /\ Match([LastScene(LoseScene(g)) EXCEPT !.shot = FALSE, !.tally = NoRounds],
                  h, U, (IF h.open THEN V \union {"RUN_AWAY"} ELSE V), R, Q)
         /\ h.open => Last("RUN_AWAY", V)
  <1> DEFINE g2 == [LastScene(LoseScene(g)) EXCEPT !.shot = FALSE, !.tally = NoRounds]
  <1> DEFINE U2 == U
  <1> DEFINE W == (IF h.open THEN V \union {"RUN_AWAY"} ELSE V)
  <1> USE DEF Match
  <1>1. g.open
    BY DEF Local, Sound, Screens
  <1>2. h.lost = 0
    BY <1>1 DEF Local, Toward, Together, Undecided
  <1>3. h.open => Undecided(h) \/ "SEND_SHOT_TIME" \in V
    BY <1>1, <1>2 DEF PacketID, Sound, Verdict, Screens, Undecided, Decided, Toward, Arriving,
       Together, Ahead, Between, First, Last, Local, View
  <1>4. /\ Kept(g2, g) /\ g2.view = "final" /\ ~g2.waiting /\ g2.hasFinal = TRUE /\ g2.lastDuel = TRUE
        /\ g2.tally = NoRounds /\ g2.won = 0 /\ g2.lost = 1 /\ Books(g2)
    BY RunAwayFacts 
  <1> HIDE DEF g2
  <1>5. Books(g2)
    BY <1>1, <1>2, <1>3, <1>4 DEF Kept, Kept
  <1>6. Verdict(g2)
    BY <1>1, <1>2, <1>3, <1>4 DEF Sound, Books, Verdict, Screens, Toward, Arriving, Scored, Win, Lose,
       Undecided, Kept, NoRounds
  <1>7. Screens(g2)
    BY <1>1, <1>2, <1>3, <1>4 DEF PacketID, Sound, Verdict, Screens, Undecided, Decided, Toward,
       Arriving, Together, Ahead, Between, First, Last, Kept
  <1>8. Arriving(g2, h, U2, W)
    BY <1>1, <1>2, <1>3, <1>4 DEF PacketID, Sound, Verdict, Screens, Undecided, Decided, Toward,
       Arriving, Together, Ahead, Between, First, Last, Kept
  <1>9. Arriving(h, g2, W, U2)
    BY <1>1, <1>2, <1>3, <1>4 DEF PacketID, Sound, Verdict, Screens, Undecided, Decided, Toward,
       Arriving, Together, Ahead, Between, First, Last, Kept
  <1>10. Together(g2, h, U2, W)
    BY <1>1, <1>2, <1>3, <1>4 DEF PacketID, Sound, Verdict, Screens, Undecided, Decided, Toward,
       Arriving, Together, Ahead, Between, First, Last, Scored, Kept
  <1>11. Together(h, g2, W, U2)
    BY <1>1, <1>2, <1>3, <1>4 DEF PacketID, Sound, Verdict, Screens, Undecided, Decided, Toward,
       Arriving, Together, Ahead, Between, First, Last, Scored, Kept
  <1>12. Scored(g2, h, U2, W, R)
    BY <1>1, <1>2, <1>3, <1>4 DEF Sound, Verdict, Screens, Undecided, Decided, Toward, Arriving,
       Together, Level, Scored, Win, Lose, Kept, NoRounds
  <1>13. Scored(h, g2, W, U2, Q)
    BY <1>1, <1>2, <1>3, <1>4 DEF Sound, Verdict, Screens, Undecided, Decided, Toward, Arriving,
       Together, Level, Scored, Win, Lose, Kept, NoRounds
  <1>14. (g2.open \/ U2 = {}) /\ (h.open \/ W = {})
    BY <1>1, <1>2, <1>3, <1>4 DEF Toward, Arriving, Screens, Sound, Kept
  <1>15. h.open => Last("RUN_AWAY", V)
    BY <1>1, <1>2, <1>3, <1>4 DEF PacketID, Sound, Verdict, Screens, Undecided, Decided, Toward,
       Arriving, Together, Ahead, Between, First, Last, Kept
  <1>16. Match(g2, h, U2, W, R, Q)
    BY <1>5, <1>6, <1>7, <1>8, <1>9, <1>10, <1>11, <1>12, <1>13, <1>14, <1>15 DEF Sound, Toward
  <1>17. QED
    BY <1>16, <1>15 DEF g2

\* BackButton, the first to leave.
LEMMA BackMatch ==
  ASSUME NEW g \in Local, NEW h \in Local, NEW U \in SUBSET PacketID, NEW V \in SUBSET PacketID,
         NEW R \in SUBSET Result, NEW Q \in SUBSET Result,
         Match(g, h, U, V, R, Q), g.view = "final", g.lastDuel, ~g.waiting
  PROVE  /\ Match([Goes(g, "list") EXCEPT !.userEndMatch = TRUE, !.money = IF @ < 0 THEN 0 ELSE @],
                  h, U, (IF h.open THEN V \union {"DUEL_CANSEL"} ELSE V), R, Q)
         /\ h.open => Last("DUEL_CANSEL", V)
  <1> DEFINE g2 == [Goes(g, "list") EXCEPT !.userEndMatch = TRUE, !.money = IF @ < 0 THEN 0 ELSE @]
  <1> DEFINE U2 == U
  <1> DEFINE W == (IF h.open THEN V \union {"DUEL_CANSEL"} ELSE V)
  <1> USE DEF Match
  <1>1. g.open /\ ~(g.money < 0)
    BY DEF Local, Sound, Screens, Books
  <1>2. /\ g2.view = "list" /\ g2.waiting = FALSE /\ g2.open = g.open
        /\ g2.server = g.server /\ g2.btnStartClick = g.btnStartClick
        /\ g2.endDuel = g.endDuel /\ g2.mayStart = g.mayStart /\ g2.lastDuel = g.lastDuel
        /\ g2.tried = g.tried /\ g2.hasFinal = g.hasFinal /\ g2.tally = g.tally
        /\ g2.won = g.won /\ g2.lost = g.lost /\ g2.copies = g.copies
        /\ g2.amount = g.amount /\ g2.money = g.money /\ g2.booked = g.booked
    BY <1>1 DEF Local, Goes
  <1> HIDE DEF g2
  <1>3. Books(g2)
    BY <1>1, <1>2 DEF Sound, Books
  <1>4. Verdict(g2)
    BY <1>1, <1>2 DEF Sound, Books, Verdict, Screens, Toward, Arriving, Scored, Win, Lose, Undecided
  <1>5. Screens(g2)
    BY <1>1, <1>2 DEF PacketID, Sound, Verdict, Screens, Undecided, Decided, Toward, Arriving,
       Together, Ahead, Between, First, Last
  <1>6. Arriving(g2, h, U2, W)
    BY <1>1, <1>2 DEF PacketID, Sound, Verdict, Screens, Undecided, Decided, Toward, Arriving,
       Together, Ahead, Between, First, Last
  <1>7. Arriving(h, g2, W, U2)
    BY <1>1, <1>2 DEF PacketID, Sound, Verdict, Screens, Undecided, Decided, Toward, Arriving,
       Together, Ahead, Between, First, Last
  <1>8. Together(g2, h, U2, W)
    BY <1>1, <1>2 DEF PacketID, Sound, Verdict, Screens, Undecided, Decided, Toward, Arriving,
       Together, Ahead, Between, First, Last, Scored
  <1>9. Together(h, g2, W, U2)
    BY <1>1, <1>2 DEF PacketID, Sound, Verdict, Screens, Undecided, Decided, Toward, Arriving,
       Together, Ahead, Between, First, Last, Scored
  <1>10. Scored(g2, h, U2, W, R)
    BY <1>1, <1>2 DEF Sound, Verdict, Screens, Undecided, Decided, Toward, Arriving, Together, Level,
       Scored, Win, Lose
  <1>11. Scored(h, g2, W, U2, Q)
    BY <1>1, <1>2 DEF Sound, Verdict, Screens, Undecided, Decided, Toward, Arriving, Together, Level,
       Scored, Win, Lose
  <1>12. (g2.open \/ U2 = {}) /\ (h.open \/ W = {})
    BY <1>1, <1>2 DEF Toward, Arriving, Screens, Sound
  <1>13. h.open => Last("DUEL_CANSEL", V)
    BY <1>1, <1>2 DEF PacketID, Sound, Verdict, Screens, Undecided, Decided, Toward, Arriving,
       Together, Ahead, Between, First, Last
  <1>14. Match(g2, h, U2, W, R, Q)
    BY <1>3, <1>4, <1>5, <1>6, <1>7, <1>8, <1>9, <1>10, <1>11, <1>12, <1>13 DEF Sound, Toward
  <1>15. QED
    BY <1>14, <1>13 DEF g2

\* BackButton, the second to leave.
LEMMA BackLastMatch ==
  ASSUME NEW g \in Local, NEW h \in Local, NEW U \in SUBSET PacketID, NEW V \in SUBSET PacketID,
         NEW R \in SUBSET Result, NEW Q \in SUBSET Result,
         Match(g, h, U, V, R, Q), g.view = "final", g.lastDuel, ~g.waiting
  PROVE  /\ Match(LostConnection([Goes(g, "list") EXCEPT !.userEndMatch = TRUE,
                                                         !.money = IF @ < 0 THEN 0 ELSE @]),
                  h, {}, (IF h.open THEN V \union {"DUEL_CANSEL"} ELSE V), {}, Q)
         /\ h.open => Last("DUEL_CANSEL", V)
  <1> DEFINE g2 == LostConnection([Goes(g, "list") EXCEPT !.userEndMatch = TRUE,
                                                          !.money = IF @ < 0 THEN 0 ELSE @])
  <1> DEFINE U2 == {}
  <1> DEFINE W == (IF h.open THEN V \union {"DUEL_CANSEL"} ELSE V)
  <1> USE DEF Match
  <1>1. g.open /\ ~(g.money < 0)
    BY DEF Local, Sound, Screens, Books
  <1>2. /\ g2.view = "list" /\ g2.waiting = FALSE /\ g2.open = FALSE
        /\ g2.server = g.server /\ g2.btnStartClick = g.btnStartClick
        /\ g2.endDuel = g.endDuel /\ g2.mayStart = g.mayStart /\ g2.lastDuel = g.lastDuel
        /\ g2.tried = g.tried /\ g2.hasFinal = g.hasFinal /\ g2.tally = g.tally
        /\ g2.won = g.won /\ g2.lost = g.lost /\ g2.copies = g.copies
        /\ g2.amount = g.amount /\ g2.money = g.money /\ g2.booked = g.booked
    BY <1>1, ZenonT(60) DEF Local, Goes, LostConnection
  <1> HIDE DEF g2
  <1>3. Books(g2)
    BY <1>1, <1>2 DEF Sound, Books
  <1>4. Verdict(g2)
    BY <1>1, <1>2 DEF Sound, Books, Verdict, Screens, Toward, Arriving, Scored, Win, Lose, Undecided
  <1>5. Screens(g2)
    BY <1>1, <1>2 DEF PacketID, Sound, Verdict, Screens, Undecided, Decided, Toward, Arriving,
       Together, Ahead, Between, First, Last
  <1>6. Arriving(g2, h, U2, W)
    BY <1>1, <1>2 DEF PacketID, Sound, Verdict, Screens, Undecided, Decided, Toward, Arriving,
       Together, Ahead, Between, First, Last
  <1>7. Arriving(h, g2, W, U2)
    BY <1>1, <1>2 DEF PacketID, Sound, Verdict, Screens, Undecided, Decided, Toward, Arriving,
       Together, Ahead, Between, First, Last
  <1>8. Together(g2, h, U2, W)
    BY <1>1, <1>2 DEF PacketID, Sound, Verdict, Screens, Undecided, Decided, Toward, Arriving,
       Together, Ahead, Between, First, Last, Scored
  <1>9. Together(h, g2, W, U2)
    BY <1>1, <1>2 DEF PacketID, Sound, Verdict, Screens, Undecided, Decided, Toward, Arriving,
       Together, Ahead, Between, First, Last, Scored
  <1>10. Scored(g2, h, U2, W, {})
    BY <1>1, <1>2 DEF Sound, Verdict, Screens, Undecided, Decided, Toward, Arriving, Together, Level,
       Scored, Win, Lose
  <1>11. Scored(h, g2, W, U2, Q)
    BY <1>1, <1>2 DEF Sound, Verdict, Screens, Undecided, Decided, Toward, Arriving, Together, Level,
       Scored, Win, Lose
  <1>12. (g2.open \/ U2 = {}) /\ (h.open \/ W = {})
    BY <1>1, <1>2 DEF Toward, Arriving, Screens, Sound
  <1>13. h.open => Last("DUEL_CANSEL", V)
    BY <1>1, <1>2 DEF PacketID, Sound, Verdict, Screens, Undecided, Decided, Toward, Arriving,
       Together, Ahead, Between, First, Last
  <1>14. Match(g2, h, U2, W, {}, Q)
    BY <1>3, <1>4, <1>5, <1>6, <1>7, <1>8, <1>9, <1>10, <1>11, <1>12, <1>13 DEF Sound, Toward
  <1>15. QED
    BY <1>14, <1>13 DEF g2

\* TryButton.
LEMMA TryMatch ==
  ASSUME NEW g \in Local, NEW h \in Local, NEW U \in SUBSET PacketID, NEW V \in SUBSET PacketID,
         NEW R \in SUBSET Result, NEW Q \in SUBSET Result,
         Match(g, h, U, V, R, Q), NEW t \in Nat, g.view = "final", g.lastDuel, ~g.waiting,
         "START_DUEL" \notin U, ~g.tried
  PROVE  /\ Match([MatchStarted(g) EXCEPT !.randomTime = t, !.waiting = TRUE, !.won = 0,
                                          !.lost = 0, !.tried = TRUE],
                  h, U, (IF h.open THEN V \union {"TIME_TRY"} ELSE V), R, Q)
         /\ h.open => Last("TIME_TRY", V)
  <1> DEFINE g2 == [MatchStarted(g) EXCEPT !.randomTime = t, !.waiting = TRUE, !.won = 0,
                                           !.lost = 0, !.tried = TRUE]
  <1> DEFINE U2 == U
  <1> DEFINE W == (IF h.open THEN V \union {"TIME_TRY"} ELSE V)
  <1> USE DEF Match
  <1>1. g.open
    BY DEF Local, Sound, Screens
  <1>2. /\ g2.view = g.view /\ g2.waiting = TRUE /\ g2.open = g.open
        /\ g2.server = g.server /\ g2.btnStartClick = FALSE /\ g2.endDuel = FALSE
        /\ g2.mayStart = g.mayStart /\ g2.lastDuel = g.lastDuel /\ g2.tried = TRUE
        /\ g2.hasFinal = g.hasFinal /\ g2.tally = NoRounds /\ g2.won = 0 /\ g2.lost = 0
        /\ g2.copies = g.copies /\ g2.amount = g.amount /\ g2.money = g.money
        /\ g2.booked = g.booked
    BY DEF Local, MatchStarted
  <1> HIDE DEF g2
  <1>3. Books(g2)
    BY <1>1, <1>2 DEF Sound, Books
  <1>4. Verdict(g2)
    BY <1>1, <1>2 DEF Sound, Books, Verdict, Screens, Toward, Arriving, Scored, Win, Lose, Undecided,
       NoRounds
  <1>5. Screens(g2)
    BY <1>1, <1>2 DEF PacketID, Sound, Verdict, Screens, Undecided, Decided, Toward, Arriving,
       Together, Ahead, Between, First, Last
  <1>6. Arriving(g2, h, U2, W)
    BY <1>1, <1>2 DEF PacketID, Sound, Verdict, Screens, Undecided, Decided, Toward, Arriving,
       Together, Ahead, Between, First, Last
  <1>7. Arriving(h, g2, W, U2)
    BY <1>1, <1>2 DEF PacketID, Sound, Verdict, Screens, Undecided, Decided, Toward, Arriving,
       Together, Ahead, Between, First, Last
  <1>8. Together(g2, h, U2, W)
    BY <1>1, <1>2 DEF PacketID, Sound, Verdict, Screens, Undecided, Decided, Toward, Arriving,
       Together, Ahead, Between, First, Last, Scored
  <1>9. Together(h, g2, W, U2)
    BY <1>1, <1>2 DEF PacketID, Sound, Verdict, Screens, Undecided, Decided, Toward, Arriving,
       Together, Ahead, Between, First, Last, Scored
  <1>10. Scored(g2, h, U2, W, R)
    BY <1>1, <1>2 DEF Sound, Verdict, Screens, Undecided, Decided, Toward, Arriving, Together, Level,
       Scored, Win, Lose, NoRounds
  <1>11. Scored(h, g2, W, U2, Q)
    BY <1>1, <1>2 DEF Sound, Verdict, Screens, Undecided, Decided, Toward, Arriving, Together, Level,
       Scored, Win, Lose, NoRounds
  <1>12. (g2.open \/ U2 = {}) /\ (h.open \/ W = {})
    BY <1>1, <1>2 DEF Toward, Arriving, Screens, Sound
  <1>13. h.open => Last("TIME_TRY", V)
    BY <1>1, <1>2 DEF PacketID, Sound, Verdict, Screens, Undecided, Decided, Toward, Arriving,
       Together, Ahead, Between, First, Last
  <1>14. Match(g2, h, U2, W, R, Q)
    BY <1>3, <1>4, <1>5, <1>6, <1>7, <1>8, <1>9, <1>10, <1>11, <1>12, <1>13 DEF Sound, Toward
  <1>15. QED
    BY <1>14, <1>13 DEF g2

\* Hit.
LEMMA HitMatch ==
  ASSUME NEW g \in Local, NEW h \in Local, NEW U \in SUBSET PacketID, NEW V \in SUBSET PacketID,
         NEW R \in SUBSET Result, NEW Q \in SUBSET Result,
         Match(g, h, U, V, R, Q), g.view = "duel", g.open, ~g.endDuel
  PROVE  Match([g EXCEPT !.shot = TRUE, !.btnStartClick = FALSE], h, U, V, R, Q)
  <1> DEFINE g2 == [g EXCEPT !.shot = TRUE, !.btnStartClick = FALSE]
  <1> DEFINE U2 == U
  <1> DEFINE W == V
  <1> USE DEF Match
  <1>1. /\ g2.view = g.view /\ g2.waiting = g.waiting /\ g2.open = g.open
        /\ g2.server = g.server /\ g2.btnStartClick = FALSE /\ g2.endDuel = g.endDuel
        /\ g2.mayStart = g.mayStart /\ g2.lastDuel = g.lastDuel /\ g2.tried = g.tried
        /\ g2.hasFinal = g.hasFinal /\ g2.tally = g.tally /\ g2.won = g.won
        /\ g2.lost = g.lost /\ g2.copies = g.copies /\ g2.amount = g.amount
        /\ g2.money = g.money /\ g2.booked = g.booked
    BY DEF Local
  <1> HIDE DEF g2
  <1>2. Books(g2)
    BY <1>1 DEF Sound, Books
  <1>3. Verdict(g2)
    BY <1>1 DEF Sound, Books, Verdict, Screens, Toward, Arriving, Scored, Win, Lose, Undecided
  <1>4. Screens(g2)
    BY <1>1 DEF PacketID, Sound, Verdict, Screens, Undecided, Decided, Toward, Arriving, Together,
       Ahead, Between, First, Last
  <1>5. Arriving(g2, h, U2, W)
    BY <1>1 DEF PacketID, Sound, Verdict, Screens, Undecided, Decided, Toward, Arriving, Together,
       Ahead, Between, First, Last
  <1>6. Arriving(h, g2, W, U2)
    BY <1>1 DEF PacketID, Sound, Verdict, Screens, Undecided, Decided, Toward, Arriving, Together,
       Ahead, Between, First, Last
  <1>7. Together(g2, h, U2, W)
    BY <1>1 DEF PacketID, Sound, Verdict, Screens, Undecided, Decided, Toward, Arriving, Together,
       Ahead, Between, First, Last, Scored
  <1>8. Together(h, g2, W, U2)
    BY <1>1 DEF PacketID, Sound, Verdict, Screens, Undecided, Decided, Toward, Arriving, Together,
       Ahead, Between, First, Last, Scored
  <1>9. Scored(g2, h, U2, W, R)
    BY <1>1 DEF Sound, Verdict, Screens, Undecided, Decided, Toward, Arriving, Together, Level,
       Scored, Win, Lose
  <1>10. Scored(h, g2, W, U2, Q)
    BY <1>1 DEF Sound, Verdict, Screens, Undecided, Decided, Toward, Arriving, Together, Level,
       Scored, Win, Lose
  <1>11. (g2.open \/ U2 = {}) /\ (h.open \/ W = {})
    BY <1>1 DEF Toward, Arriving, Screens, Sound
  <1>12. Match(g2, h, U2, W, R, Q)
    BY <1>2, <1>3, <1>4, <1>5, <1>6, <1>7, <1>8, <1>9, <1>10, <1>11 DEF Sound, Toward
  <1>13. QED
    BY <1>12 DEF g2

\* LinkLost.
LEMMA LinkLostMatch ==
  ASSUME NEW g \in Local, NEW h \in Local, NEW U \in SUBSET PacketID, NEW V \in SUBSET PacketID,
         NEW R \in SUBSET Result, NEW Q \in SUBSET Result,
         Match(g, h, U, V, R, Q), g.open, ~h.open, U = {}
  PROVE  Match(LostConnection(g), h, {}, V, {}, Q)
  <1> DEFINE g2 == LostConnection(g)
  <1> DEFINE U2 == {}
  <1> DEFINE W == V
  <1> USE DEF Match
  <1>1. /\ g2.view = "list" /\ g2.waiting = FALSE /\ g2.open = FALSE
        /\ g2.server = g.server /\ g2.btnStartClick = g.btnStartClick
        /\ g2.endDuel = g.endDuel /\ g2.mayStart = g.mayStart /\ g2.lastDuel = g.lastDuel
        /\ g2.tried = g.tried /\ g2.hasFinal = g.hasFinal /\ g2.tally = g.tally
        /\ g2.won = g.won /\ g2.lost = g.lost /\ g2.copies = g.copies
        /\ g2.amount = g.amount /\ g2.money = g.money /\ g2.booked = g.booked
    BY DEF Local, LostConnection, Goes
  <1> HIDE DEF g2
  <1>2. Books(g2)
    BY <1>1 DEF Sound, Books
  <1>3. Verdict(g2)
    BY <1>1 DEF Sound, Books, Verdict, Screens, Toward, Arriving, Scored, Win, Lose, Undecided
  <1>4. Screens(g2)
    BY <1>1 DEF PacketID, Sound, Verdict, Screens, Undecided, Decided, Toward, Arriving, Together,
       Ahead, Between, First, Last
  <1>5. Arriving(g2, h, U2, W)
    BY <1>1 DEF PacketID, Sound, Verdict, Screens, Undecided, Decided, Toward, Arriving, Together,
       Ahead, Between, First, Last
  <1>6. Arriving(h, g2, W, U2)
    BY <1>1 DEF PacketID, Sound, Verdict, Screens, Undecided, Decided, Toward, Arriving, Together,
       Ahead, Between, First, Last
  <1>7. Together(g2, h, U2, W)
    BY <1>1 DEF PacketID, Sound, Verdict, Screens, Undecided, Decided, Toward, Arriving, Together,
       Ahead, Between, First, Last, Scored
  <1>8. Together(h, g2, W, U2)
    BY <1>1 DEF PacketID, Sound, Verdict, Screens, Undecided, Decided, Toward, Arriving, Together,
       Ahead, Between, First, Last, Scored
  <1>9. Scored(g2, h, U2, W, {})
    BY <1>1 DEF Sound, Verdict, Screens, Undecided, Decided, Toward, Arriving, Together, Level,
       Scored, Win, Lose
  <1>10. Scored(h, g2, W, U2, Q)
    BY <1>1 DEF Sound, Verdict, Screens, Undecided, Decided, Toward, Arriving, Together, Level,
       Scored, Win, Lose
  <1>11. (g2.open \/ U2 = {}) /\ (h.open \/ W = {})
    BY <1>1 DEF Toward, Arriving, Screens, Sound
  <1>12. Match(g2, h, U2, W, {}, Q)
    BY <1>2, <1>3, <1>4, <1>5, <1>6, <1>7, <1>8, <1>9, <1>10, <1>11 DEF Sound, Toward
  <1>13. QED
    BY <1>12 DEF g2

\* DuelBackButton.
LEMMA LeaveDuelMatch ==
  ASSUME NEW g \in Local, NEW h \in Local, NEW U \in SUBSET PacketID, NEW V \in SUBSET PacketID,
         NEW R \in SUBSET Result, NEW Q \in SUBSET Result,
         Match(g, h, U, V, R, Q), g.open, g.view = "duel"
  PROVE  Match(LostConnection(g), h, {}, V, {}, Q)
  <1> DEFINE g2 == LostConnection(g)
  <1> DEFINE U2 == {}
  <1> DEFINE W == V
  <1> USE DEF Match
  <1>1. /\ g2.view = "list" /\ g2.waiting = FALSE /\ g2.open = FALSE
        /\ g2.server = g.server /\ g2.btnStartClick = g.btnStartClick
        /\ g2.endDuel = g.endDuel /\ g2.mayStart = g.mayStart /\ g2.lastDuel = g.lastDuel
        /\ g2.tried = g.tried /\ g2.hasFinal = g.hasFinal /\ g2.tally = g.tally
        /\ g2.won = g.won /\ g2.lost = g.lost /\ g2.copies = g.copies
        /\ g2.amount = g.amount /\ g2.money = g.money /\ g2.booked = g.booked
    BY DEF Local, LostConnection, Goes
  <1> HIDE DEF g2
  <1>2. Books(g2)
    BY <1>1 DEF Sound, Books
  <1>3. Verdict(g2)
    BY <1>1 DEF Sound, Books, Verdict, Screens, Toward, Arriving, Scored, Win, Lose, Undecided
  <1>4. Screens(g2)
    BY <1>1 DEF PacketID, Sound, Verdict, Screens, Undecided, Decided, Toward, Arriving, Together,
       Ahead, Between, First, Last
  <1>5. Arriving(g2, h, U2, W)
    BY <1>1 DEF PacketID, Sound, Verdict, Screens, Undecided, Decided, Toward, Arriving, Together,
       Ahead, Between, First, Last
  <1>6. Arriving(h, g2, W, U2)
    BY <1>1 DEF PacketID, Sound, Verdict, Screens, Undecided, Decided, Toward, Arriving, Together,
       Ahead, Between, First, Last
  <1>7. Together(g2, h, U2, W)
    BY <1>1 DEF PacketID, Sound, Verdict, Screens, Undecided, Decided, Toward, Arriving, Together,
       Ahead, Between, First, Last, Scored
  <1>8. Together(h, g2, W, U2)
    BY <1>1 DEF PacketID, Sound, Verdict, Screens, Undecided, Decided, Toward, Arriving, Together,
       Ahead, Between, First, Last, Scored
  <1>9. Scored(g2, h, U2, W, {})
    BY <1>1 DEF Sound, Verdict, Screens, Undecided, Decided, Toward, Arriving, Together, Level,
       Scored, Win, Lose
  <1>10. Scored(h, g2, W, U2, Q)
    BY <1>1 DEF Sound, Verdict, Screens, Undecided, Decided, Toward, Arriving, Together, Level,
       Scored, Win, Lose
  <1>11. (g2.open \/ U2 = {}) /\ (h.open \/ W = {})
    BY <1>1 DEF Toward, Arriving, Screens, Sound
  <1>12. Match(g2, h, U2, W, {}, Q)
    BY <1>2, <1>3, <1>4, <1>5, <1>6, <1>7, <1>8, <1>9, <1>10, <1>11 DEF Sound, Toward
  <1>13. QED
    BY <1>12 DEF g2

\* FirstToSettle.
LEMMA FirstToSettleMatch ==
  ASSUME NEW g \in Local, NEW h \in Local, NEW U \in SUBSET PacketID, NEW V \in SUBSET PacketID,
         NEW R \in SUBSET Result, NEW Q \in SUBSET Result,
         Match(g, h, U, V, R, Q), NEW r \in Result \ {"none"}, g.view = "duel", g.open,
         h.view = "duel", h.open, U = {}
  PROVE  /\ Match(Settled(g, r), h, U, (V \union {"SEND_SHOT_TIME"}), R, (Q \union {Opposite(r)}))
         /\ h.open => Last("SEND_SHOT_TIME", V)
  <1> DEFINE g2 == Settled(g, r)
  <1> DEFINE U2 == U
  <1> DEFINE W == (V \union {"SEND_SHOT_TIME"})
  <1> USE DEF Match
  <1>1. ~g.tried
    BY DEF Sound, Screens
  <1>2. g.won = 0 /\ g.lost = 0 /\ g.tally.win < 2 /\ g.tally.lose < 2
    BY <1>1, NotYet DEF Sound, Decided, Undecided
  <1>3. Win(g, r) \in 0 .. 2 /\ Lose(g, r) \in 0 .. 2 /\ ~(Win(g, r) = 2 /\ Lose(g, r) = 2)
    BY <1>1, <1>2, FieldTypes DEF Win, Lose
  <1>4. h.won = 0 /\ h.lost = 0 /\ h.tally.win < 2 /\ h.tally.lose < 2
    BY <1>1, <1>2, <1>3, NotYet DEF Sound, Decided, Undecided
  <1>5. "SEND_SHOT_TIME" \notin V /\ "RUN_AWAY" \notin V /\ "TIME_TRY" \notin V
    BY <1>1, <1>2, <1>3, <1>4 DEF Toward, Arriving, Undecided
  <1>6. g.tally.win = h.tally.lose /\ g.tally.lose = h.tally.win
    BY <1>1, <1>2, <1>3, <1>4, <1>5 DEF Toward, Scored, Level
  <1>7. Win(h, Opposite(r)) = Lose(g, r) /\ Lose(h, Opposite(r)) = Win(g, r)
        /\ Opposite(r) # "none" /\ Q = {}
    BY <1>1, <1>2, <1>3, <1>4, <1>5, <1>6 DEF Win, Lose, Opposite, Result, Toward, Scored
  <1>8. /\ g2.open = g.open /\ g2.server = g.server /\ g2.mayStart = g.mayStart /\ g2.tried = g.tried
        /\ g2.endDuel = TRUE /\ g2.btnStartClick = FALSE /\ g2.view = "final" /\ ~g2.waiting
        /\ g2.hasFinal = TRUE
        /\ g2.tally.win = Win(g, r) /\ g2.tally.lose = Lose(g, r)
        /\ g2.tally.number = g2.tally.win + g2.tally.lose
        /\ g2.lastDuel <=> (Win(g, r) = 2 \/ Lose(g, r) = 2)
        /\ g2.won = (IF Win(g, r) = 2 THEN 1 ELSE 0) /\ g2.lost = (IF Lose(g, r) = 2 THEN 1 ELSE 0)
        /\ Books(g2)
    BY SettledFacts 
  <1> HIDE DEF g2
  <1>9. Books(g2)
    BY <1>1, <1>2, <1>3, <1>4, <1>5, <1>6, <1>7, <1>8 DEF Sound, Books, Kept
  <1>10. Verdict(g2)
    BY <1>1, <1>2, <1>3, <1>4, <1>5, <1>6, <1>7, <1>8 DEF Verdict, Kept
  <1>11. Screens(g2)
    BY <1>1, <1>2, <1>3, <1>4, <1>5, <1>6, <1>7, <1>8 DEF PacketID, Sound, Verdict, Screens,
       Undecided, Decided, Toward, Arriving, Together, Ahead, Between, First, Last, Kept
  <1>12. Arriving(g2, h, U2, W)
    BY <1>1, <1>2, <1>3, <1>4, <1>5, <1>6, <1>7, <1>8 DEF PacketID, Sound, Verdict, Screens,
       Undecided, Decided, Toward, Arriving, Together, Ahead, Between, First, Last, Kept
  <1>13. Arriving(h, g2, W, U2)
    BY <1>1, <1>2, <1>3, <1>4, <1>5, <1>6, <1>7, <1>8 DEF PacketID, Sound, Verdict, Screens,
       Undecided, Decided, Toward, Arriving, Together, Ahead, Between, First, Last, Kept
  <1>14. Together(g2, h, U2, W)
    BY <1>1, <1>2, <1>3, <1>4, <1>5, <1>6, <1>7, <1>8 DEF PacketID, Sound, Verdict, Screens,
       Undecided, Decided, Toward, Arriving, Together, Ahead, Between, First, Last, Scored, Kept
  <1>15. Together(h, g2, W, U2)
    BY <1>1, <1>2, <1>3, <1>4, <1>5, <1>6, <1>7, <1>8 DEF PacketID, Sound, Verdict, Screens,
       Undecided, Decided, Toward, Arriving, Together, Ahead, Between, First, Last, Scored, Kept
  <1>16. Scored(g2, h, U2, W, R)
    BY <1>1, <1>2, <1>3, <1>4, <1>5, <1>6, <1>7, <1>8 DEF Sound, Verdict, Screens, Undecided, Decided,
       Toward, Arriving, Together, Level, Scored, Win, Lose, Kept
  <1>17. Scored(h, g2, W, U2, (Q \union {Opposite(r)}))
    BY <1>1, <1>2, <1>3, <1>4, <1>5, <1>6, <1>7, <1>8 DEF Undecided, Level, Scored, Kept
  <1>18. (g2.open \/ U2 = {}) /\ (h.open \/ W = {})
    BY <1>1, <1>2, <1>3, <1>4, <1>5, <1>6, <1>7, <1>8 DEF Toward, Arriving, Screens, Sound, Kept
  <1>19. h.open => Last("SEND_SHOT_TIME", V)
    BY <1>1, <1>2, <1>3, <1>4, <1>5, <1>6, <1>7, <1>8 DEF PacketID, Sound, Verdict, Screens,
       Undecided, Decided, Toward, Arriving, Together, Ahead, Between, First, Last, Kept
  <1>20. Match(g2, h, U2, W, R, (Q \union {Opposite(r)}))
    BY <1>9, <1>10, <1>11, <1>12, <1>13, <1>14, <1>15, <1>16, <1>17, <1>18, <1>19 DEF Sound, Toward
  <1>21. QED
    BY <1>20, <1>19 DEF g2

\* ReceiveShotTime.
LEMMA ReceiveShotTimeMatch ==
  ASSUME NEW g \in Local, NEW h \in Local, NEW U \in SUBSET PacketID, NEW V \in SUBSET PacketID,
         NEW R \in SUBSET Result, NEW Q \in SUBSET Result,
         Match(g, h, U, V, R, Q), NEW r \in R, g.open, First("SEND_SHOT_TIME", U)
  PROVE  Match(Settled(g, r), h, (U \ {"SEND_SHOT_TIME"}), V, {}, Q)
  <1> DEFINE g2 == Settled(g, r)
  <1> DEFINE U2 == (U \ {"SEND_SHOT_TIME"})
  <1> DEFINE W == V
  <1> USE DEF Match
  <1>1. "SEND_SHOT_TIME" \in U
        /\ U \intersect {"TIME", "OPONTYPE_RESPONSE", "START_DUEL_TRUE", "OPONTYPE_RESPONSE_TRY"} = {}
    BY DEF First, Ahead, Between
  <1>2. g.view = "duel" /\ V = {} /\ h.view \in {"final", "list"}
    BY <1>1 DEF Toward, Arriving
  <1>3. r \in Result \ {"none"}
    BY <1>1, <1>2 DEF Toward, Scored
  <1>4. g.won = 0 /\ g.lost = 0 /\ g.tally.win < 2 /\ g.tally.lose < 2
    BY <1>1, <1>2, <1>3, NotYet DEF Sound, Decided, Undecided
  <1>5. Win(g, r) \in 0 .. 2 /\ Lose(g, r) \in 0 .. 2 /\ ~(Win(g, r) = 2 /\ Lose(g, r) = 2)
    BY <1>1, <1>2, <1>3, <1>4, FieldTypes DEF Win, Lose
  <1>6. h.lost > 0 => h.lastDuel
    BY <1>1, <1>2, <1>3, <1>4, <1>5, NotYet DEF Sound, Decided
  <1>7. ~g.tried
    BY <1>1, <1>2, <1>3, <1>4, <1>5, <1>6 DEF Sound, Screens
  <1>8. /\ (Win(g, r) = 2 \/ Lose(g, r) = 2) <=> (h.lastDuel /\ "RUN_AWAY" \notin U)
        /\ Win(g, r) = 2 => h.won = 0
        /\ Lose(g, r) = 2 => h.lost = 0
        /\ Undecided(h) => Win(g, r) = h.tally.lose /\ Lose(g, r) = h.tally.win
    BY <1>1, <1>2, <1>3, <1>4, <1>5, <1>6, <1>7 DEF Toward, Scored
  <1>9. /\ g2.open = g.open /\ g2.server = g.server /\ g2.mayStart = g.mayStart /\ g2.tried = g.tried
        /\ g2.endDuel = TRUE /\ g2.btnStartClick = FALSE /\ g2.view = "final" /\ ~g2.waiting
        /\ g2.hasFinal = TRUE
        /\ g2.tally.win = Win(g, r) /\ g2.tally.lose = Lose(g, r)
        /\ g2.tally.number = g2.tally.win + g2.tally.lose
        /\ g2.lastDuel <=> (Win(g, r) = 2 \/ Lose(g, r) = 2)
        /\ g2.won = (IF Win(g, r) = 2 THEN 1 ELSE 0) /\ g2.lost = (IF Lose(g, r) = 2 THEN 1 ELSE 0)
        /\ Books(g2)
    BY <1>2, <1>3, SettledFacts 
  <1> HIDE DEF g2
  <1>10. Books(g2)
    BY <1>1, <1>2, <1>3, <1>4, <1>5, <1>6, <1>7, <1>8, <1>9 DEF Sound, Books, Kept
  <1>11. Verdict(g2)
    BY <1>1, <1>2, <1>3, <1>4, <1>5, <1>6, <1>7, <1>8, <1>9 DEF Verdict, Kept
  <1>12. Screens(g2)
    BY <1>1, <1>2, <1>3, <1>4, <1>5, <1>6, <1>7, <1>8, <1>9 DEF PacketID, Sound, Verdict, Screens,
       Undecided, Decided, Toward, Arriving, Together, Ahead, Between, First, Last, Kept
  <1>13. Arriving(g2, h, U2, W)
    BY <1>1, <1>2, <1>3, <1>4, <1>5, <1>6, <1>7, <1>8, <1>9 DEF PacketID, Sound, Verdict, Screens,
       Undecided, Decided, Toward, Arriving, Together, Ahead, Between, First, Last, Kept
  <1>14. Arriving(h, g2, W, U2)
    BY <1>1, <1>2, <1>3, <1>4, <1>5, <1>6, <1>7, <1>8, <1>9 DEF PacketID, Sound, Verdict, Screens,
       Undecided, Decided, Toward, Arriving, Together, Ahead, Between, First, Last, Kept
  <1>15. Together(g2, h, U2, W)
    BY <1>1, <1>2, <1>3, <1>4, <1>5, <1>6, <1>7, <1>8, <1>9 DEF PacketID, Sound, Verdict, Screens,
       Undecided, Decided, Toward, Arriving, Together, Ahead, Between, First, Last, Scored, Kept
  <1>16. Together(h, g2, W, U2)
    BY <1>1, <1>2, <1>3, <1>4, <1>5, <1>6, <1>7, <1>8, <1>9 DEF PacketID, Sound, Verdict, Screens,
       Undecided, Decided, Toward, Arriving, Together, Ahead, Between, First, Last, Scored, Kept
  <1>17. Scored(g2, h, U2, W, {})
    BY <1>1, <1>2, <1>3, <1>4, <1>5, <1>6, <1>7, <1>8, <1>9 DEF Sound, Verdict, Screens, Undecided,
       Decided, Toward, Arriving, Together, Level, Scored, Win, Lose, Kept
  <1>18. Scored(h, g2, W, U2, Q)
    BY <1>1, <1>2, <1>3, <1>4, <1>5, <1>6, <1>7, <1>8, <1>9 DEF Sound, Verdict, Screens, Undecided,
       Decided, Toward, Arriving, Together, Level, Scored, Win, Lose, Kept
  <1>19. (g2.open \/ U2 = {}) /\ (h.open \/ W = {})
    BY <1>1, <1>2, <1>3, <1>4, <1>5, <1>6, <1>7, <1>8, <1>9 DEF Toward, Arriving, Screens, Sound, Kept
  <1>20. Match(g2, h, U2, W, {}, Q)
    BY <1>10, <1>11, <1>12, <1>13, <1>14, <1>15, <1>16, <1>17, <1>18, <1>19 DEF Sound, Toward
  <1>21. QED
    BY <1>20 DEF g2

\* The fields of a phone whose match starts.
LEMMA MatchStartedFields ==
  ASSUME NEW g \in Local
  PROVE  LET b == MatchStarted(g) IN
         /\ b.open = g.open /\ b.btnStartClick = FALSE /\ b.endDuel = FALSE
         /\ b.lastDuel = g.lastDuel /\ b.tried = g.tried /\ b.hasFinal = g.hasFinal
         /\ b.tally = NoRounds /\ b.won = g.won /\ b.lost = g.lost /\ b.copies = g.copies
         /\ b.amount = g.amount /\ b.money = g.money /\ b.booked = g.booked
  BY DEF Local, MatchStarted

\* The fields of a phone that shows another screen.
LEMMA GoesFields ==
  ASSUME NEW g \in Local, NEW v \in View
  PROVE  LET s == Goes(g, v) IN
         /\ s.view = v /\ s.waiting = FALSE
         /\ s.open = g.open /\ s.btnStartClick = g.btnStartClick /\ s.endDuel = g.endDuel
         /\ s.lastDuel = g.lastDuel /\ s.tried = g.tried /\ s.hasFinal = g.hasFinal
         /\ s.tally = g.tally /\ s.won = g.won /\ s.lost = g.lost /\ s.copies = g.copies
         /\ s.amount = g.amount /\ s.money = g.money /\ s.booked = g.booked
  BY DEF Local, Goes

\* What a phone that has received TIME tells of itself.
LEMMA MetFields ==
  ASSUME NEW g \in Local, NEW m \in Int, NEW t \in Nat
  PROVE  LET f == Met(g, m, t) IN f.money = g.money /\ f.randomTime = t
  <1> DEFINE b == MatchStarted(g)
             s == Goes(b, "start")
  <1>1. b \in Local /\ s \in Local
    BY MatchStartedType, GoesType, ViewType
  <1>2. b.money = g.money
    BY MatchStartedFields
  <1> HIDE DEF b
  <1>3. s.money = b.money
    BY <1>1, GoesFields, ViewType
  <1> HIDE DEF s
  <1>4. LET f == [s EXCEPT !.server = FALSE, !.opMoney = m, !.randomTime = t,
                           !.serverType = TRUE, !.mayStart = TRUE]
        IN  f.money = s.money /\ f.randomTime = t
    BY <1>1 DEF Local
  <1>5. QED
    BY <1>2, <1>3, <1>4 DEF s, b, Met

\* The asked phone of a further duel.
LEMMA ReadyFields ==
  ASSUME NEW g \in Local, NEW m \in Int
  PROVE  LET s == Ready(g, m) IN s.server = TRUE /\ s.btnStartClick = g.btnStartClick
  <1> DEFINE b == Goes(g, "start")
             y == b.mayStart /\ g.view = "start"
  <1>1. b \in Local /\ b.btnStartClick = g.btnStartClick
    BY GoesType, GoesFields, ViewType
  <1> HIDE DEF b, y
  <1>2. LET s == [b EXCEPT !.endDuel = FALSE, !.server = TRUE, !.opMoney = m, !.mayStart = y,
                           !.tried = FALSE]
        IN  s.server = TRUE /\ s.btnStartClick = b.btnStartClick
    BY <1>1 DEF Local
  <1>3. QED
    BY <1>1, <1>2 DEF b, y, Ready

\* ReceiveTime.
LEMMA ReceiveTimeMatch ==
  ASSUME NEW g \in Local, NEW h \in Local, NEW U \in SUBSET PacketID, NEW V \in SUBSET PacketID,
         NEW R \in SUBSET Result, NEW Q \in SUBSET Result,
         Match(g, h, U, V, R, Q), NEW m \in Int, NEW t \in Nat, g.open, First("TIME", U)
  PROVE  /\ Match(Met(g, m, t),
                  h, (U \ {"TIME"}), (IF h.open THEN V \union {"OPONTYPE_RESPONSE"} ELSE V), R, Q)
         /\ h.open => Last("OPONTYPE_RESPONSE", V)
  <1> DEFINE g2 == Met(g, m, t)
  <1> DEFINE U2 == (U \ {"TIME"})
  <1> DEFINE W == (IF h.open THEN V \union {"OPONTYPE_RESPONSE"} ELSE V)
  <1> USE DEF Match
  <1>1. "TIME" \in U
        /\ U \intersect {"OPONTYPE_RESPONSE", "SEND_SHOT_TIME", "RUN_AWAY", "START_DUEL_TRUE",
           "START_DUEL", "OPONTYPE_RESPONSE_TRY", "TIME_TRY", "DUEL_CANSEL"} = {}
    BY DEF First, Ahead, Between
  <1>2. g.view = "list" /\ ~g.lastDuel /\ V = {} /\ ~h.lastDuel /\ (h.view = "list"
        \/ (h.view = "start" /\ ~h.btnStartClick /\ ~h.waiting))
    BY <1>1 DEF Toward, Arriving
  <1>3. g.won = 0 /\ g.lost = 0 /\ g.tally.win < 2 /\ g.tally.lose < 2
    BY <1>1, <1>2, NotYet DEF Sound, Decided, Undecided
  <1>4. /\ g2.view = "start" /\ g2.waiting = FALSE /\ g2.open = g.open
        /\ g2.server = FALSE /\ g2.btnStartClick = FALSE /\ g2.endDuel = FALSE
        /\ g2.mayStart = TRUE /\ g2.lastDuel = g.lastDuel /\ g2.tried = g.tried
        /\ g2.hasFinal = g.hasFinal /\ g2.tally = NoRounds /\ g2.won = g.won
        /\ g2.lost = g.lost /\ g2.copies = g.copies /\ g2.amount = g.amount
        /\ g2.money = g.money /\ g2.booked = g.booked
    <2> DEFINE b == MatchStarted(g)
               s == Goes(b, "start")
    <2>1. b \in Local /\ s \in Local
      BY MatchStartedType, GoesType, ViewType
    <2>2. /\ b.open = g.open /\ b.btnStartClick = FALSE /\ b.endDuel = FALSE
          /\ b.lastDuel = g.lastDuel /\ b.tried = g.tried /\ b.hasFinal = g.hasFinal
          /\ b.tally = NoRounds /\ b.won = g.won /\ b.lost = g.lost /\ b.copies = g.copies
          /\ b.amount = g.amount /\ b.money = g.money /\ b.booked = g.booked
      BY MatchStartedFields
    <2> HIDE DEF b
    <2>3. /\ s.view = "start" /\ s.waiting = FALSE
          /\ s.open = b.open /\ s.btnStartClick = b.btnStartClick /\ s.endDuel = b.endDuel
          /\ s.lastDuel = b.lastDuel /\ s.tried = b.tried /\ s.hasFinal = b.hasFinal
          /\ s.tally = b.tally /\ s.won = b.won /\ s.lost = b.lost /\ s.copies = b.copies
          /\ s.amount = b.amount /\ s.money = b.money /\ s.booked = b.booked
      BY <2>1, GoesFields, ViewType
    <2>4. g2 = [s EXCEPT !.server = FALSE, !.opMoney = m, !.randomTime = t, !.serverType = TRUE,
                         !.mayStart = TRUE]
      BY DEF s, b, Met
    <2> HIDE DEF s, g2
    <2>5. /\ g2.view = s.view /\ g2.waiting = s.waiting /\ g2.open = s.open
          /\ g2.server = FALSE /\ g2.btnStartClick = s.btnStartClick /\ g2.endDuel = s.endDuel
          /\ g2.mayStart = TRUE /\ g2.lastDuel = s.lastDuel /\ g2.tried = s.tried
          /\ g2.hasFinal = s.hasFinal /\ g2.tally = s.tally /\ g2.won = s.won
          /\ g2.lost = s.lost /\ g2.copies = s.copies /\ g2.amount = s.amount
          /\ g2.money = s.money /\ g2.booked = s.booked
      BY <2>1, <2>4 DEF Local
    <2>6. QED
      BY <2>2, <2>3, <2>5
  <1> HIDE DEF g2
  <1>5. Books(g2)
    BY <1>1, <1>2, <1>3, <1>4 DEF Sound, Books
  <1>6. Verdict(g2)
    BY <1>1, <1>2, <1>3, <1>4 DEF Sound, Books, Verdict, Screens, Toward, Arriving, Scored, Win, Lose,
       Undecided, NoRounds
  <1>7. Screens(g2)
    BY <1>1, <1>2, <1>3, <1>4 DEF PacketID, Sound, Verdict, Screens, Undecided, Decided, Toward,
       Arriving, Together, Ahead, Between, First, Last
  <1>8. Arriving(g2, h, U2, W)
    BY <1>1, <1>2, <1>3, <1>4 DEF PacketID, Sound, Verdict, Screens, Undecided, Decided, Toward,
       Arriving, Together, Ahead, Between, First, Last
  <1>9. Arriving(h, g2, W, U2)
    BY <1>1, <1>2, <1>3, <1>4 DEF PacketID, Sound, Verdict, Screens, Undecided, Decided, Toward,
       Arriving, Together, Ahead, Between, First, Last
  <1>10. Together(g2, h, U2, W)
    BY <1>1, <1>2, <1>3, <1>4 DEF PacketID, Sound, Verdict, Screens, Undecided, Decided, Toward,
       Arriving, Together, Ahead, Between, First, Last, Scored
  <1>11. Together(h, g2, W, U2)
    BY <1>1, <1>2, <1>3, <1>4 DEF PacketID, Sound, Verdict, Screens, Undecided, Decided, Toward,
       Arriving, Together, Ahead, Between, First, Last, Scored
  <1>12. Scored(g2, h, U2, W, R)
    BY <1>1, <1>2, <1>3, <1>4 DEF Sound, Verdict, Screens, Undecided, Decided, Toward, Arriving,
       Together, Level, Scored, Win, Lose, NoRounds
  <1>13. Scored(h, g2, W, U2, Q)
    BY <1>1, <1>2, <1>3, <1>4 DEF Sound, Verdict, Screens, Undecided, Decided, Toward, Arriving,
       Together, Level, Scored, Win, Lose, NoRounds
  <1>14. (g2.open \/ U2 = {}) /\ (h.open \/ W = {})
    BY <1>1, <1>2, <1>3, <1>4 DEF Toward, Arriving, Screens, Sound
  <1>15. h.open => Last("OPONTYPE_RESPONSE", V)
    BY <1>1, <1>2, <1>3, <1>4 DEF PacketID, Sound, Verdict, Screens, Undecided, Decided, Toward,
       Arriving, Together, Ahead, Between, First, Last
  <1>16. Match(g2, h, U2, W, R, Q)
    BY <1>5, <1>6, <1>7, <1>8, <1>9, <1>10, <1>11, <1>12, <1>13, <1>14, <1>15 DEF Sound, Toward
  <1>17. QED
    BY <1>16, <1>15 DEF g2

\* ReceiveResponse.
LEMMA ReceiveResponseMatch ==
  ASSUME NEW g \in Local, NEW h \in Local, NEW U \in SUBSET PacketID, NEW V \in SUBSET PacketID,
         NEW R \in SUBSET Result, NEW Q \in SUBSET Result,
         Match(g, h, U, V, R, Q), NEW m \in Int, g.open, First("OPONTYPE_RESPONSE", U)
  PROVE  Match(Waiting(StartClicked([g EXCEPT !.endDuel = FALSE, !.server = TRUE, !.opMoney = m])),
               h, (U \ {"OPONTYPE_RESPONSE"}), V, R, Q)
  <1> DEFINE g2 == Waiting(StartClicked([g EXCEPT !.endDuel = FALSE, !.server = TRUE, !.opMoney = m]))
  <1> DEFINE U2 == (U \ {"OPONTYPE_RESPONSE"})
  <1> DEFINE W == V
  <1> USE DEF Match
  <1>1. "OPONTYPE_RESPONSE" \in U
        /\ U \intersect {"TIME", "SEND_SHOT_TIME", "RUN_AWAY", "START_DUEL_TRUE",
           "OPONTYPE_RESPONSE_TRY", "TIME_TRY", "DUEL_CANSEL"} = {}
    BY DEF First, Ahead, Between
  <1>2. g.view = "start" /\ ~g.btnStartClick
    BY <1>1 DEF First, Toward, Arriving
  <1>3. /\ g2.view = g.view /\ g2.waiting = TRUE /\ g2.open = g.open /\ g2.server = TRUE
        /\ g2.btnStartClick = TRUE /\ g2.endDuel = FALSE /\ g2.mayStart = g.mayStart
        /\ g2.lastDuel = g.lastDuel /\ g2.tried = g.tried /\ g2.hasFinal = g.hasFinal
        /\ g2.tally = g.tally /\ g2.won = g.won /\ g2.lost = g.lost
        /\ g2.copies = g.copies /\ g2.amount = g.amount /\ g2.money = g.money
        /\ g2.booked = g.booked
    BY <1>2, ZenonT(60) DEF Local, Waiting, StartClicked, StartDuel
  <1> HIDE DEF g2
  <1>4. Books(g2)
    BY <1>1, <1>2, <1>3 DEF Sound, Books
  <1>5. Verdict(g2)
    BY <1>1, <1>2, <1>3 DEF Sound, Books, Verdict, Screens, Toward, Arriving, Scored, Win, Lose,
       Undecided
  <1>6. Screens(g2)
    BY <1>1, <1>2, <1>3 DEF PacketID, Sound, Verdict, Screens, Undecided, Decided, Toward, Arriving,
       Together, Ahead, Between, First, Last
  <1>7. Arriving(g2, h, U2, W)
    BY <1>1, <1>2, <1>3 DEF PacketID, Sound, Verdict, Screens, Undecided, Decided, Toward, Arriving,
       Together, Ahead, Between, First, Last
  <1>8. Arriving(h, g2, W, U2)
    BY <1>1, <1>2, <1>3 DEF PacketID, Sound, Verdict, Screens, Undecided, Decided, Toward, Arriving,
       Together, Ahead, Between, First, Last
  <1>9. Together(g2, h, U2, W)
    BY <1>1, <1>2, <1>3 DEF PacketID, Sound, Verdict, Screens, Undecided, Decided, Toward, Arriving,
       Together, Ahead, Between, First, Last, Scored
  <1>10. Together(h, g2, W, U2)
    BY <1>1, <1>2, <1>3 DEF PacketID, Sound, Verdict, Screens, Undecided, Decided, Toward, Arriving,
       Together, Ahead, Between, First, Last, Scored
  <1>11. Scored(g2, h, U2, W, R)
    BY <1>1, <1>2, <1>3 DEF Sound, Verdict, Screens, Undecided, Decided, Toward, Arriving, Together,
       Level, Scored, Win, Lose
  <1>12. Scored(h, g2, W, U2, Q)
    BY <1>1, <1>2, <1>3 DEF Sound, Verdict, Screens, Undecided, Decided, Toward, Arriving, Together,
       Level, Scored, Win, Lose
  <1>13. (g2.open \/ U2 = {}) /\ (h.open \/ W = {})
    BY <1>1, <1>2, <1>3 DEF Toward, Arriving, Screens, Sound
  <1>14. Match(g2, h, U2, W, R, Q)
    BY <1>4, <1>5, <1>6, <1>7, <1>8, <1>9, <1>10, <1>11, <1>12, <1>13 DEF Sound, Toward
  <1>15. QED
    BY <1>14 DEF g2

\* ReceiveTimeTry.
LEMMA ReceiveTimeTryMatch ==
  ASSUME NEW g \in Local, NEW h \in Local, NEW U \in SUBSET PacketID, NEW V \in SUBSET PacketID,
         NEW R \in SUBSET Result, NEW Q \in SUBSET Result,
         Match(g, h, U, V, R, Q), NEW m \in Int, NEW t \in Nat, g.open, First("TIME_TRY", U)
  PROVE  /\ Match(Asked(g, m, t), h, (U \ {"TIME_TRY"}),
                  (IF h.open THEN V \union {"OPONTYPE_RESPONSE_TRY"} ELSE V), R, Q)
         /\ h.open => Last("OPONTYPE_RESPONSE_TRY", V)
  <1> DEFINE g2 == Asked(g, m, t)
  <1> DEFINE U2 == (U \ {"TIME_TRY"})
  <1> DEFINE W == (IF h.open THEN V \union {"OPONTYPE_RESPONSE_TRY"} ELSE V)
  <1> USE DEF Match
  <1>1. "TIME_TRY" \in U /\ U \intersect {"TIME", "OPONTYPE_RESPONSE", "SEND_SHOT_TIME", "RUN_AWAY",
        "START_DUEL_TRUE", "DUEL_CANSEL"} = {} /\ ("START_DUEL" \in U => "OPONTYPE_RESPONSE_TRY" \in U)
    BY DEF First, Ahead, Between
  <1>2. /\ g.view # "start" /\ h.tried /\ h.lastDuel /\ (h.view \in {"start", "final"} \/ ~h.open)
           /\ "OPONTYPE_RESPONSE_TRY" \notin V /\ ~Undecided(g)
    BY <1>1 DEF Toward, Arriving
  <1>3. h.won = 0 /\ h.lost = 0 /\ h.tally.win = 0 /\ h.tally.lose = 0
    BY <1>1, <1>2, NotYet DEF Sound
  <1>4. g.view \in {"list", "final"} /\ g.lastDuel
    BY <1>1, <1>2, <1>3 DEF Toward, Arriving, Together, Undecided, Decided, Sound, Screens, Local,
       View
  <1>5. h.view = "final" => U \subseteq {"TIME_TRY"}
    BY <1>1, <1>2, <1>3, <1>4 DEF Toward, Arriving, Together, Undecided, Decided, Sound, Screens,
       PacketID
  <1>6. {"START_DUEL", "START_DUEL_TRUE", "OPONTYPE_RESPONSE", "TIME", "SEND_SHOT_TIME",
        "RUN_AWAY"} \intersect V = {}
    BY <1>1, <1>2, <1>3, <1>4, <1>5 DEF Toward, Arriving, Together, Undecided, Decided, Sound, Screens
  <1>7. /\ g2.view = "start" /\ (g2.waiting <=> g.waiting /\ g.view = "start")
        /\ g2.open = g.open /\ g2.server = FALSE /\ g2.btnStartClick = FALSE
        /\ g2.endDuel = FALSE /\ (g2.mayStart <=> g.mayStart \/ g.view # "start")
        /\ g2.lastDuel = g.lastDuel /\ g2.tried = g.tried /\ g2.hasFinal = g.hasFinal
        /\ g2.tally = NoRounds /\ g2.won = 0 /\ g2.lost = 0 /\ g2.copies = g.copies
        /\ g2.amount = g.amount /\ g2.money = g.money /\ g2.booked = g.booked
    <2> DEFINE a == [Goes(g, "start") EXCEPT
                       !.tally = NoRounds, !.shot = FALSE, !.endDuel = FALSE, !.btnStartClick = FALSE,
                       !.server = FALSE, !.opMoney = m, !.randomTime = t]
    <2>1. DOMAIN a = DOMAIN g
      BY DEF Goes
    <2>2. /\ a.view = "start" /\ a.open = g.open /\ a.server = FALSE /\ a.btnStartClick = FALSE
          /\ a.endDuel = FALSE /\ a.mayStart = g.mayStart /\ a.lastDuel = g.lastDuel
          /\ a.tried = g.tried /\ a.hasFinal = g.hasFinal /\ a.tally = NoRounds
          /\ a.copies = g.copies /\ a.amount = g.amount /\ a.money = g.money /\ a.booked = g.booked
      BY DEF Local, Goes
    <2> HIDE DEF a
    <2> DEFINE x == a.serverType \/ g.view = "list"
               y == a.mayStart \/ g.view # "start"
               z == g.waiting /\ g.view = "start"
               c == [a EXCEPT !.serverType = x, !.mayStart = y, !.waiting = z]
    <2>3. g2 = [c EXCEPT !.won = 0, !.lost = 0] /\ DOMAIN c = DOMAIN a
      BY ZenonT(60) DEF a, Asked
    <2> HIDE DEF x, y, z, g2
    <2>4. /\ c.view = a.view /\ c.open = a.open /\ c.server = a.server /\ c.waiting = z
          /\ c.mayStart = y
          /\ c.btnStartClick = a.btnStartClick /\ c.endDuel = a.endDuel /\ c.lastDuel = a.lastDuel
          /\ c.tried = a.tried /\ c.hasFinal = a.hasFinal /\ c.tally = a.tally
          /\ c.copies = a.copies /\ c.amount = a.amount /\ c.money = a.money /\ c.booked = a.booked
      BY <2>1 DEF Local
    <2> HIDE DEF c
    <2>5. /\ g2.view = c.view /\ g2.open = c.open /\ g2.server = c.server /\ g2.waiting = c.waiting
          /\ g2.mayStart = c.mayStart /\ g2.won = 0 /\ g2.lost = 0
          /\ g2.btnStartClick = c.btnStartClick /\ g2.endDuel = c.endDuel /\ g2.lastDuel = c.lastDuel
          /\ g2.tried = c.tried /\ g2.hasFinal = c.hasFinal /\ g2.tally = c.tally
          /\ g2.copies = c.copies /\ g2.amount = c.amount /\ g2.money = c.money
          /\ g2.booked = c.booked
      BY <2>1, <2>3 DEF Local
    <2>6. QED
      BY <2>2, <2>4, <2>5, ZenonT(60) DEF y, z
  <1> HIDE DEF g2
  <1>8. Books(g2)
    BY <1>1, <1>2, <1>3, <1>4, <1>5, <1>6, <1>7 DEF Sound, Books
  <1>9. Verdict(g2)
    BY <1>1, <1>2, <1>3, <1>4, <1>5, <1>6, <1>7 DEF Sound, Books, Verdict, Screens, Toward, Arriving,
       Scored, Win, Lose, Undecided, NoRounds
  <1>10. Screens(g2)
    BY <1>1, <1>2, <1>3, <1>4, <1>5, <1>6, <1>7 DEF PacketID, Sound, Verdict, Screens, Undecided,
       Decided, Toward, Arriving, Together, Ahead, Between, First, Last
  <1>11. Arriving(g2, h, U2, W)
    BY <1>1, <1>2, <1>3, <1>4, <1>5, <1>6, <1>7 DEF PacketID, Sound, Verdict, Screens, Undecided,
       Decided, Toward, Arriving, Together, Ahead, Between, First, Last
  <1>12. Arriving(h, g2, W, U2)
    BY <1>1, <1>2, <1>3, <1>4, <1>5, <1>6, <1>7 DEF PacketID, Sound, Verdict, Screens, Undecided,
       Decided, Toward, Arriving, Together, Ahead, Between, First, Last
  <1>13. Together(g2, h, U2, W)
    BY <1>1, <1>2, <1>3, <1>4, <1>5, <1>6, <1>7 DEF PacketID, Sound, Verdict, Screens, Undecided,
       Decided, Toward, Arriving, Together, Ahead, Between, First, Last, Scored
  <1>14. Together(h, g2, W, U2)
    BY <1>1, <1>2, <1>3, <1>4, <1>5, <1>6, <1>7 DEF PacketID, Sound, Verdict, Screens, Undecided,
       Decided, Toward, Arriving, Together, Ahead, Between, First, Last, Scored
  <1>15. Scored(g2, h, U2, W, R)
    BY <1>1, <1>2, <1>3, <1>4, <1>5, <1>6, <1>7 DEF Sound, Verdict, Screens, Undecided, Decided,
       Toward, Arriving, Together, Level, Scored, Win, Lose, NoRounds
  <1>16. Scored(h, g2, W, U2, Q)
    BY <1>1, <1>2, <1>3, <1>4, <1>5, <1>6, <1>7 DEF Sound, Verdict, Screens, Undecided, Decided,
       Toward, Arriving, Together, Level, Scored, Win, Lose, NoRounds
  <1>17. (g2.open \/ U2 = {}) /\ (h.open \/ W = {})
    BY <1>1, <1>2, <1>3, <1>4, <1>5, <1>6, <1>7 DEF Toward, Arriving, Screens, Sound
  <1>18. h.open => Last("OPONTYPE_RESPONSE_TRY", V)
    BY <1>1, <1>2, <1>3, <1>4, <1>5, <1>6, <1>7 DEF PacketID, Sound, Verdict, Screens, Undecided,
       Decided, Toward, Arriving, Together, Ahead, Between, First, Last
  <1>19. Match(g2, h, U2, W, R, Q)
    BY <1>8, <1>9, <1>10, <1>11, <1>12, <1>13, <1>14, <1>15, <1>16, <1>17, <1>18 DEF Sound, Toward
  <1>20. QED
    BY <1>19, <1>18 DEF g2

\* ReceiveResponseTry.
LEMMA ReceiveResponseTryMatch ==
  ASSUME NEW g \in Local, NEW h \in Local, NEW U \in SUBSET PacketID, NEW V \in SUBSET PacketID,
         NEW R \in SUBSET Result, NEW Q \in SUBSET Result,
         Match(g, h, U, V, R, Q), NEW m \in Int, NEW covered \in {TRUE, g.view = "start"}, g.open,
         First("OPONTYPE_RESPONSE_TRY", U)
  PROVE  Match(Agreed(g, m, covered), h, (U \ {"OPONTYPE_RESPONSE_TRY"}), V, R, Q)
  <1> DEFINE g2 == Agreed(g, m, covered)
  <1> DEFINE U2 == (U \ {"OPONTYPE_RESPONSE_TRY"})
  <1> DEFINE W == V
  <1> USE DEF Match
  <1>1. "OPONTYPE_RESPONSE_TRY" \in U
        /\ U \intersect {"TIME", "OPONTYPE_RESPONSE", "SEND_SHOT_TIME", "RUN_AWAY", "TIME_TRY",
           "DUEL_CANSEL"} = {}
    BY DEF First, Ahead, Between
  <1>2. g.tried /\ ~g.btnStartClick /\ g.view # "duel" /\ h.lastDuel /\ (h.view \in {"start",
        "duel"} \/ ~h.open)
    BY <1>1 DEF Toward, Arriving, Sound, Screens
  <1>3. g.won = 0 /\ g.lost = 0 /\ g.tally.win = 0 /\ g.tally.lose = 0
    BY <1>1, <1>2, NotYet DEF Sound
  <1>4. "SEND_SHOT_TIME" \notin V /\ R = {} /\ Q = {}
    BY <1>1, <1>2, <1>3 DEF Toward, Arriving, Scored
  <1>5. h.view = "duel" => g.view = "start" /\ "RUN_AWAY" \notin V /\ "TIME_TRY" \notin V
    BY <1>1, <1>2, <1>3, <1>4 DEF Toward, Arriving, Together, Undecided, Decided, Sound, Screens,
       Local, View
  <1>6. h.view \in {"start", "duel"} => h.tally.win = 0 /\ h.tally.lose = 0
    BY <1>1, <1>2, <1>3, <1>4, <1>5, NotYet DEF Sound, Toward, Scored, Level
  <1>7. /\ g2.view = "start" /\ (g2.waiting <=> covered) /\ g2.open = g.open
        /\ g2.server = TRUE /\ g2.btnStartClick = TRUE /\ g2.endDuel = FALSE
        /\ (g2.mayStart <=> g.mayStart /\ g.view = "start") /\ g2.lastDuel = g.lastDuel
        /\ g2.tried = FALSE /\ g2.hasFinal = g.hasFinal /\ g2.tally = g.tally
        /\ g2.won = g.won /\ g2.lost = g.lost /\ g2.copies = g.copies
        /\ g2.amount = g.amount /\ g2.money = g.money /\ g2.booked = g.booked
    <2> DEFINE s == Ready(g, m)
               t == IF s.serverType THEN s ELSE [s EXCEPT !.stray = @ \/ s.timer, !.timer = TRUE]
               b == [t EXCEPT !.btnStartClick = TRUE]
    <2>1. DOMAIN s = DOMAIN g /\ DOMAIN t = DOMAIN g /\ DOMAIN b = DOMAIN g
      BY DEF Goes, Ready
    <2>2. /\ s.view = "start" /\ s.open = g.open /\ s.server = TRUE
          /\ s.btnStartClick = g.btnStartClick
          /\ s.endDuel = FALSE /\ (s.mayStart <=> g.mayStart /\ g.view = "start")
             /\ s.lastDuel = g.lastDuel
          /\ s.tried = FALSE /\ s.hasFinal = g.hasFinal /\ s.tally = g.tally /\ s.won = g.won
          /\ s.lost = g.lost
          /\ s.copies = g.copies /\ s.amount = g.amount /\ s.money = g.money /\ s.booked = g.booked
      BY DEF Local, Goes, Ready
    <2> HIDE DEF s
    <2>3. /\ b.view = s.view /\ b.open = s.open /\ b.server = s.server /\ b.btnStartClick = TRUE
          /\ b.endDuel = s.endDuel /\ b.mayStart = s.mayStart /\ b.lastDuel = s.lastDuel
          /\ b.tried = s.tried /\ b.hasFinal = s.hasFinal /\ b.tally = s.tally /\ b.won = s.won
          /\ b.lost = s.lost
          /\ b.copies = s.copies /\ b.amount = s.amount /\ b.money = s.money /\ b.booked = s.booked
      BY <2>1 DEF Local
    <2>4. StartClicked(s) = b
      BY <1>2, <2>2 DEF StartClicked, StartDuel
    <2> HIDE DEF b
    <2>5. g2 = [[b EXCEPT !.waiting = b.view # "duel"] EXCEPT !.waiting = @ /\ covered]
      BY <2>4 DEF Waiting, Agreed, s
    <2> HIDE DEF g2
    <2>6. g2.waiting <=> covered
      BY <2>1, <2>2, <2>3, <2>5 DEF Local
    <2>7. /\ g2.view = b.view /\ g2.open = b.open /\ g2.server = b.server
          /\ g2.btnStartClick = b.btnStartClick /\ g2.endDuel = b.endDuel
          /\ g2.mayStart = b.mayStart /\ g2.lastDuel = b.lastDuel /\ g2.tried = b.tried
          /\ g2.hasFinal = b.hasFinal /\ g2.tally = b.tally /\ g2.won = b.won
          /\ g2.lost = b.lost /\ g2.copies = b.copies /\ g2.amount = b.amount
          /\ g2.money = b.money /\ g2.booked = b.booked
      BY <2>1, <2>5 DEF Local
    <2>8. QED
      BY <2>2, <2>3, <2>6, <2>7
  <1> HIDE DEF g2
  <1>8. Books(g2)
    BY <1>1, <1>2, <1>3, <1>4, <1>5, <1>6, <1>7 DEF Sound, Books
  <1>9. Verdict(g2)
    BY <1>1, <1>2, <1>3, <1>4, <1>5, <1>6, <1>7 DEF Sound, Books, Verdict, Screens, Toward, Arriving,
       Scored, Win, Lose, Undecided
  <1>10. Screens(g2)
    BY <1>1, <1>2, <1>3, <1>4, <1>5, <1>6, <1>7 DEF PacketID, Sound, Verdict, Screens, Undecided,
       Decided, Toward, Arriving, Together, Ahead, Between, First, Last
  <1>11. Arriving(g2, h, U2, W)
    BY <1>1, <1>2, <1>3, <1>4, <1>5, <1>6, <1>7 DEF PacketID, Sound, Verdict, Screens, Undecided,
       Decided, Toward, Arriving, Together, Ahead, Between, First, Last
  <1>12. Arriving(h, g2, W, U2)
    BY <1>1, <1>2, <1>3, <1>4, <1>5, <1>6, <1>7 DEF PacketID, Sound, Verdict, Screens, Undecided,
       Decided, Toward, Arriving, Together, Ahead, Between, First, Last
  <1>13. Together(g2, h, U2, W)
    BY <1>1, <1>2, <1>3, <1>4, <1>5, <1>6, <1>7 DEF PacketID, Sound, Verdict, Screens, Undecided,
       Decided, Toward, Arriving, Together, Ahead, Between, First, Last, Scored
  <1>14. Together(h, g2, W, U2)
    BY <1>1, <1>2, <1>3, <1>4, <1>5, <1>6, <1>7 DEF PacketID, Sound, Verdict, Screens, Undecided,
       Decided, Toward, Arriving, Together, Ahead, Between, First, Last, Scored
  <1>15. Scored(g2, h, U2, W, R)
    BY <1>1, <1>2, <1>3, <1>4, <1>5, <1>6, <1>7 DEF Sound, Verdict, Screens, Undecided, Decided,
       Toward, Arriving, Together, Level, Scored, Win, Lose
  <1>16. Scored(h, g2, W, U2, Q)
    BY <1>1, <1>2, <1>3, <1>4, <1>5, <1>6, <1>7 DEF Sound, Verdict, Screens, Undecided, Decided,
       Toward, Arriving, Together, Level, Scored, Win, Lose
  <1>17. (g2.open \/ U2 = {}) /\ (h.open \/ W = {})
    BY <1>1, <1>2, <1>3, <1>4, <1>5, <1>6, <1>7 DEF Toward, Arriving, Screens, Sound
  <1>18. Match(g2, h, U2, W, R, Q)
    BY <1>8, <1>9, <1>10, <1>11, <1>12, <1>13, <1>14, <1>15, <1>16, <1>17 DEF Sound, Toward
  <1>19. QED
    BY <1>18 DEF g2

\* ReceiveStartDuel, by one who is ready.
LEMMA ReceiveStartDuelReadyMatch ==
  ASSUME NEW g \in Local, NEW h \in Local, NEW U \in SUBSET PacketID, NEW V \in SUBSET PacketID,
         NEW R \in SUBSET Result, NEW Q \in SUBSET Result,
         Match(g, h, U, V, R, Q), g.btnStartClick, g.open, First("START_DUEL", U)
  PROVE  /\ Match(Goes([g EXCEPT !.shot = FALSE], "duel"),
                  h, (U \ {"START_DUEL"}), (IF h.open THEN V \union {"START_DUEL_TRUE"} ELSE V), R, Q)
         /\ h.open => Last("START_DUEL_TRUE", V)
  <1> DEFINE g2 == Goes([g EXCEPT !.shot = FALSE], "duel")
  <1> DEFINE U2 == (U \ {"START_DUEL"})
  <1> DEFINE W == (IF h.open THEN V \union {"START_DUEL_TRUE"} ELSE V)
  <1> USE DEF Match
  <1>1. "START_DUEL" \in U
        /\ U \intersect {"TIME", "OPONTYPE_RESPONSE", "SEND_SHOT_TIME", "RUN_AWAY",
           "OPONTYPE_RESPONSE_TRY"} = {}
    BY DEF First, Ahead, Between
  <1>2. ~g.tried /\ (g.view = "start" \/ (Undecided(g) /\ g.waiting))
    BY <1>1 DEF Toward, Arriving, Together, Undecided, Decided, Sound, Screens, Local, View
  <1>3. h.view = "start" \/ Undecided(h) => h.waiting
    BY <1>1, <1>2 DEF Toward, Arriving
  <1>4. g.won = 0 /\ g.lost = 0 /\ g.tally.win < 2 /\ g.tally.lose < 2
    BY <1>1, <1>2, <1>3, NotYet DEF Sound, Decided, Undecided
  <1>5. h.open => (h.tried => "OPONTYPE_RESPONSE_TRY" \in V)
    BY <1>1, <1>2, <1>3, <1>4 DEF Toward, Arriving, Together, Undecided, Decided, Sound, Screens,
       Local, View
  <1>6. h.open => h.view \in {"start", "duel"} \/ (Undecided(h) /\ h.waiting) \/ h.tried
    BY <1>1, <1>2, <1>3, <1>4, <1>5 DEF Toward, Arriving, Together, Undecided, Decided, Sound,
       Screens, Local, View
  <1>7. h.view # "duel" => V \subseteq {"START_DUEL", "OPONTYPE_RESPONSE_TRY", "START_DUEL_TRUE",
        "START_DUEL_FALSE"}
    BY <1>1, <1>2, <1>3, <1>4, <1>5, <1>6 DEF Toward, Arriving, Together, Undecided, Decided, Sound,
       Screens, Local, View, PacketID
  <1>8. /\ g2.view = "duel" /\ g2.waiting = FALSE /\ g2.open = g.open
        /\ g2.server = g.server /\ g2.btnStartClick = g.btnStartClick
        /\ g2.endDuel = g.endDuel /\ g2.mayStart = g.mayStart /\ g2.lastDuel = g.lastDuel
        /\ g2.tried = g.tried /\ g2.hasFinal = g.hasFinal /\ g2.tally = g.tally
        /\ g2.won = g.won /\ g2.lost = g.lost /\ g2.copies = g.copies
        /\ g2.amount = g.amount /\ g2.money = g.money /\ g2.booked = g.booked
    BY DEF Local, Goes
  <1> HIDE DEF g2
  <1>9. Books(g2)
    BY <1>1, <1>2, <1>3, <1>4, <1>5, <1>6, <1>7, <1>8 DEF Sound, Books
  <1>10. Verdict(g2)
    BY <1>1, <1>2, <1>3, <1>4, <1>5, <1>6, <1>7, <1>8 DEF Sound, Books, Verdict, Screens, Toward,
       Arriving, Scored, Win, Lose, Undecided
  <1>11. Screens(g2)
    BY <1>1, <1>2, <1>3, <1>4, <1>5, <1>6, <1>7, <1>8 DEF PacketID, Sound, Verdict, Screens,
       Undecided, Decided, Toward, Arriving, Together, Ahead, Between, First, Last
  <1>12. Arriving(g2, h, U2, W)
    BY <1>1, <1>2, <1>3, <1>4, <1>5, <1>6, <1>7, <1>8 DEF PacketID, Sound, Verdict, Screens,
       Undecided, Decided, Toward, Arriving, Together, Ahead, Between, First, Last
  <1>13. Arriving(h, g2, W, U2)
    BY <1>1, <1>2, <1>3, <1>4, <1>5, <1>6, <1>7, <1>8 DEF PacketID, Sound, Verdict, Screens,
       Undecided, Decided, Toward, Arriving, Together, Ahead, Between, First, Last
  <1>14. Together(g2, h, U2, W)
    BY <1>1, <1>2, <1>3, <1>4, <1>5, <1>6, <1>7, <1>8 DEF PacketID, Sound, Verdict, Screens,
       Undecided, Decided, Toward, Arriving, Together, Ahead, Between, First, Last, Scored
  <1>15. Together(h, g2, W, U2)
    BY <1>1, <1>2, <1>3, <1>4, <1>5, <1>6, <1>7, <1>8 DEF PacketID, Sound, Verdict, Screens,
       Undecided, Decided, Toward, Arriving, Together, Ahead, Between, First, Last, Scored
  <1>16. Scored(g2, h, U2, W, R)
    BY <1>1, <1>2, <1>3, <1>4, <1>5, <1>6, <1>7, <1>8 DEF Sound, Verdict, Screens, Undecided, Decided,
       Toward, Arriving, Together, Level, Scored, Win, Lose
  <1>17. Scored(h, g2, W, U2, Q)
    BY <1>1, <1>2, <1>3, <1>4, <1>5, <1>6, <1>7, <1>8 DEF Sound, Verdict, Screens, Undecided, Decided,
       Toward, Arriving, Together, Level, Scored, Win, Lose
  <1>18. (g2.open \/ U2 = {}) /\ (h.open \/ W = {})
    BY <1>1, <1>2, <1>3, <1>4, <1>5, <1>6, <1>7, <1>8 DEF Toward, Arriving, Screens, Sound
  <1>19. h.open => Last("START_DUEL_TRUE", V)
    BY <1>1, <1>2, <1>3, <1>4, <1>5, <1>6, <1>7, <1>8 DEF PacketID, Sound, Verdict, Screens,
       Undecided, Decided, Toward, Arriving, Together, Ahead, Between, First, Last
  <1>20. Match(g2, h, U2, W, R, Q)
    BY <1>9, <1>10, <1>11, <1>12, <1>13, <1>14, <1>15, <1>16, <1>17, <1>18, <1>19 DEF Sound, Toward
  <1>21. QED
    BY <1>20, <1>19 DEF g2

\* ReceiveStartDuel, by one who is not.
LEMMA ReceiveStartDuelMatch ==
  ASSUME NEW g \in Local, NEW h \in Local, NEW U \in SUBSET PacketID, NEW V \in SUBSET PacketID,
         NEW R \in SUBSET Result, NEW Q \in SUBSET Result,
         Match(g, h, U, V, R, Q), ~g.btnStartClick, g.open, First("START_DUEL", U)
  PROVE  Match([[g EXCEPT !.shot = FALSE] EXCEPT !.btnStartClick = TRUE],
               h, (U \ {"START_DUEL"}), V, R, Q)
  <1> DEFINE g2 == [[g EXCEPT !.shot = FALSE] EXCEPT !.btnStartClick = TRUE]
  <1> DEFINE U2 == (U \ {"START_DUEL"})
  <1> DEFINE W == V
  <1> USE DEF Match
  <1>1. "START_DUEL" \in U
        /\ U \intersect {"TIME", "OPONTYPE_RESPONSE", "SEND_SHOT_TIME", "RUN_AWAY",
           "OPONTYPE_RESPONSE_TRY"} = {}
    BY DEF First, Ahead, Between
  <1>2. Undecided(g) /\ ~g.waiting /\ h.open => Undecided(h) /\ h.waiting
    BY <1>1 DEF Toward, Arriving, Together, Undecided, Decided, Sound, Screens, Local, View
  <1>3. /\ g2.view = g.view /\ g2.waiting = g.waiting /\ g2.open = g.open
        /\ g2.server = g.server /\ g2.btnStartClick = TRUE /\ g2.endDuel = g.endDuel
        /\ g2.mayStart = g.mayStart /\ g2.lastDuel = g.lastDuel /\ g2.tried = g.tried
        /\ g2.hasFinal = g.hasFinal /\ g2.tally = g.tally /\ g2.won = g.won
        /\ g2.lost = g.lost /\ g2.copies = g.copies /\ g2.amount = g.amount
        /\ g2.money = g.money /\ g2.booked = g.booked
    BY DEF Local
  <1> HIDE DEF g2
  <1>4. Books(g2)
    BY <1>1, <1>2, <1>3 DEF Sound, Books
  <1>5. Verdict(g2)
    BY <1>1, <1>2, <1>3 DEF Sound, Books, Verdict, Screens, Toward, Arriving, Scored, Win, Lose,
       Undecided
  <1>6. Screens(g2)
    BY <1>1, <1>2, <1>3 DEF PacketID, Sound, Verdict, Screens, Undecided, Decided, Toward, Arriving,
       Together, Ahead, Between, First, Last
  <1>7. Arriving(g2, h, U2, W)
    BY <1>1, <1>2, <1>3 DEF PacketID, Sound, Verdict, Screens, Undecided, Decided, Toward, Arriving,
       Together, Ahead, Between, First, Last
  <1>8. Arriving(h, g2, W, U2)
    BY <1>1, <1>2, <1>3 DEF PacketID, Sound, Verdict, Screens, Undecided, Decided, Toward, Arriving,
       Together, Ahead, Between, First, Last
  <1>9. Together(g2, h, U2, W)
    BY <1>1, <1>2, <1>3 DEF PacketID, Sound, Verdict, Screens, Undecided, Decided, Toward, Arriving,
       Together, Ahead, Between, First, Last, Scored
  <1>10. Together(h, g2, W, U2)
    BY <1>1, <1>2, <1>3 DEF PacketID, Sound, Verdict, Screens, Undecided, Decided, Toward, Arriving,
       Together, Ahead, Between, First, Last, Scored
  <1>11. Scored(g2, h, U2, W, R)
    BY <1>1, <1>2, <1>3 DEF Sound, Verdict, Screens, Undecided, Decided, Toward, Arriving, Together,
       Level, Scored, Win, Lose
  <1>12. Scored(h, g2, W, U2, Q)
    BY <1>1, <1>2, <1>3 DEF Sound, Verdict, Screens, Undecided, Decided, Toward, Arriving, Together,
       Level, Scored, Win, Lose
  <1>13. (g2.open \/ U2 = {}) /\ (h.open \/ W = {})
    BY <1>1, <1>2, <1>3 DEF Toward, Arriving, Screens, Sound
  <1>14. Match(g2, h, U2, W, R, Q)
    BY <1>4, <1>5, <1>6, <1>7, <1>8, <1>9, <1>10, <1>11, <1>12, <1>13 DEF Sound, Toward
  <1>15. QED
    BY <1>14 DEF g2

\* ReceiveStartDuelTrue, on the duel's screen.
LEMMA ReceiveStartDuelTrueAgainMatch ==
  ASSUME NEW g \in Local, NEW h \in Local, NEW U \in SUBSET PacketID, NEW V \in SUBSET PacketID,
         NEW R \in SUBSET Result, NEW Q \in SUBSET Result,
         Match(g, h, U, V, R, Q), g.view = "duel", g.open, First("START_DUEL_TRUE", U)
  PROVE  Match(g, h, (U \ {"START_DUEL_TRUE"}), V, R, Q)
  <1> DEFINE g2 == g
  <1> DEFINE U2 == (U \ {"START_DUEL_TRUE"})
  <1> DEFINE W == V
  <1> USE DEF Match
  <1>1. "START_DUEL_TRUE" \in U /\ U \intersect {"TIME", "OPONTYPE_RESPONSE",
        "OPONTYPE_RESPONSE_TRY"} = {} /\ ("START_DUEL" \in U => "SEND_SHOT_TIME" \in U)
    BY DEF First, Ahead, Between
  <1>2. /\ g2.view = g.view /\ g2.waiting = g.waiting /\ g2.open = g.open
        /\ g2.server = g.server /\ g2.btnStartClick = g.btnStartClick
        /\ g2.endDuel = g.endDuel /\ g2.mayStart = g.mayStart /\ g2.lastDuel = g.lastDuel
        /\ g2.tried = g.tried /\ g2.hasFinal = g.hasFinal /\ g2.tally = g.tally
        /\ g2.won = g.won /\ g2.lost = g.lost /\ g2.copies = g.copies
        /\ g2.amount = g.amount /\ g2.money = g.money /\ g2.booked = g.booked
    BY DEF Local
  <1> HIDE DEF g2
  <1>3. Books(g2)
    BY <1>1, <1>2 DEF Sound, Books
  <1>4. Verdict(g2)
    BY <1>1, <1>2 DEF Sound, Books, Verdict, Screens, Toward, Arriving, Scored, Win, Lose, Undecided
  <1>5. Screens(g2)
    BY <1>1, <1>2 DEF PacketID, Sound, Verdict, Screens, Undecided, Decided, Toward, Arriving,
       Together, Ahead, Between, First, Last
  <1>6. Arriving(g2, h, U2, W)
    BY <1>1, <1>2 DEF PacketID, Sound, Verdict, Screens, Undecided, Decided, Toward, Arriving,
       Together, Ahead, Between, First, Last
  <1>7. Arriving(h, g2, W, U2)
    BY <1>1, <1>2 DEF PacketID, Sound, Verdict, Screens, Undecided, Decided, Toward, Arriving,
       Together, Ahead, Between, First, Last
  <1>8. Together(g2, h, U2, W)
    BY <1>1, <1>2 DEF PacketID, Sound, Verdict, Screens, Undecided, Decided, Toward, Arriving,
       Together, Ahead, Between, First, Last, Scored
  <1>9. Together(h, g2, W, U2)
    BY <1>1, <1>2 DEF PacketID, Sound, Verdict, Screens, Undecided, Decided, Toward, Arriving,
       Together, Ahead, Between, First, Last, Scored
  <1>10. Scored(g2, h, U2, W, R)
    BY <1>1, <1>2 DEF Sound, Verdict, Screens, Undecided, Decided, Toward, Arriving, Together, Level,
       Scored, Win, Lose
  <1>11. Scored(h, g2, W, U2, Q)
    BY <1>1, <1>2 DEF Sound, Verdict, Screens, Undecided, Decided, Toward, Arriving, Together, Level,
       Scored, Win, Lose
  <1>12. (g2.open \/ U2 = {}) /\ (h.open \/ W = {})
    BY <1>1, <1>2 DEF Toward, Arriving, Screens, Sound
  <1>13. Match(g2, h, U2, W, R, Q)
    BY <1>3, <1>4, <1>5, <1>6, <1>7, <1>8, <1>9, <1>10, <1>11, <1>12 DEF Sound, Toward
  <1>14. QED
    BY <1>13 DEF g2

\* ReceiveStartDuelTrue, elsewhere.
LEMMA ReceiveStartDuelTrueMatch ==
  ASSUME NEW g \in Local, NEW h \in Local, NEW U \in SUBSET PacketID, NEW V \in SUBSET PacketID,
         NEW R \in SUBSET Result, NEW Q \in SUBSET Result,
         Match(g, h, U, V, R, Q), g.view # "duel", g.open, First("START_DUEL_TRUE", U)
  PROVE  Match(Goes(g, "duel"), h, (U \ {"START_DUEL_TRUE"}), V, R, Q)
  <1> DEFINE g2 == Goes(g, "duel")
  <1> DEFINE U2 == (U \ {"START_DUEL_TRUE"})
  <1> DEFINE W == V
  <1> USE DEF Match
  <1>1. "START_DUEL_TRUE" \in U /\ U \intersect {"TIME", "OPONTYPE_RESPONSE",
        "OPONTYPE_RESPONSE_TRY"} = {} /\ ("START_DUEL" \in U => "SEND_SHOT_TIME" \in U)
    BY DEF First, Ahead, Between
  <1>2. ~g.tried /\ ~Decided(g) /\ (g.waiting \/ g.view = "start") /\ "SEND_SHOT_TIME" \notin U
        /\ "START_DUEL" \notin U
    BY <1>1 DEF PacketID, Toward, Arriving
  <1>3. (g.view = "start" \/ (Undecided(g) /\ g.waiting)) /\ (h.view = "duel" \/ ~h.open)
    BY <1>1, <1>2 DEF Toward, Arriving, Together, Undecided, Decided, Sound, Screens, Local, View
  <1>4. g.won = 0 /\ g.lost = 0 /\ g.tally.win < 2 /\ g.tally.lose < 2
    BY <1>1, <1>2, <1>3, NotYet DEF Sound, Decided, Undecided
  <1>5. /\ g2.view = "duel" /\ g2.waiting = FALSE /\ g2.open = g.open
        /\ g2.server = g.server /\ g2.btnStartClick = g.btnStartClick
        /\ g2.endDuel = g.endDuel /\ g2.mayStart = g.mayStart /\ g2.lastDuel = g.lastDuel
        /\ g2.tried = g.tried /\ g2.hasFinal = g.hasFinal /\ g2.tally = g.tally
        /\ g2.won = g.won /\ g2.lost = g.lost /\ g2.copies = g.copies
        /\ g2.amount = g.amount /\ g2.money = g.money /\ g2.booked = g.booked
    BY DEF Local, Goes
  <1> HIDE DEF g2
  <1>6. Books(g2)
    BY <1>1, <1>2, <1>3, <1>4, <1>5 DEF Sound, Books
  <1>7. Verdict(g2)
    BY <1>1, <1>2, <1>3, <1>4, <1>5 DEF Sound, Books, Verdict, Screens, Toward, Arriving, Scored, Win,
       Lose, Undecided
  <1>8. Screens(g2)
    BY <1>1, <1>2, <1>3, <1>4, <1>5 DEF PacketID, Sound, Verdict, Screens, Undecided, Decided, Toward,
       Arriving, Together, Ahead, Between, First, Last
  <1>9. Arriving(g2, h, U2, W)
    BY <1>1, <1>2, <1>3, <1>4, <1>5 DEF PacketID, Sound, Verdict, Screens, Undecided, Decided, Toward,
       Arriving, Together, Ahead, Between, First, Last
  <1>10. Arriving(h, g2, W, U2)
    BY <1>1, <1>2, <1>3, <1>4, <1>5 DEF PacketID, Sound, Verdict, Screens, Undecided, Decided, Toward,
       Arriving, Together, Ahead, Between, First, Last
  <1>11. Together(g2, h, U2, W)
    BY <1>1, <1>2, <1>3, <1>4, <1>5 DEF PacketID, Sound, Verdict, Screens, Undecided, Decided, Toward,
       Arriving, Together, Ahead, Between, First, Last, Scored
  <1>12. Together(h, g2, W, U2)
    BY <1>1, <1>2, <1>3, <1>4, <1>5 DEF PacketID, Sound, Verdict, Screens, Undecided, Decided, Toward,
       Arriving, Together, Ahead, Between, First, Last, Scored
  <1>13. Scored(g2, h, U2, W, R)
    BY <1>1, <1>2, <1>3, <1>4, <1>5 DEF Sound, Verdict, Screens, Undecided, Decided, Toward, Arriving,
       Together, Level, Scored, Win, Lose
  <1>14. Scored(h, g2, W, U2, Q)
    BY <1>1, <1>2, <1>3, <1>4, <1>5 DEF Sound, Verdict, Screens, Undecided, Decided, Toward, Arriving,
       Together, Level, Scored, Win, Lose
  <1>15. (g2.open \/ U2 = {}) /\ (h.open \/ W = {})
    BY <1>1, <1>2, <1>3, <1>4, <1>5 DEF Toward, Arriving, Screens, Sound
  <1>16. Match(g2, h, U2, W, R, Q)
    BY <1>6, <1>7, <1>8, <1>9, <1>10, <1>11, <1>12, <1>13, <1>14, <1>15 DEF Sound, Toward
  <1>17. QED
    BY <1>16 DEF g2

\* ReceiveStartDuelFalse.
LEMMA ReceiveStartDuelFalseMatch ==
  ASSUME NEW g \in Local, NEW h \in Local, NEW U \in SUBSET PacketID, NEW V \in SUBSET PacketID,
         NEW R \in SUBSET Result, NEW Q \in SUBSET Result,
         Match(g, h, U, V, R, Q), g.open, First("START_DUEL_FALSE", U)
  PROVE  Match(LostConnection(g), h, {}, V, {}, Q)
  <1> DEFINE g2 == LostConnection(g)
  <1> DEFINE U2 == {}
  <1> DEFINE W == V
  <1> USE DEF Match
  <1>1. "START_DUEL_FALSE" \in U
        /\ U \intersect {"TIME", "OPONTYPE_RESPONSE", "SEND_SHOT_TIME", "RUN_AWAY",
           "START_DUEL_TRUE", "START_DUEL", "OPONTYPE_RESPONSE_TRY", "TIME_TRY", "DUEL_CANSEL"} = {}
    BY DEF First, Ahead, Between
  <1>2. /\ g2.view = "list" /\ g2.waiting = FALSE /\ g2.open = FALSE
        /\ g2.server = g.server /\ g2.btnStartClick = g.btnStartClick
        /\ g2.endDuel = g.endDuel /\ g2.mayStart = g.mayStart /\ g2.lastDuel = g.lastDuel
        /\ g2.tried = g.tried /\ g2.hasFinal = g.hasFinal /\ g2.tally = g.tally
        /\ g2.won = g.won /\ g2.lost = g.lost /\ g2.copies = g.copies
        /\ g2.amount = g.amount /\ g2.money = g.money /\ g2.booked = g.booked
    BY DEF Local, LostConnection, Goes
  <1> HIDE DEF g2
  <1>3. Books(g2)
    BY <1>1, <1>2 DEF Sound, Books
  <1>4. Verdict(g2)
    BY <1>1, <1>2 DEF Sound, Books, Verdict, Screens, Toward, Arriving, Scored, Win, Lose, Undecided
  <1>5. Screens(g2)
    BY <1>1, <1>2 DEF PacketID, Sound, Verdict, Screens, Undecided, Decided, Toward, Arriving,
       Together, Ahead, Between, First, Last
  <1>6. Arriving(g2, h, U2, W)
    BY <1>1, <1>2 DEF PacketID, Sound, Verdict, Screens, Undecided, Decided, Toward, Arriving,
       Together, Ahead, Between, First, Last
  <1>7. Arriving(h, g2, W, U2)
    BY <1>1, <1>2 DEF PacketID, Sound, Verdict, Screens, Undecided, Decided, Toward, Arriving,
       Together, Ahead, Between, First, Last
  <1>8. Together(g2, h, U2, W)
    BY <1>1, <1>2 DEF PacketID, Sound, Verdict, Screens, Undecided, Decided, Toward, Arriving,
       Together, Ahead, Between, First, Last, Scored
  <1>9. Together(h, g2, W, U2)
    BY <1>1, <1>2 DEF PacketID, Sound, Verdict, Screens, Undecided, Decided, Toward, Arriving,
       Together, Ahead, Between, First, Last, Scored
  <1>10. Scored(g2, h, U2, W, {})
    BY <1>1, <1>2 DEF Sound, Verdict, Screens, Undecided, Decided, Toward, Arriving, Together, Level,
       Scored, Win, Lose
  <1>11. Scored(h, g2, W, U2, Q)
    BY <1>1, <1>2 DEF Sound, Verdict, Screens, Undecided, Decided, Toward, Arriving, Together, Level,
       Scored, Win, Lose
  <1>12. (g2.open \/ U2 = {}) /\ (h.open \/ W = {})
    BY <1>1, <1>2 DEF Toward, Arriving, Screens, Sound
  <1>13. Match(g2, h, U2, W, {}, Q)
    BY <1>3, <1>4, <1>5, <1>6, <1>7, <1>8, <1>9, <1>10, <1>11, <1>12 DEF Sound, Toward
  <1>14. QED
    BY <1>13 DEF g2

\* ReceiveRunAway.
LEMMA ReceiveRunAwayMatch ==
  ASSUME NEW g \in Local, NEW h \in Local, NEW U \in SUBSET PacketID, NEW V \in SUBSET PacketID,
         NEW R \in SUBSET Result, NEW Q \in SUBSET Result,
         Match(g, h, U, V, R, Q), g.open, First("RUN_AWAY", U)
  PROVE  Match(LastScene(WinScene(g)), h, (U \ {"RUN_AWAY"}), V, R, Q)
  <1> DEFINE g2 == LastScene(WinScene(g))
  <1> DEFINE U2 == (U \ {"RUN_AWAY"})
  <1> DEFINE W == V
  <1> USE DEF Match
  <1>1. "RUN_AWAY" \in U
        /\ U \intersect {"TIME", "OPONTYPE_RESPONSE", "SEND_SHOT_TIME", "START_DUEL_TRUE",
           "START_DUEL", "OPONTYPE_RESPONSE_TRY"} = {}
    BY DEF First, Ahead, Between
  <1>2. Undecided(g) /\ h.lastDuel /\ h.won = 0
    BY <1>1 DEF Toward, Arriving
  <1>3. g.view = "final" /\ ~g.lastDuel
    BY <1>1, <1>2 DEF Undecided
  <1>4. ~g.tried
    BY <1>1, <1>2, <1>3 DEF Sound, Screens, Undecided
  <1>5. "SEND_SHOT_TIME" \notin V
    BY <1>1, <1>2, <1>3, <1>4 DEF Toward, Arriving
  <1>6. g.won = 0 /\ g.lost = 0 /\ g.tally.win < 2 /\ g.tally.lose < 2
    BY <1>1, <1>2, <1>3, <1>4, <1>5, NotYet DEF Sound, Decided, Undecided
  <1>7. /\ Kept(g2, g) /\ g2.view = g.view /\ ~g2.waiting /\ g2.hasFinal = g.hasFinal
        /\ g2.lastDuel = TRUE
        /\ g2.tally = g.tally /\ g2.won = 1 /\ g2.lost = 0 /\ Books(g2)
    BY <1>3, RanAwayFacts 
  <1> HIDE DEF g2
  <1>8. Books(g2)
    BY <1>1, <1>2, <1>3, <1>4, <1>5, <1>6, <1>7 DEF Sound, Books, Kept
  <1>9. Verdict(g2)
    BY <1>1, <1>2, <1>3, <1>4, <1>5, <1>6, <1>7 DEF Sound, Books, Verdict, Screens, Toward, Arriving,
       Scored, Win, Lose, Undecided, Kept
  <1>10. Screens(g2)
    BY <1>1, <1>2, <1>3, <1>4, <1>5, <1>6, <1>7 DEF PacketID, Sound, Verdict, Screens, Undecided,
       Decided, Toward, Arriving, Together, Ahead, Between, First, Last, Kept
  <1>11. Arriving(g2, h, U2, W)
    BY <1>1, <1>2, <1>3, <1>4, <1>5, <1>6, <1>7 DEF PacketID, Sound, Verdict, Screens, Undecided,
       Decided, Toward, Arriving, Together, Ahead, Between, First, Last, Kept
  <1>12. Arriving(h, g2, W, U2)
    BY <1>1, <1>2, <1>3, <1>4, <1>5, <1>6, <1>7 DEF PacketID, Sound, Verdict, Screens, Undecided,
       Decided, Toward, Arriving, Together, Ahead, Between, First, Last, Kept
  <1>13. Together(g2, h, U2, W)
    BY <1>1, <1>2, <1>3, <1>4, <1>5, <1>6, <1>7 DEF PacketID, Sound, Verdict, Screens, Undecided,
       Decided, Toward, Arriving, Together, Ahead, Between, First, Last, Scored, Kept
  <1>14. Together(h, g2, W, U2)
    BY <1>1, <1>2, <1>3, <1>4, <1>5, <1>6, <1>7 DEF PacketID, Sound, Verdict, Screens, Undecided,
       Decided, Toward, Arriving, Together, Ahead, Between, First, Last, Scored, Kept
  <1>15. Scored(g2, h, U2, W, R)
    BY <1>1, <1>2, <1>3, <1>4, <1>5, <1>6, <1>7 DEF Sound, Verdict, Screens, Undecided, Decided,
       Toward, Arriving, Together, Level, Scored, Win, Lose, Kept
  <1>16. Scored(h, g2, W, U2, Q)
    BY <1>1, <1>2, <1>3, <1>4, <1>5, <1>6, <1>7 DEF Sound, Verdict, Screens, Undecided, Decided,
       Toward, Arriving, Together, Level, Scored, Win, Lose, Kept
  <1>17. (g2.open \/ U2 = {}) /\ (h.open \/ W = {})
    BY <1>1, <1>2, <1>3, <1>4, <1>5, <1>6, <1>7 DEF Toward, Arriving, Screens, Sound, Kept
  <1>18. Match(g2, h, U2, W, R, Q)
    BY <1>8, <1>9, <1>10, <1>11, <1>12, <1>13, <1>14, <1>15, <1>16, <1>17 DEF Sound, Toward
  <1>19. QED
    BY <1>18 DEF g2

\* ReceiveDuelCansel, by one who stays.
LEMMA ReceiveDuelCanselMatch ==
  ASSUME NEW g \in Local, NEW h \in Local, NEW U \in SUBSET PacketID, NEW V \in SUBSET PacketID,
         NEW R \in SUBSET Result, NEW Q \in SUBSET Result,
         Match(g, h, U, V, R, Q), g.open, First("DUEL_CANSEL", U)
  PROVE  Match([g EXCEPT !.opponentEndMatch = TRUE], h, (U \ {"DUEL_CANSEL"}), V, R, Q)
  <1> DEFINE g2 == [g EXCEPT !.opponentEndMatch = TRUE]
  <1> DEFINE U2 == (U \ {"DUEL_CANSEL"})
  <1> DEFINE W == V
  <1> USE DEF Match
  <1>1. "DUEL_CANSEL" \in U
        /\ U \intersect {"TIME", "OPONTYPE_RESPONSE", "SEND_SHOT_TIME", "RUN_AWAY",
           "START_DUEL_TRUE", "TIME_TRY"} = {}
    BY DEF First, Ahead, Between
  <1>2. /\ g2.view = g.view /\ g2.waiting = g.waiting /\ g2.open = g.open
        /\ g2.server = g.server /\ g2.btnStartClick = g.btnStartClick
        /\ g2.endDuel = g.endDuel /\ g2.mayStart = g.mayStart /\ g2.lastDuel = g.lastDuel
        /\ g2.tried = g.tried /\ g2.hasFinal = g.hasFinal /\ g2.tally = g.tally
        /\ g2.won = g.won /\ g2.lost = g.lost /\ g2.copies = g.copies
        /\ g2.amount = g.amount /\ g2.money = g.money /\ g2.booked = g.booked
    BY DEF Local
  <1> HIDE DEF g2
  <1>3. Books(g2)
    BY <1>1, <1>2 DEF Sound, Books
  <1>4. Verdict(g2)
    BY <1>1, <1>2 DEF Sound, Books, Verdict, Screens, Toward, Arriving, Scored, Win, Lose, Undecided
  <1>5. Screens(g2)
    BY <1>1, <1>2 DEF PacketID, Sound, Verdict, Screens, Undecided, Decided, Toward, Arriving,
       Together, Ahead, Between, First, Last
  <1>6. Arriving(g2, h, U2, W)
    BY <1>1, <1>2 DEF PacketID, Sound, Verdict, Screens, Undecided, Decided, Toward, Arriving,
       Together, Ahead, Between, First, Last
  <1>7. Arriving(h, g2, W, U2)
    BY <1>1, <1>2 DEF PacketID, Sound, Verdict, Screens, Undecided, Decided, Toward, Arriving,
       Together, Ahead, Between, First, Last
  <1>8. Together(g2, h, U2, W)
    BY <1>1, <1>2 DEF PacketID, Sound, Verdict, Screens, Undecided, Decided, Toward, Arriving,
       Together, Ahead, Between, First, Last, Scored
  <1>9. Together(h, g2, W, U2)
    BY <1>1, <1>2 DEF PacketID, Sound, Verdict, Screens, Undecided, Decided, Toward, Arriving,
       Together, Ahead, Between, First, Last, Scored
  <1>10. Scored(g2, h, U2, W, R)
    BY <1>1, <1>2 DEF Sound, Verdict, Screens, Undecided, Decided, Toward, Arriving, Together, Level,
       Scored, Win, Lose
  <1>11. Scored(h, g2, W, U2, Q)
    BY <1>1, <1>2 DEF Sound, Verdict, Screens, Undecided, Decided, Toward, Arriving, Together, Level,
       Scored, Win, Lose
  <1>12. (g2.open \/ U2 = {}) /\ (h.open \/ W = {})
    BY <1>1, <1>2 DEF Toward, Arriving, Screens, Sound
  <1>13. Match(g2, h, U2, W, R, Q)
    BY <1>3, <1>4, <1>5, <1>6, <1>7, <1>8, <1>9, <1>10, <1>11, <1>12 DEF Sound, Toward
  <1>14. QED
    BY <1>13 DEF g2

\* ReceiveDuelCansel, by one who has left.
LEMMA ReceiveDuelCanselLastMatch ==
  ASSUME NEW g \in Local, NEW h \in Local, NEW U \in SUBSET PacketID, NEW V \in SUBSET PacketID,
         NEW R \in SUBSET Result, NEW Q \in SUBSET Result,
         Match(g, h, U, V, R, Q), g.open, First("DUEL_CANSEL", U)
  PROVE  Match(LostConnection(g), h, {}, V, {}, Q)
  <1> DEFINE g2 == LostConnection(g)
  <1> DEFINE U2 == {}
  <1> DEFINE W == V
  <1> USE DEF Match
  <1>1. "DUEL_CANSEL" \in U
        /\ U \intersect {"TIME", "OPONTYPE_RESPONSE", "SEND_SHOT_TIME", "RUN_AWAY",
           "START_DUEL_TRUE", "TIME_TRY"} = {}
    BY DEF First, Ahead, Between
  <1>2. /\ g2.view = "list" /\ g2.waiting = FALSE /\ g2.open = FALSE
        /\ g2.server = g.server /\ g2.btnStartClick = g.btnStartClick
        /\ g2.endDuel = g.endDuel /\ g2.mayStart = g.mayStart /\ g2.lastDuel = g.lastDuel
        /\ g2.tried = g.tried /\ g2.hasFinal = g.hasFinal /\ g2.tally = g.tally
        /\ g2.won = g.won /\ g2.lost = g.lost /\ g2.copies = g.copies
        /\ g2.amount = g.amount /\ g2.money = g.money /\ g2.booked = g.booked
    BY DEF Local, LostConnection, Goes
  <1> HIDE DEF g2
  <1>3. Books(g2)
    BY <1>1, <1>2 DEF Sound, Books
  <1>4. Verdict(g2)
    BY <1>1, <1>2 DEF Sound, Books, Verdict, Screens, Toward, Arriving, Scored, Win, Lose, Undecided
  <1>5. Screens(g2)
    BY <1>1, <1>2 DEF PacketID, Sound, Verdict, Screens, Undecided, Decided, Toward, Arriving,
       Together, Ahead, Between, First, Last
  <1>6. Arriving(g2, h, U2, W)
    BY <1>1, <1>2 DEF PacketID, Sound, Verdict, Screens, Undecided, Decided, Toward, Arriving,
       Together, Ahead, Between, First, Last
  <1>7. Arriving(h, g2, W, U2)
    BY <1>1, <1>2 DEF PacketID, Sound, Verdict, Screens, Undecided, Decided, Toward, Arriving,
       Together, Ahead, Between, First, Last
  <1>8. Together(g2, h, U2, W)
    BY <1>1, <1>2 DEF PacketID, Sound, Verdict, Screens, Undecided, Decided, Toward, Arriving,
       Together, Ahead, Between, First, Last, Scored
  <1>9. Together(h, g2, W, U2)
    BY <1>1, <1>2 DEF PacketID, Sound, Verdict, Screens, Undecided, Decided, Toward, Arriving,
       Together, Ahead, Between, First, Last, Scored
  <1>10. Scored(g2, h, U2, W, {})
    BY <1>1, <1>2 DEF Sound, Verdict, Screens, Undecided, Decided, Toward, Arriving, Together, Level,
       Scored, Win, Lose
  <1>11. Scored(h, g2, W, U2, Q)
    BY <1>1, <1>2 DEF Sound, Verdict, Screens, Undecided, Decided, Toward, Arriving, Together, Level,
       Scored, Win, Lose
  <1>12. (g2.open \/ U2 = {}) /\ (h.open \/ W = {})
    BY <1>1, <1>2 DEF Toward, Arriving, Screens, Sound
  <1>13. Match(g2, h, U2, W, {}, Q)
    BY <1>3, <1>4, <1>5, <1>6, <1>7, <1>8, <1>9, <1>10, <1>11, <1>12 DEF Sound, Toward
  <1>14. QED
    BY <1>13 DEF g2

-----------------------------------------------------------------------------
(***************************************************************************)
(* What one step of one phone does to the players' money, to the delay of  *)
(* the round and to the outcome of the duel.                               *)
(***************************************************************************)

\* The money, the delay and the outcome of the duel are the same.
SamePurse(f, g) ==
  /\ f.money = g.money /\ f.opMoney = g.opMoney /\ f.randomTime = g.randomTime
  /\ f.won = g.won /\ f.lost = g.lost
\* So are the score, the request for another duel and the last round.
SameDuel(f, g) ==
  SamePurse(f, g) /\ f.open = g.open /\ f.lastDuel = g.lastDuel /\ f.tried = g.tried
  /\ f.tally = g.tally

\* Another screen changes nothing of the duel.
LEMMA GoesLeaves ==
  ASSUME NEW g \in Local, NEW v \in View
  PROVE  SameDuel(Goes(g, v), g) /\ Goes(g, v).view = v
  BY DEF Local, Goes, SameDuel, SamePurse

\* Nor does the end of the match.
LEMMA LostLeaves ==
  ASSUME NEW g \in Local
  PROVE  LET f == LostConnection(g) IN
         SamePurse(f, g) /\ f.tried = g.tried /\ f.view = "list" /\ ~f.open
  <1> DEFINE a == Goes(g, "list")
  <1>1. a \in Local /\ SameDuel(a, g) /\ a.view = "list"
    BY GoesType, GoesLeaves, ViewType
  <1> HIDE DEF a
  <1>2. LET f == [a EXCEPT !.opponentEndMatch = FALSE, !.userEndMatch = TRUE, !.open = FALSE]
        IN  SamePurse(f, a) /\ f.tried = a.tried /\ f.view = a.view /\ ~f.open
    BY <1>1 DEF Local, SamePurse
  <1>3. QED
    BY <1>1, <1>2 DEF LostConnection, a, SameDuel, SamePurse

\* Nor does its cancelling, whichever timer it stops.
LEMMA CancelledLeaves ==
  ASSUME NEW g \in Local,
         NEW f \in {Cancelled(g), [Cancelled(g) EXCEPT !.timer = FALSE],
                    [Cancelled(g) EXCEPT !.stray = FALSE]}
  PROVE  SamePurse(f, g) /\ f.tried = g.tried /\ f.view = "list" /\ ~f.open
  <1> DEFINE a == LostConnection(g)
             c == Cancelled(g)
  <1>1. a \in Local /\ SamePurse(a, g) /\ a.tried = g.tried /\ a.view = "list" /\ ~a.open
    BY LostConnectionType, LostLeaves
  <1>2. c = [a EXCEPT !.shot = FALSE, !.tally = NoRounds] /\ c \in Local
    BY CancelledType DEF Cancelled
  <1> HIDE DEF a, c
  <1>3. SamePurse(c, a) /\ c.tried = a.tried /\ c.view = a.view /\ c.open = a.open
    BY <1>1, <1>2 DEF Local, SamePurse
  <1>4. SamePurse(f, c) /\ f.tried = c.tried /\ f.view = c.view /\ f.open = c.open
    BY <1>2, ZenonT(60) DEF Local, SamePurse, c
  <1>5. QED
    BY <1>1, <1>3, <1>4 DEF SamePurse

\* Nor does a press of Start that does not begin the duel.
LEMMA ClickedLeaves ==
  ASSUME NEW g \in Local, ~(g.server /\ g.btnStartClick)
  PROVE  LET f == Waiting(StartClicked(g)) IN SameDuel(f, g) /\ f.view = g.view
  <1> DEFINE stray == g.stray \/ g.timer
             t == IF g.serverType THEN g ELSE [g EXCEPT !.stray = stray, !.timer = TRUE]
             s == IF t.server THEN [t EXCEPT !.btnStartClick = TRUE] ELSE t
             covers == s.view # "duel"
             f == [s EXCEPT !.waiting = covers]
  <1>1. stray \in BOOLEAN
    OBVIOUS
  <1> HIDE DEF stray
  <1>2. /\ t \in Local /\ SameDuel(t, g) /\ t.view = g.view
        /\ t.server = g.server /\ t.btnStartClick = g.btnStartClick
    <2> DEFINE u == [g EXCEPT !.stray = stray, !.timer = TRUE]
    <2>1. /\ u \in Local /\ SameDuel(u, g) /\ u.view = g.view
          /\ u.server = g.server /\ u.btnStartClick = g.btnStartClick
      BY <1>1, ZenonT(60) DEF Local, SameDuel, SamePurse
    <2>2. SameDuel(g, g)
      BY DEF SameDuel, SamePurse
    <2> HIDE DEF u
    <2>3. t = g \/ t = u
      BY DEF u
    <2>4. QED
      BY <2>1, <2>2, <2>3
  <1>3. StartClicked(g) = StartDuel(t)
    BY DEF StartClicked, stray
  <1> HIDE DEF t
  <1>4. StartDuel(t) = s
    BY <1>2 DEF StartDuel
  <1>5. s \in Local /\ SameDuel(s, t) /\ s.view = t.view
    <2> DEFINE u == [t EXCEPT !.btnStartClick = TRUE]
    <2>1. u \in Local /\ SameDuel(u, t) /\ u.view = t.view
      BY <1>2 DEF Local, SameDuel, SamePurse
    <2>2. SameDuel(t, t)
      BY DEF SameDuel, SamePurse
    <2> HIDE DEF u
    <2>3. s = t \/ s = u
      BY DEF u
    <2>4. QED
      BY <1>2, <2>1, <2>2, <2>3
  <1>6. covers \in BOOLEAN
    OBVIOUS
  <1>7. Waiting(StartClicked(g)) = f
    BY <1>3, <1>4 DEF Waiting
  <1> HIDE DEF s, covers
  <1>8. SameDuel(f, s) /\ f.view = s.view
    BY <1>5, <1>6 DEF Local, SameDuel, SamePurse
  <1>9. QED
    BY <1>2, <1>5, <1>7, <1>8 DEF SameDuel, SamePurse

\* Nor does a press of Next.
LEMMA NextLeaves ==
  ASSUME NEW g \in Local
  PROVE  LET f == NextDuelStart(g) IN SameDuel(f, g) /\ f.view \in {g.view, "duel"}
  <1> DEFINE fresh == [g EXCEPT !.endDuel = FALSE, !.shot = FALSE]
  <1>1. fresh \in Local /\ SameDuel(fresh, g) /\ fresh.view = g.view
    BY DEF Local, SameDuel, SamePurse
  <1>2. NextDuelStart(g) = IF g.btnStartClick THEN Goes(fresh, "duel")
                           ELSE [fresh EXCEPT !.btnStartClick = TRUE, !.waiting = TRUE]
    BY DEF NextDuelStart
  <1> HIDE DEF fresh
  <1>3. SameDuel(Goes(fresh, "duel"), fresh) /\ Goes(fresh, "duel").view = "duel"
    BY <1>1, GoesLeaves, ViewType
  <1>4. LET f == [fresh EXCEPT !.btnStartClick = TRUE, !.waiting = TRUE]
        IN  SameDuel(f, fresh) /\ f.view = fresh.view
    BY <1>1 DEF Local, SameDuel, SamePurse
  <1>5. QED
    BY <1>1, <1>2, <1>3, <1>4 DEF SameDuel, SamePurse

\* Nor does a press of Back: nobody owes money.
LEMMA BackLeaves ==
  ASSUME NEW g \in Local, g.money >= 0
  PROVE  LET f == [Goes(g, "list") EXCEPT !.userEndMatch = TRUE, !.money = IF @ < 0 THEN 0 ELSE @]
         IN  f \in Local /\ SameDuel(f, g) /\ f.view = "list"
  <1> DEFINE a == Goes(g, "list")
             k == IF a.money < 0 THEN 0 ELSE a.money
             f == [a EXCEPT !.userEndMatch = TRUE, !.money = k]
  <1>1. a \in Local /\ SameDuel(a, g) /\ a.view = "list"
    BY GoesType, GoesLeaves, ViewType
  <1>2. k = a.money /\ k \in Int
    BY <1>1, FieldTypes DEF SameDuel, SamePurse
  <1>3. f = [Goes(g, "list") EXCEPT !.userEndMatch = TRUE, !.money = IF @ < 0 THEN 0 ELSE @]
    OBVIOUS
  <1> HIDE DEF a, k
  <1>4. f \in Local /\ SameDuel(f, a) /\ f.view = a.view
    BY <1>1, <1>2, ZenonT(60) DEF Local, SameDuel, SamePurse
  <1>5. QED
    BY <1>1, <1>3, <1>4 DEF SameDuel, SamePurse

\* What is noted without leaving the screen.
LEMMA NotesLeave ==
  ASSUME NEW g \in Local
  PROVE  /\ LET f == [g EXCEPT !.shot = TRUE, !.btnStartClick = FALSE] IN SameDuel(f, g) /\ f.view = g.view
         /\ LET f == [g EXCEPT !.shot = FALSE] IN f \in Local /\ SameDuel(f, g) /\ f.view = g.view
         /\ LET f == [g EXCEPT !.btnStartClick = TRUE] IN SameDuel(f, g) /\ f.view = g.view
         /\ LET f == [g EXCEPT !.opponentEndMatch = TRUE] IN SameDuel(f, g) /\ f.view = g.view
  BY DEF Local, SameDuel, SamePurse

\* A phone that asks for another duel.
LEMMA TryLeaves ==
  ASSUME NEW g \in Local, NEW t \in Nat
  PROVE  LET f == [MatchStarted(g) EXCEPT !.randomTime = t, !.waiting = TRUE, !.won = 0,
                                          !.lost = 0, !.tried = TRUE]
         IN  /\ f.money = g.money /\ f.opMoney = g.opMoney /\ f.randomTime = t
             /\ f.won = 0 /\ f.lost = 0 /\ f.tried /\ f.open = g.open /\ f.lastDuel = g.lastDuel
             /\ f.view = g.view
  <1> DEFINE s == MatchStarted(g)
             u == [s EXCEPT !.randomTime = t, !.waiting = TRUE]
  <1>1. s \in Local
    BY MatchStartedType
  <1>2. /\ s.money = g.money /\ s.opMoney = g.opMoney /\ s.open = g.open /\ s.lastDuel = g.lastDuel
        /\ s.view = g.view
    BY DEF Local, MatchStarted
  <1> HIDE DEF s
  <1>3. /\ u \in Local /\ u.money = s.money /\ u.opMoney = s.opMoney /\ u.open = s.open
        /\ u.lastDuel = s.lastDuel /\ u.view = s.view /\ u.randomTime = t
    BY <1>1 DEF Local
  <1> HIDE DEF u
  <1>4. LET f == [u EXCEPT !.won = 0, !.lost = 0, !.tried = TRUE]
        IN  /\ f.money = u.money /\ f.opMoney = u.opMoney /\ f.randomTime = u.randomTime
            /\ f.won = 0 /\ f.lost = 0 /\ f.tried /\ f.open = u.open /\ f.lastDuel = u.lastDuel
            /\ f.view = u.view
    BY <1>3 DEF Local
  <1>5. QED
    BY <1>2, <1>3, <1>4 DEF u, s

\* A phone that receives TIME.
LEMMA MetLeaves ==
  ASSUME NEW g \in Local, NEW m \in Int, NEW t \in Nat
  PROVE  LET f == Met(g, m, t)
         IN  /\ f.money = g.money /\ f.opMoney = m /\ f.randomTime = t
             /\ f.won = g.won /\ f.lost = g.lost /\ f.tried = g.tried /\ f.open = g.open
             /\ f.lastDuel = g.lastDuel /\ f.view = "start"
  <1> DEFINE b == MatchStarted(g)
             s == Goes(b, "start")
  <1>1. b \in Local /\ s \in Local
    BY MatchStartedType, GoesType, ViewType
  <1>2. /\ b.money = g.money /\ b.won = g.won /\ b.lost = g.lost /\ b.tried = g.tried
        /\ b.open = g.open /\ b.lastDuel = g.lastDuel
    BY DEF Local, MatchStarted
  <1> HIDE DEF b
  <1>3. SameDuel(s, b) /\ s.view = "start"
    BY <1>1, GoesLeaves, ViewType
  <1> HIDE DEF s
  <1>4. LET f == [s EXCEPT !.server = FALSE, !.opMoney = m, !.randomTime = t,
                           !.serverType = TRUE, !.mayStart = TRUE]
        IN  /\ f.money = s.money /\ f.opMoney = m /\ f.randomTime = t
            /\ f.won = s.won /\ f.lost = s.lost /\ f.tried = s.tried /\ f.open = s.open
            /\ f.lastDuel = s.lastDuel /\ f.view = s.view
    BY <1>1 DEF Local
  <1>5. QED
    BY <1>2, <1>3, <1>4 DEF s, b, Met, SameDuel, SamePurse

\* A phone that receives TIME_TRY.
LEMMA AskedLeaves ==
  ASSUME NEW g \in Local, NEW m \in Int, NEW t \in Nat
  PROVE  LET f == Asked(g, m, t)
         IN  /\ f.money = g.money /\ f.opMoney = m /\ f.randomTime = t
             /\ f.won = 0 /\ f.lost = 0 /\ f.tried = g.tried /\ f.open = g.open
             /\ f.lastDuel = g.lastDuel /\ f.view = "start"
  <1> DEFINE a == [Goes(g, "start") EXCEPT
                     !.tally = NoRounds, !.shot = FALSE, !.endDuel = FALSE, !.btnStartClick = FALSE,
                     !.server = FALSE, !.opMoney = m, !.randomTime = t]
             f == Asked(g, m, t)
  <1>1. DOMAIN a = DOMAIN g
    BY DEF Goes
  <1>2. /\ a.money = g.money /\ a.opMoney = m /\ a.randomTime = t /\ a.tried = g.tried
        /\ a.open = g.open /\ a.lastDuel = g.lastDuel /\ a.view = "start"
    BY DEF Local, Goes
  <1> HIDE DEF a
  <1> DEFINE x == a.serverType \/ g.view = "list"
             y == a.mayStart \/ g.view # "start"
             z == g.waiting /\ g.view = "start"
             c == [a EXCEPT !.serverType = x, !.mayStart = y, !.waiting = z]
  <1>3. f = [c EXCEPT !.won = 0, !.lost = 0] /\ DOMAIN c = DOMAIN a
    BY ZenonT(60) DEF a, Asked
  <1> HIDE DEF x, y, z, f
  <1>4. /\ c.money = a.money /\ c.opMoney = a.opMoney /\ c.randomTime = a.randomTime
        /\ c.tried = a.tried /\ c.open = a.open /\ c.lastDuel = a.lastDuel /\ c.view = a.view
    BY <1>1 DEF Local
  <1> HIDE DEF c
  <1>5. /\ f.money = c.money /\ f.opMoney = c.opMoney /\ f.randomTime = c.randomTime
        /\ f.tried = c.tried /\ f.open = c.open /\ f.lastDuel = c.lastDuel /\ f.view = c.view
        /\ f.won = 0 /\ f.lost = 0
    BY <1>1, <1>3 DEF Local
  <1>6. QED
    BY <1>2, <1>4, <1>5 DEF f

\* A phone that receives OPONTYPE_RESPONSE_TRY.
LEMMA AgreedLeaves ==
  ASSUME NEW g \in Local, NEW m \in Int, NEW covered \in BOOLEAN, ~g.btnStartClick
  PROVE  LET f == Agreed(g, m, covered)
         IN  /\ f.money = g.money /\ f.opMoney = m /\ f.randomTime = g.randomTime
             /\ f.won = g.won /\ f.lost = g.lost /\ ~f.tried /\ f.open = g.open
             /\ f.tally = g.tally /\ f.lastDuel = g.lastDuel /\ f.view = "start"
  <1> DEFINE s == Ready(g, m)
             t == IF s.serverType THEN s ELSE [s EXCEPT !.stray = @ \/ s.timer, !.timer = TRUE]
             b == [t EXCEPT !.btnStartClick = TRUE]
             f == Agreed(g, m, covered)
  <1>1. DOMAIN s = DOMAIN g /\ DOMAIN t = DOMAIN g /\ DOMAIN b = DOMAIN g
    BY DEF Goes, Ready
  <1>2. /\ s.money = g.money /\ s.opMoney = m /\ s.randomTime = g.randomTime
        /\ s.won = g.won /\ s.lost = g.lost /\ s.tried = FALSE /\ s.open = g.open
        /\ s.tally = g.tally /\ s.lastDuel = g.lastDuel /\ s.view = "start"
        /\ s.server = TRUE /\ s.btnStartClick = g.btnStartClick
    BY DEF Local, Goes, Ready
  <1> HIDE DEF s
  <1>3. /\ b.money = s.money /\ b.opMoney = s.opMoney /\ b.randomTime = s.randomTime
        /\ b.won = s.won /\ b.lost = s.lost /\ b.tried = s.tried /\ b.open = s.open
        /\ b.tally = s.tally /\ b.lastDuel = s.lastDuel /\ b.view = s.view
    BY <1>1 DEF Local
  <1>4. StartClicked(s) = b
    BY <1>2 DEF StartClicked, StartDuel
  <1> HIDE DEF b
  <1>5. f = [[b EXCEPT !.waiting = b.view # "duel"] EXCEPT !.waiting = @ /\ covered]
    BY <1>4 DEF Waiting, Agreed, s
  <1> HIDE DEF f
  <1>6. /\ f.money = b.money /\ f.opMoney = b.opMoney /\ f.randomTime = b.randomTime
        /\ f.won = b.won /\ f.lost = b.lost /\ f.tried = b.tried /\ f.open = b.open
        /\ f.tally = b.tally /\ f.lastDuel = b.lastDuel /\ f.view = b.view
    BY <1>1, <1>5 DEF Local
  <1>7. QED
    BY <1>2, <1>3, <1>6 DEF f

\* What the loser of a duel pays.
Paid(m) == IF m > Tenth(m) THEN Tenth(m) ELSE m

\* One who has money pays a whole tenth.
LEMMA PaidTenth ==
  ASSUME NEW m \in Int, m > 0
  PROVE  Paid(m) = Tenth(m) /\ Tenth(m) \in Int
  BY DEF Paid, Tenth

\* The scenes keep the round's delay.
LEMMA ScenesKeepTime ==
  ASSUME NEW g \in Local
  PROVE  /\ WinScene(g).randomTime = g.randomTime /\ LoseScene(g).randomTime = g.randomTime
         /\ LastScene(g).randomTime = g.randomTime
  BY DEF Local, WinScene, LoseScene, LastScene

\* What a duel won brings, and what one lost costs.
LEMMA ScenesPay ==
  ASSUME NEW g \in Local, g.money >= 0
  PROVE  /\ LET f == LastScene(WinScene(g)) IN
            /\ f.money = g.money + Tenth(g.opMoney) /\ f.opMoney = g.opMoney - Tenth(g.opMoney)
            /\ f.randomTime = g.randomTime /\ f \in Local
         /\ LET f == LastScene(LoseScene(g)) IN
            /\ f.money = g.money - Paid(g.money) /\ f.opMoney = g.opMoney + Tenth(g.money)
            /\ f.randomTime = g.randomTime /\ f \in Local
  <1> DEFINE w == WinScene(g)
             l == LoseScene(g)
             k == Tenth(g.money)
  <1>1. /\ w \in Local /\ w.amount = Tenth(g.opMoney) /\ w.money = g.money + w.amount
        /\ w.opMoney = g.opMoney - w.amount /\ w.randomTime = g.randomTime
    BY WinSceneFacts, ScenesKeepTime
  <1>2. /\ l \in Local /\ l.money = g.money + l.amount
        /\ l.amount = -(IF g.money > Tenth(g.money) THEN Tenth(g.money) ELSE g.money)
        /\ l.opMoney = g.opMoney + Tenth(g.money) /\ l.randomTime = g.randomTime
    BY LoseSceneFacts, ScenesKeepTime
  <1>3. g.money \in Int /\ k \in Int
    BY FieldTypes, TenthType
  <1>4. l.money = g.money - Paid(g.money)
    <2>1. l.amount = -Paid(g.money) /\ Paid(g.money) \in Int
      BY <1>2, <1>3 DEF Paid
    <2> HIDE DEF l
    <2>2. QED
      BY <1>2, <1>3, <2>1
  <1> HIDE DEF w, l
  <1>5. LET f == LastScene(w) IN
        f.money = w.money /\ f.opMoney = w.opMoney /\ f.randomTime = w.randomTime /\ f \in Local
    BY <1>1, LastSceneFacts, ScenesKeepTime
  <1>6. LET f == LastScene(l) IN
        f.money = l.money /\ f.opMoney = l.opMoney /\ f.randomTime = l.randomTime /\ f \in Local
    BY <1>2, LastSceneFacts, ScenesKeepTime
  <1>7. QED
    BY <1>1, <1>2, <1>4, <1>5, <1>6 DEF w, l

\* What the result screen of a round makes of the players' money.
LEMMA FinalPays ==
  ASSUME NEW g \in Local, NEW r \in Result \ {"none"}, g.money >= 0,
         g.tally.win < 2, g.tally.lose < 2
  PROVE  LET f == NewFinal(g, r) IN
         /\ f.money = (IF Win(g, r) = 2 THEN g.money + Tenth(g.opMoney)
                       ELSE IF Lose(g, r) = 2 THEN g.money - Paid(g.money) ELSE g.money)
         /\ f.opMoney = (IF Win(g, r) = 2 THEN g.opMoney - Tenth(g.opMoney)
                         ELSE IF Lose(g, r) = 2 THEN g.opMoney + Tenth(g.money) ELSE g.opMoney)
         /\ f.randomTime = g.randomTime
  <1> DEFINE tally == CASE r = "won"  -> WinRound(g.tally)
                        [] r = "lost" -> LoseRound(g.tally)
                        [] OTHER      -> g.tally
             shown == [Goes(g, "final") EXCEPT
                    !.tally = tally, !.hasFinal = TRUE, !.lastDuel = FALSE,
                    !.booked = @ + g.copies * g.amount, !.copies = 0, !.amount = 10]
             won   == IF tally.win = 2 THEN WinScene(shown) ELSE shown
             lost  == IF tally.lose = 2 THEN LoseScene(won) ELSE won
             f     == NewFinal(g, r)
  <1>1. f = IF lost.lastDuel THEN LastScene(lost) ELSE lost
    BY DEF NewFinal
  <1>2. ~(Win(g, r) = 2 /\ Lose(g, r) = 2)
    BY FieldTypes DEF Win, Lose
  <1>3. tally \in Tally /\ tally.win = Win(g, r) /\ tally.lose = Lose(g, r)
    <2>1. tally \in Tally
      BY FieldTypes, ScoreTypes DEF Result
    <2>2. g.tally \in Tally /\ g.tally \in [number : Nat, win : Nat, lose : Nat]
      BY FieldTypes
    <2>3. CASE r = "won"
      <3>1. tally = WinRound(g.tally)
        BY <2>3
      <3> HIDE DEF tally
      <3>2. QED
        BY <3>1, <2>1, <2>2, <2>3, ScoreFacts DEF Win, Lose
    <2>4. CASE r = "lost"
      <3>1. tally = LoseRound(g.tally)
        BY <2>4
      <3> HIDE DEF tally
      <3>2. QED
        BY <3>1, <2>1, <2>2, <2>4, ScoreFacts DEF Win, Lose
    <2>5. CASE r = "even"
      BY <2>1, <2>2, <2>5 DEF Win, Lose
    <2>6. QED
      BY <2>3, <2>4, <2>5 DEF Result
  <1> HIDE DEF tally, f
  <1>4. shown \in Local
    <2> DEFINE t == Goes(g, "final")
               b == t.booked + g.copies * g.amount
    <2>1. t \in Local
      BY GoesType, ViewType
    <2>2. t.booked \in Int /\ g.copies \in Nat /\ g.amount \in Int
      BY <2>1, FieldTypes
    <2> HIDE DEF t
    <2>3. b \in Int
      BY <2>2
    <2> HIDE DEF b
    <2>4. [t EXCEPT !.tally = tally, !.hasFinal = TRUE, !.lastDuel = FALSE,
                    !.booked = b, !.copies = 0, !.amount = 10] \in Local
      BY <2>1, <2>3, <1>3, ShownType
    <2>5. QED
      BY <2>4 DEF t, b
  <1>5. /\ shown.money = g.money /\ shown.opMoney = g.opMoney /\ shown.randomTime = g.randomTime
        /\ shown.lastDuel = FALSE
    BY DEF Local, Goes
  <1> HIDE DEF shown
  <1>6. CASE Win(g, r) = 2
    <2>1. WinScene(shown).lastDuel = TRUE
      BY <1>4, WinSceneFacts
    <2>2. f = LastScene(WinScene(shown))
      BY <1>1, <1>2, <1>3, <1>6, <2>1
    <2>3. QED
      BY <1>4, <1>5, <1>6, <2>2, ScenesPay DEF f
  <1>7. CASE Lose(g, r) = 2
    <2>1. LoseScene(shown).lastDuel = TRUE
      BY <1>4, <1>5, LoseSceneFacts
    <2>2. f = LastScene(LoseScene(shown))
      BY <1>1, <1>2, <1>3, <1>7, <2>1
    <2>3. QED
      BY <1>2, <1>4, <1>5, <1>7, <2>2, ScenesPay DEF f
  <1>8. CASE Win(g, r) # 2 /\ Lose(g, r) # 2
    <2>1. f = shown
      BY <1>1, <1>3, <1>5, <1>8
    <2>2. QED
      BY <1>5, <1>8, <2>1 DEF f
  <1>9. QED
    BY <1>6, <1>7, <1>8

\* And what is noted on it changes nothing of that.
LEMMA ScreensPay ==
  ASSUME NEW g \in Local, g.money >= 0
  PROVE  /\ \A r \in Result :
              LET f == Settled(g, r)
                  n == NewFinal(g, r)
              IN  f.money = n.money /\ f.opMoney = n.opMoney /\ f.randomTime = n.randomTime
         /\ LET f == [NewFinal(g, "even") EXCEPT !.btnStartClick = FALSE]
                n == NewFinal(g, "even")
            IN  f.money = n.money /\ f.opMoney = n.opMoney /\ f.randomTime = n.randomTime
         /\ LET f == [LastScene(LoseScene(g)) EXCEPT !.shot = FALSE, !.tally = NoRounds]
            IN  /\ f.money = g.money - Paid(g.money) /\ f.opMoney = g.opMoney + Tenth(g.money)
                /\ f.randomTime = g.randomTime
  <1>1. ASSUME NEW n \in Local
        PROVE  /\ LET f == [n EXCEPT !.endDuel = TRUE, !.shot = TRUE, !.btnStartClick = FALSE]
                  IN  f.money = n.money /\ f.opMoney = n.opMoney /\ f.randomTime = n.randomTime
               /\ LET f == [n EXCEPT !.btnStartClick = FALSE]
                  IN  f.money = n.money /\ f.opMoney = n.opMoney /\ f.randomTime = n.randomTime
               /\ LET f == [n EXCEPT !.shot = FALSE, !.tally = NoRounds]
                  IN  f.money = n.money /\ f.opMoney = n.opMoney /\ f.randomTime = n.randomTime
    BY <1>1 DEF Local
  <1>2. \A r \in Result : NewFinal(g, r) \in Local
    BY NewFinalType
  <1>3. "even" \in Result
    BY DEF Result
  <1>4. LET n == LastScene(LoseScene(g)) IN
        /\ n \in Local
        /\ n.money = g.money - Paid(g.money) /\ n.opMoney = g.opMoney + Tenth(g.money)
        /\ n.randomTime = g.randomTime
    BY ScenesPay
  <1>5. QED
    BY <1>1, <1>2, <1>3, <1>4 DEF Settled
==============================================================================
