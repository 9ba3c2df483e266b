----------------------------- MODULE DuelSession -----------------------------
(***************************************************************************)
(* A match on two phones around its rounds, from the connection to the end *)
(* of it: the start screen, the best of three rounds, the result screen    *)
(* with its buttons (next round, run away, try again, back), and who pays  *)
(* whom.  Phone 0 is the host, phone 1 the guest that connected to it.     *)
(*                                                                         *)
(* A round itself is taken from RoundContract, which DuelRound implements: *)
(* one phone gets a result first, the other gets the opposite one from the *)
(* shot time that is under way to it.  Packets arrive in order, each once; *)
(* those of the readiness handshake are part of the round.                 *)
(***************************************************************************)
EXTENDS Integers, Sequences, Phones, RoundScore

CONSTANTS
  Money,        \* what each player owns when they meet
  RandomTimes,  \* what arc4random() % 6 may give: "FIRE!" is at 5 + randomTime
  MaxTries      \* bound on the further duels the players ask for

ASSUME SessionAssumption ==
  /\ Money \in Nat
  /\ RandomTimes \subseteq Nat /\ RandomTimes # {}
  /\ MaxTries \in Nat

VARIABLES
  ph,       \* the state of each phone (Local, below)
  net,      \* packets on their way to each phone, oldest first
  clock,    \* the shotTimer of each phone's last DuelViewController is running
  tries,    \* how often "TRY AGAIN" was pressed
  mishaps   \* history: the rare crossings that the properties name

vars == <<ph, net, clock, tries, mishaps>>

View == {"list", "start", "duel", "final"}

(***************************************************************************)
(* One phone.                                                              *)
(*   view        the screen on top: the main screen or a list, the         *)
(*               DuelStart-, Duel- or FinalViewController                  *)
(*   waiting     an activity indicator covers it: no button can be pressed *)
(*   open        the connection to the other phone                         *)
(* GameCenterViewController:                                               *)
(*   server, btnStartClick, userEndMatch, opponentEndMatch, endDuel        *)
(*   shot        the player has hit or fouled: carShotTime # 0             *)
(*   randomTime  added to 5 s for "FIRE!"                                  *)
(*   opMoney     oponentAccount.money                                      *)
(*   tally       mutchNumber, mutchNumberWin, mutchNumberLose              *)
(*   hasFinal    finalViewController # nil                                 *)
(* DuelStartViewController:                                                *)
(*   serverType, mayStart (_btnStart is shown), timer (waitTimer is running),*)
(*   stray (an earlier waitTimer is running that nothing refers to)        *)
(* FinalViewController, the last one made:                                 *)
(*   lastDuel                                                              *)
(*   amount, copies  the amount of its transaction, and how often that     *)
(*               object is in playerAccount.transactions                   *)
(* The account: money, and booked, the sum of the earlier transactions.    *)
(* History of this duel: won and lost (how often winScene and loseScene    *)
(* were played), tried (asked to try again, not answered yet).             *)
(***************************************************************************)
Local == [view : View, waiting : BOOLEAN, open : BOOLEAN,
          server : BOOLEAN, btnStartClick : BOOLEAN, userEndMatch : BOOLEAN,
          opponentEndMatch : BOOLEAN, endDuel : BOOLEAN, shot : BOOLEAN,
          randomTime : Nat, opMoney : Int, tally : Tally, hasFinal : BOOLEAN,
          serverType : BOOLEAN, mayStart : BOOLEAN, timer : BOOLEAN, stray : BOOLEAN,
          lastDuel : BOOLEAN, amount : Int, copies : Nat,
          money : Int, booked : Int,
          won : Nat, lost : Nat, tried : BOOLEAN]

PacketID == {"TIME", "OPONTYPE_RESPONSE", "START_DUEL", "START_DUEL_TRUE",
             "START_DUEL_FALSE", "SEND_SHOT_TIME", "RUN_AWAY", "TIME_TRY",
             "OPONTYPE_RESPONSE_TRY", "DUEL_CANSEL"}
Packet == [id : PacketID, money : Int, randomTime : Nat, result : Result]

Plain(id) == [id |-> id, money |-> 0, randomTime |-> 0, result |-> "none"]
Introduction(id, g) == [Plain(id) EXCEPT !.money = g.money, !.randomTime = g.randomTime]
ShotTime(r) == [Plain("SEND_SHOT_TIME") EXCEPT !.result = r]

\* twoTries         a phone is asked for another duel, or asks, with a request of
\*                  its own unanswered
\* bothRanAway      a player runs away from an opponent who just has
\* lateStart        "NEXT" and the opponent's "RUN AWAY", "TRY AGAIN" cross
\* limitAlone       the round's 30 s end on one phone only: the other has hit, or
\*                  one of the two has left the duel screen, its clock running on
\* leftDuel         a player leaves the duel screen with its "BACK"
\* calledBack       a player who went "BACK" is asked for another duel
Mishap == {"twoTries", "bothRanAway", "limitAlone", "lateStart", "leftDuel", "calledBack"}

TypeOK ==
  /\ ph \in [Phone -> Local]
  /\ \A p \in Phone : ph[p].timer => ph[p].view = "start"
  /\ net \in [Phone -> Seq(Packet)]
  /\ clock \in [Phone -> BOOLEAN]
  /\ tries \in 0 .. MaxTries
  /\ mishaps \subseteq Mishap

-----------------------------------------------------------------------------
(***************************************************************************)
(* Steps of one phone, as functions of its state.                          *)
(***************************************************************************)

\* Another screen comes to the top; leaving the start screen stops its timer.
Goes(g, v) ==
  [g EXCEPT !.view = v, !.waiting = FALSE,
            !.timer = @ /\ ~(g.view = "start" /\ v # "start")]

\* matchStarted, and the first half of matchStartedTry.
MatchStarted(g) ==
  [g EXCEPT !.tally = NoRounds, !.shot = FALSE, !.endDuel = FALSE, !.btnStartClick = FALSE,
            !.userEndMatch = FALSE, !.opponentEndMatch = FALSE]

LostConnection(g) ==
  [Goes(g, "list") EXCEPT !.opponentEndMatch = FALSE, !.userEndMatch = TRUE, !.open = FALSE]

\* duelCancel: after START_DUEL_FALSE has been sent.
Cancelled(g) == [LostConnection(g) EXCEPT !.shot = FALSE, !.tally = NoRounds]

\* startDuel: the asked phone (server) waits for START_DUEL, the other sends it.
StartDuel(g) ==
  IF ~g.server THEN g
  ELSE IF ~g.btnStartClick THEN [g EXCEPT !.btnStartClick = TRUE]
  ELSE Goes(g, "duel")
StartDuelSends(g) ==
  IF ~g.server THEN << Plain("START_DUEL") >>
  ELSE IF ~g.btnStartClick THEN << >>
  ELSE << Plain("START_DUEL_TRUE") >>

\* Seeded fault: nobody starts the timer.
StartClickedUntimed(g) == StartDuel(g)

\* startButtonClick: the guest's start screen gives the other 7 s.
StartClicked(g) ==
  LET timed == IF g.serverType THEN g
               ELSE [g EXCEPT !.stray = @ \/ g.timer, !.timer = TRUE]
  IN  StartDuel(timed)
Waiting(g) == [g EXCEPT !.waiting = g.view # "duel"]

\* Seeded fault: the phone forgets that its player is ready.
NextDuelStartForgets(g) ==
  LET fresh == [g EXCEPT !.endDuel = FALSE, !.shot = FALSE]
  IN  IF g.btnStartClick THEN Goes(fresh, "duel") ELSE [fresh EXCEPT !.waiting = TRUE]

\* nextDuelStart: the first to press asks, the second shows the duel.
NextDuelStart(g) ==
  LET fresh == [g EXCEPT !.endDuel = FALSE, !.shot = FALSE]
  IN  IF g.btnStartClick THEN Goes(fresh, "duel")
      ELSE [fresh EXCEPT !.btnStartClick = TRUE, !.waiting = TRUE]
NextDuelStartSends(g) ==
  << Plain(IF g.btnStartClick THEN "START_DUEL_TRUE" ELSE "START_DUEL") >>

(***************************************************************************)
(* FinalViewController: a tenth of the loser's money changes hands.        *)
(***************************************************************************)
Tenth(m) == IF m < 10 THEN 1 ELSE m \div 10

WinScene(g) ==
  LET moneyExch == Tenth(g.opMoney)
  IN  [g EXCEPT !.lastDuel = TRUE, !.money = @ + moneyExch, !.opMoney = @ - moneyExch,
                !.amount = moneyExch, !.won = @ + 1]

\* Seeded fault: the loser pays from what the winner has.
LoseSceneOfOpponent(g) ==
  LET moneyExch == Tenth(g.opMoney)
      paid == IF g.money > moneyExch THEN moneyExch ELSE g.money
  IN  [g EXCEPT !.lastDuel = TRUE, !.money = @ - paid, !.opMoney = @ + moneyExch,
                !.amount = -paid, !.lost = @ + 1]

LoseScene(g) ==
  LET moneyExch == Tenth(g.money)
      paid == IF g.money > moneyExch THEN moneyExch ELSE g.money
  IN  [g EXCEPT !.lastDuel = TRUE, !.money = @ - paid, !.opMoney = @ + moneyExch,
                !.amount = -paid, !.lost = @ + 1]

\* Seeded fault: the transaction is booked twice.
LastSceneTwice(g) == [g EXCEPT !.copies = @ + 2, !.waiting = @ /\ g.view # "final"]

\* lastScene books the screen's transaction and offers "TRY AGAIN" and "BACK".
LastScene(g) == [g EXCEPT !.copies = @ + 1, !.waiting = @ /\ g.view # "final"]

\* A new result screen: it scores the round and, after two wins or two losses,
\* settles the duel.
NewFinal(g, r) ==
  LET tally == CASE r = "won"  -> WinRound(g.tally)
                 [] r = "lost" -> LoseRound(g.tally)
                 [] OTHER      -> g.tally
      shown == [Goes(g, "final") EXCEPT
                  !.tally = tally, !.hasFinal = TRUE, !.lastDuel = FALSE,
                  !.booked = @ + g.copies * g.amount, !.copies = 0, !.amount = 10]
      won   == IF tally.win = 2 THEN WinScene(shown) ELSE shown
      lost  == IF tally.lose = 2 THEN LoseScene(won) ELSE won
  IN  IF lost.lastDuel THEN LastScene(lost) ELSE lost

\* The exchange of shot times comes to result r.
Settled(g, r) == [NewFinal(g, r) EXCEPT !.endDuel = TRUE, !.shot = TRUE, !.btnStartClick = FALSE]
-----------------------------------------------------------------------------
(***************************************************************************)
(* A phone with a closed connection receives nothing, and what it sends    *)
(* goes nowhere.                                                           *)
(***************************************************************************)
Deliver(queues, p, g, ms) ==
  [queues EXCEPT ![p] = IF g.open THEN @ ELSE << >>,
                 ![Other(p)] = IF ph[p].open /\ ph[Other(p)].open THEN @ \o ms ELSE @]

\* Phone p goes to state g by itself and sends the packets ms.
Acts(p, g, ms) ==
  /\ ph' = [ph EXCEPT ![p] = g]
  /\ net' = Deliver(net, p, g, ms)

\* Phone p goes to state g on receiving its oldest packet, and sends ms.
Handles(p, id, g, ms) ==
  /\ net[p] # << >> /\ Head(net[p]).id = id
  /\ ph[p].open
  /\ ph' = [ph EXCEPT ![p] = g]
  /\ net' = Deliver([net EXCEPT ![p] = Tail(@)], p, g, ms)
UnderWay(id, p) == \E i \in DOMAIN net[p] : net[p][i].id = id
-----------------------------------------------------------------------------
(***************************************************************************)
(* The buttons, for a player who is not kept waiting.                      *)
(***************************************************************************)
StartButton(p) ==
  /\ ph[p].view = "start" /\ ph[p].mayStart /\ ~ph[p].waiting
  /\ Acts(p, Waiting(StartClicked(ph[p])), StartDuelSends(ph[p]))
  /\ UNCHANGED <<clock, tries, mishaps>>

CancelButton(p) ==
  /\ ph[p].view = "start" /\ ~ph[p].waiting
  /\ Acts(p, Cancelled(ph[p]), << Plain("START_DUEL_FALSE") >>)
  /\ UNCHANGED <<clock, tries, mishaps>>

NextButton(p) ==
  /\ ph[p].view = "final" /\ ~ph[p].lastDuel /\ ~ph[p].waiting
  /\ Acts(p, NextDuelStart(ph[p]), NextDuelStartSends(ph[p]))
  /\ mishaps' = mishaps \union (IF UnderWay("RUN_AWAY", p) THEN {"lateStart"} ELSE {})
  /\ UNCHANGED <<clock, tries>>

\* Seeded fault: "RUN AWAY" is not turned into "BACK" when the duel is decided.
RunAwayButtonDecided(p) ==
  /\ ph[p].view = "final" /\ ~ph[p].waiting
  /\ Acts(p, [LastScene(LoseScene(ph[p])) EXCEPT
                !.shot = FALSE, !.tally = NoRounds],
          << Plain("RUN_AWAY") >>)
  /\ mishaps' = mishaps \union (IF UnderWay("RUN_AWAY", p) THEN {"bothRanAway"} ELSE {})
  /\ UNCHANGED <<clock, tries>>

\* backButtonClick before the duel is decided: "RUN AWAY".
RunAwayButton(p) ==
  /\ ph[p].view = "final" /\ ~ph[p].lastDuel /\ ~ph[p].waiting
  /\ Acts(p, [LastScene(LoseScene(ph[p])) EXCEPT
                !.shot = FALSE, !.tally = NoRounds],
          << Plain("RUN_AWAY") >>)
  /\ mishaps' = mishaps \union (IF UnderWay("RUN_AWAY", p) THEN {"bothRanAway"} ELSE {})
  /\ UNCHANGED <<clock, tries>>

\* backButtonClick after it: "BACK", and matchCanseled.
BackButton(p) ==
  LET left == [Goes(ph[p], "list") EXCEPT
                 !.userEndMatch = TRUE, !.money = IF @ < 0 THEN 0 ELSE @]
  IN  /\ ph[p].view = "final" /\ ph[p].lastDuel /\ ~ph[p].waiting
      /\ Acts(p, IF left.opponentEndMatch THEN LostConnection(left) ELSE left,
              << Plain("DUEL_CANSEL") >>)
      /\ UNCHANGED <<clock, tries, mishaps>>

\* tryButtonClick and matchStartedTry.
TryButton(p) ==
  \E t \in RandomTimes :
    LET g == [MatchStarted(ph[p]) EXCEPT !.randomTime = t, !.waiting = TRUE,
                !.won = 0, !.lost = 0, !.tried = TRUE]
    IN  /\ ph[p].view = "final" /\ ph[p].lastDuel /\ ~ph[p].waiting
        /\ tries < MaxTries /\ UNCHANGED clock
        /\ tries' = tries + 1
        /\ Acts(p, g, << Introduction("TIME_TRY", g) >>)
        /\ mishaps' = mishaps \union (IF UnderWay("START_DUEL", p) THEN {"lateStart"} ELSE {})
                        \union (IF ph[p].tried THEN {"twoTries"} ELSE {})

\* waitTimerTick: the guest has waited 7 s and leaves.  A timer that was
\* replaced before it fired does the same whatever is on top.
WaitTimer(p) ==
  /\ ph[p].open
  /\ \/ /\ ph[p].timer
        /\ Acts(p, [Cancelled(ph[p]) EXCEPT !.timer = FALSE], << Plain("START_DUEL_FALSE") >>)
     \/ /\ ph[p].stray
        /\ Acts(p, [Cancelled(ph[p]) EXCEPT !.stray = FALSE], << Plain("START_DUEL_FALSE") >>)
  /\ UNCHANGED <<clock, tries, mishaps>>
-----------------------------------------------------------------------------
(***************************************************************************)
(* The round.                                                              *)
(***************************************************************************)
Playing(p) == ph[p].view = "duel" /\ ph[p].open /\ ~ph[p].endDuel

Stop(p) == clock' = [clock EXCEPT ![p] = FALSE]

\* startDuel of the duel screen: the other has lowered its gun on its own, after
\* START_DUEL_TRUE; it may have left since.
ClockStarts(p) ==
  /\ Playing(p) /\ ~ph[p].shot /\ ~clock[p] /\ ~UnderWay("START_DUEL_TRUE", p)
  /\ Playing(Other(p)) \/ ~ph[Other(p)].open
  /\ clock' = [clock EXCEPT ![p] = TRUE]
  /\ UNCHANGED <<ph, net, tries, mishaps>>

\* A hit or a foul: the clock of p stands still until the other answers.
Hit(p) ==
  /\ Playing(p) /\ clock[p]
  /\ ph' = [ph EXCEPT ![p].shot = TRUE, ![p].btnStartClick = FALSE]
  /\ Stop(p)
  /\ UNCHANGED <<net, tries, mishaps>>

\* The first of the phones gets a result, by a time of the other's that arrived
\* after all the other had sent before; the other will get the opposite.  Without
\* a time of its own, p can only win, by a foul.
FirstToSettle(p) ==
  /\ Playing(p) /\ Playing(Other(p)) /\ net[p] = << >> /\ ph[Other(p)].shot
  /\ \E r \in Result \ {"none"} :
       /\ ph[p].shot \/ r = "won"
       /\ Acts(p, Settled(ph[p], r), << ShotTime(Opposite(r)) >>)
  /\ Stop(p)
  /\ UNCHANGED <<tries, mishaps>>

\* duelTimerEnd, 30 s after any packet.  Nobody shot: the clocks, started a
\* packet apart, both run to the limit before a player can press anything.
NobodyShot ==
  /\ \A p \in Phone : Playing(p) /\ clock[p] /\ net[p] = << >>
  /\ ph' = [p \in Phone |-> [NewFinal(ph[p], "even") EXCEPT !.btnStartClick = FALSE]]
  /\ clock' = [p \in Phone |-> FALSE]
  /\ UNCHANGED <<net, tries, mishaps>>

\* Or the clock of p alone runs to it, whatever is on top and whether or not the
\* connection stands: lostConnection stops no clock.  A hit of the other may have
\* arrived by then (one that has left since may have hit before).
LimitAlone(p) ==
  /\ clock[p] /\ ~\A q \in Phone : Playing(q) /\ clock[q]
  /\ \E r \in {"even", "lost"} :
       /\ r = "lost" => ph[Other(p)].shot \/ ~ph[Other(p)].open
       /\ ph' = [ph EXCEPT ![p] = [NewFinal(@, r) EXCEPT !.btnStartClick = FALSE]]
  /\ Stop(p)
  /\ mishaps' = mishaps \union {"limitAlone"}
  /\ UNCHANGED <<net, tries>>

\* "BACK" on the duel screen, nothing being sent; after a hit or a foul an indicator
\* covers it.
DuelBackButton(p) ==
  /\ ph[p].view = "duel" /\ ~ph[p].shot
  /\ Acts(p, LostConnection(ph[p]), << >>)
  /\ mishaps' = mishaps \union {"leftDuel"}
  /\ UNCHANGED <<clock, tries>>

ReceiveShotTime(p) ==
  LET g == ph[p]
  IN  /\ Handles(p, "SEND_SHOT_TIME",
                 IF g.endDuel THEN g ELSE Settled(g, Head(net[p]).result), << >>)
      /\ IF g.endDuel THEN UNCHANGED clock ELSE Stop(p)
      /\ UNCHANGED <<tries, mishaps>>
-----------------------------------------------------------------------------
(***************************************************************************)
(* GameCenterViewController.receiveData, one action per packet.            *)
(***************************************************************************)
ReceiveTime(p) ==
  LET m == Head(net[p])
      g == [Goes(MatchStarted(ph[p]), "start") EXCEPT
              !.server = FALSE, !.opMoney = m.money, !.randomTime = m.randomTime,
              !.serverType = TRUE, !.mayStart = TRUE]
  IN  /\ Handles(p, "TIME", g, << Introduction("OPONTYPE_RESPONSE", g) >>)
      /\ UNCHANGED <<clock, tries, mishaps>>

ReceiveResponse(p) ==
  LET g == [ph[p] EXCEPT !.endDuel = FALSE, !.server = TRUE, !.opMoney = Head(net[p]).money]
  IN  /\ Handles(p, "OPONTYPE_RESPONSE", Waiting(StartClicked(g)), StartDuelSends(g))
      /\ UNCHANGED <<clock, tries, mishaps>>

\* Seeded fault: the next round's clock and verdict are not reset.
ReceiveTimeTryUnreset(p) ==
  LET m == Head(net[p])
      g == [Goes(ph[p], "start") EXCEPT
              !.shot = FALSE, !.endDuel = FALSE, !.btnStartClick = FALSE,
              !.server = FALSE, !.opMoney = m.money, !.randomTime = m.randomTime,
              !.serverType = @ \/ ph[p].view = "list",
              !.mayStart = @ \/ ph[p].view # "start",
              !.won = 0, !.lost = 0]
  IN  /\ Handles(p, "TIME_TRY", g, << Introduction("OPONTYPE_RESPONSE_TRY", g) >>)
      /\ mishaps' = mishaps \union (IF ph[p].tried THEN {"twoTries"} ELSE {})
                        \union (IF ph[p].view = "list" THEN {"calledBack"} ELSE {})
      /\ UNCHANGED <<clock, tries>>

\* The other player wants another duel.  (The test of isTryAgain and server is
\* never met: server has just been reset.)  The main screen has let go of the
\* start screen; the one made in its place is that of a host.
ReceiveTimeTry(p) ==
  LET m == Head(net[p])
      g == [Goes(ph[p], "start") EXCEPT
              !.tally = NoRounds, !.shot = FALSE, !.endDuel = FALSE, !.btnStartClick = FALSE,
              !.server = FALSE, !.opMoney = m.money, !.randomTime = m.randomTime,
              !.serverType = @ \/ ph[p].view = "list",
              !.mayStart = @ \/ ph[p].view # "start",
              !.waiting = ph[p].waiting /\ ph[p].view = "start",
              !.won = 0, !.lost = 0]
  IN  /\ Handles(p, "TIME_TRY", g, << Introduction("OPONTYPE_RESPONSE_TRY", g) >>)
      /\ mishaps' = mishaps \union (IF ph[p].tried THEN {"twoTries"} ELSE {})
                        \union (IF ph[p].view = "list" THEN {"calledBack"} ELSE {})
      /\ UNCHANGED <<clock, tries>>

\* The other agrees.  Whether the indicator shown by startButtonClick survives
\* the start screen's viewWillAppear depends on when the animated pop calls it.
ReceiveResponseTry(p) ==
  LET g == [Goes(ph[p], "start") EXCEPT
              !.endDuel = FALSE, !.server = TRUE, !.opMoney = Head(net[p]).money,
              !.mayStart = @ /\ ph[p].view = "start", !.tried = FALSE]
  IN  /\ \E covered \in {TRUE, ph[p].view = "start"} :
           Handles(p, "OPONTYPE_RESPONSE_TRY",
                   [Waiting(StartClicked(g)) EXCEPT !.waiting = @ /\ covered],
                   StartDuelSends(g))
      /\ UNCHANGED <<clock, tries, mishaps>>

ReceiveStartDuel(p) ==
  LET g == [ph[p] EXCEPT !.shot = FALSE]
  IN  /\ IF g.btnStartClick
         THEN Handles(p, "START_DUEL", Goes(g, "duel"), << Plain("START_DUEL_TRUE") >>)
         ELSE Handles(p, "START_DUEL", [g EXCEPT !.btnStartClick = TRUE], << >>)
      /\ UNCHANGED <<clock, tries, mishaps>>

ReceiveStartDuelTrue(p) ==
  /\ Handles(p, "START_DUEL_TRUE",
             IF ph[p].view = "duel" THEN ph[p] ELSE Goes(ph[p], "duel"), << >>)
  /\ UNCHANGED <<clock, tries, mishaps>>

ReceiveStartDuelFalse(p) ==
  /\ Handles(p, "START_DUEL_FALSE", LostConnection(ph[p]), << >>)
  /\ UNCHANGED <<clock, tries, mishaps>>

\* Sent to the last result screen there was, on top or not.
ReceiveRunAway(p) ==
  /\ Handles(p, "RUN_AWAY",
             IF ph[p].hasFinal THEN LastScene(WinScene(ph[p])) ELSE ph[p], << >>)
  /\ UNCHANGED <<clock, tries, mishaps>>

\* Seeded fault: the other player's leaving ends the match at once.
ReceiveDuelCanselAtOnce(p) ==
  /\ Handles(p, "DUEL_CANSEL", LostConnection(ph[p]), << >>)
  /\ UNCHANGED <<clock, tries, mishaps>>

ReceiveDuelCansel(p) ==
  /\ Handles(p, "DUEL_CANSEL",
             IF ph[p].userEndMatch THEN LostConnection(ph[p])
             ELSE [ph[p] EXCEPT !.opponentEndMatch = TRUE], << >>)
  /\ UNCHANGED <<clock, tries, mishaps>>

\* The link notices that the other side is gone (its own module): messageShow.
LinkLost(p) ==
  /\ ph[p].open /\ ~ph[Other(p)].open /\ net[p] = << >>
  /\ Acts(p, LostConnection(ph[p]), << >>)
  /\ UNCHANGED <<clock, tries, mishaps>>
-----------------------------------------------------------------------------
(***************************************************************************)
(* The guest has connected, on its start screen, and introduced itself.    *)
(***************************************************************************)
Idle == [view |-> "list", waiting |-> FALSE, open |-> TRUE,
         server |-> FALSE, btnStartClick |-> FALSE, userEndMatch |-> FALSE,
         opponentEndMatch |-> FALSE, endDuel |-> FALSE, shot |-> FALSE,
         randomTime |-> 0, opMoney |-> 0, tally |-> NoRounds, hasFinal |-> FALSE,
         serverType |-> FALSE, mayStart |-> FALSE, timer |-> FALSE, stray |-> FALSE,
         lastDuel |-> FALSE, amount |-> 10, copies |-> 0,
         money |-> Money, booked |-> 0, won |-> 0, lost |-> 0, tried |-> FALSE]

Init ==
  \E t \in RandomTimes :
    LET guest == [Idle EXCEPT !.view = "start", !.randomTime = t]
    IN  /\ ph = [p \in Phone |-> IF p = 0 THEN Idle ELSE guest]
        /\ net = [p \in Phone |-> IF p = 0 THEN << Introduction("TIME", guest) >> ELSE << >>]
        /\ clock = [p \in Phone |-> FALSE]
        /\ tries = 0
        /\ mishaps = {}

Player(p) ==
  \/ StartButton(p) \/ CancelButton(p) \/ NextButton(p) \/ RunAwayButton(p)
  \/ BackButton(p) \/ TryButton(p) \/ DuelBackButton(p)

Round(p) == ClockStarts(p) \/ Hit(p) \/ FirstToSettle(p) \/ NobodyShot \/ LimitAlone(p)

Receive(p) ==
  \/ ReceiveTime(p) \/ ReceiveResponse(p) \/ ReceiveStartDuel(p)
  \/ ReceiveStartDuelTrue(p) \/ ReceiveStartDuelFalse(p) \/ ReceiveShotTime(p)
  \/ ReceiveRunAway(p) \/ ReceiveTimeTry(p) \/ ReceiveResponseTry(p)
  \/ ReceiveDuelCansel(p)

Next == \E p \in Phone : Player(p) \/ Round(p) \/ Receive(p) \/ WaitTimer(p) \/ LinkLost(p)

Spec == Init /\ [][Next]_vars

\* The run loop delivers packets and timers, the link notices a lost phone;
\* nobody has to press a button or to shoot.
Fairness ==
  \A p \in Phone : WF_vars(Receive(p)) /\ WF_vars(WaitTimer(p)) /\ WF_vars(LinkLost(p))

FairSpec == Spec /\ Fairness
-----------------------------------------------------------------------------
Without(m) == mishaps \intersect m = {}

BestOfThree == [number : 0 .. 3, win : 0 .. 2, lose : 0 .. 2]

(***************************************************************************)
(* A duel is settled at most once on each phone, won on one and lost on    *)
(* the other, after at most two wins or losses: neither a round's result   *)
(* nor RUN_AWAY, handed to a result screen that may be an old one, settles *)
(* it again.  The three crossings are those in which the code does.        *)
(***************************************************************************)
DuelSettledOnce ==
  Without({"bothRanAway", "limitAlone", "lateStart"}) =>
    /\ \A p \in Phone : ph[p].won + ph[p].lost <= 1 /\ ph[p].tally \in BestOfThree
    /\ ~(ph[0].won > 0 /\ ph[1].won > 0)
    /\ ~(ph[0].lost > 0 /\ ph[1].lost > 0)

(***************************************************************************)
(* Each phone moves the money by what it believes of the other; when       *)
(* nothing is under way and both have settled alike, none was made and     *)
(* none lost.  (With Money so large that nobody is left without any.  A    *)
(* match that was cut off before a player was told how it ended counts     *)
(* only if the duel was won on one of the phones.)                         *)
(***************************************************************************)
Quiet == \A p \in Phone : net[p] = << >>
SettledAlike ==
  /\ Quiet
  /\ \A p \in Phone : ph[p].won = ph[Other(p)].lost
  /\ (\A p \in Phone : ph[p].open) \/ (\E p \in Phone : ph[p].won > 0)
MoneyMoves ==
  SettledAlike /\ Without({"bothRanAway", "limitAlone", "lateStart"}) =>
    ph[0].money + ph[1].money = 2 * Money

(***************************************************************************)
(* What playerAccount.transactions adds up to is what the player won and   *)
(* lost: no result screen books a transaction twice, or changes one it has *)
(* booked.                                                                 *)
(***************************************************************************)
Booked ==
  Without({"bothRanAway", "limitAlone", "lateStart"}) =>
    \A p \in Phone : ph[p].booked + ph[p].copies * ph[p].amount = ph[p].money - Money

\* A duel is settled once, and what is booked for it is what it moved.
SettledOnce == TypeOK /\ DuelSettledOnce /\ Booked

(***************************************************************************)
(* Two phones that show a duel begin its round alike: same "FIRE!", same   *)
(* standing, each knowing what the other owns, no verdict left over.       *)
(***************************************************************************)
FairRound ==
  (\A p \in Phone : ph[p].view = "duel" /\ ph[p].open) /\ Without({"twoTries", "lateStart"}) =>
    \A p \in Phone :
      /\ ph[p].randomTime = ph[Other(p)].randomTime
      /\ ph[p].tally.win = ph[Other(p)].tally.lose
      /\ ~ph[p].endDuel
      /\ ph[p].opMoney = ph[Other(p)].money \/ ~Without({"bothRanAway", "limitAlone", "lateStart"})

(***************************************************************************)
(* A player's leaving with "BACK" ends the match for a player only who has *)
(* left as well: DUEL_CANSEL throws nobody off a screen of the match.  (One *)
(* called back from the main screen is still marked as having left.)       *)
(***************************************************************************)
EndTakesBoth ==
  [][\A p \in Phone :
       ReceiveDuelCansel(p) /\ ~ph'[p].open
         => ph[p].view = "list" \/ ~Without({"calledBack"})]_vars

(***************************************************************************)
(* Two players who both press "NEXT ROUND", in whatever order START_DUEL   *)
(* crosses, get their next round, unless one leaves its duel screen again  *)
(* before the other's is up.                                               *)
(***************************************************************************)
WantsNext(p) == ph[p].view = "final" /\ ~ph[p].lastDuel /\ ph[p].waiting
NextRoundStarts ==
  (WantsNext(0) /\ WantsNext(1) /\ mishaps = {})
    ~> (ph[0].view = "duel" /\ ph[1].view = "duel") \/ ~Without({"leftDuel"})

(***************************************************************************)
(* Two connected players are not both kept waiting for ever: if START_DUEL *)
(* is not coming, a 7 s timer frees them.  (A player who had gone back to  *)
(* the main screen and was called from there to another duel has no timer. *)
(* One who presses "NEXT" or "TRY AGAIN" on a result screen that came      *)
(* after the connection had closed waits for ever, with or without the     *)
(* other.)                                                                 *)
(***************************************************************************)
BothWait == \A p \in Phone : ph[p].open /\ ph[p].waiting
NotBothLockedOut == BothWait ~> (~BothWait \/ ~Without({"calledBack"}))

(***************************************************************************)
(* The help text has the winner take a tenth of the opponent's money: what *)
(* one phone's player gains, the other's loses.                            *)
(***************************************************************************)
WinnerTakesFromLoser ==
  SettledAlike => ph[0].money + ph[1].money = 2 * Money
=============================================================================
