------------------------------ MODULE DuelRound ------------------------------
(***************************************************************************)
(* One round of a duel on two phones, from the moment the first phone      *)
(* shows its DuelViewController until both have settled: the readiness     *)
(* handshake (both guns lowered), the clock that calls "FIRE!", the        *)
(* trigger, fouls, the 30 second limit, and GameCenterViewController's     *)
(* exchange of shot times, which each phone judges by itself.              *)
(*                                                                         *)
(* The actions of one phone are callbacks of its main run loop: the        *)
(* accelerometer, the trigger button, the 10 ms timer, the delayed         *)
(* follSend, and receiveData for one packet.  Packets travel in order and  *)
(* are neither lost nor duplicated here; DuelRoundOverLink gives that up.  *)
(***************************************************************************)
EXTENDS Integers, Sequences, RoundScore, Phones

CONSTANTS
  FireTime,    \* DuelViewController.time: the clock reading at which "FIRE!" is called
  Limit,       \* the clock reading at which the round times out (30 s)
  Bullets,     \* bullets dealt for the opponent's level, all needed for a kill
  QueueBound,  \* bound on packets in flight that moving one's arm may add to
  MaxLag       \* ticks a packet can be under way; the link gives up long before Limit

ASSUME RoundAssumption ==
  /\ FireTime \in Nat \ {0}
  /\ Limit \in Nat
  /\ FireTime < Limit
  /\ Bullets \in Nat \ {0}
  /\ QueueBound \in Nat
  /\ MaxLag \in Nat

\* No time on a clock is the number that stands for a foul.
ASSUME TimesAreNoFouls == Limit < FOLL

VARIABLES
  gun,           \* the ivars of each phone's DuelViewController
  screen,        \* what each phone shows
  accelState,    \* GameCenterViewController.accelState
  carShotTime,   \* own shot time: 0 none yet, < 0 a foul, > 0 a hit
  opShotTime,    \* the opponent's shot time as last received
  endDuel,       \* GameCenterViewController.endDuel: the exchange has been judged
  btnStartClick, \* GameCenterViewController.btnStartClick
  tally,         \* mutchNumber, mutchNumberWin, mutchNumberLose
  net,           \* packets on their way to each phone, oldest first
  lag,           \* clock units each phone's oldest packet has been waiting
  judged,        \* history: how the exchange was judged on each phone
  reports,       \* history: the times each phone sent while the round was open
  starts         \* history: how often each phone's clock was started

exchangeVars == <<carShotTime, opShotTime, endDuel, tally, judged, reports>>
vars == <<gun, screen, accelState, btnStartClick, net, lag, starts, exchangeVars>>

-----------------------------------------------------------------------------
(***************************************************************************)
(* The gun: DuelViewController and its base class DuelViewControllerWithXib*)
(*   lowered    accelerometerState: the phone hangs, screen out            *)
(*   readySent  accelerometerStateSend                                     *)
(*   running    soundStart: the duel's music plays                         *)
(*   start      "FIRE!" has been called (also YES before the duel starts)  *)
(*   foll       the player fouled; no "FIRE!" any more                     *)
(*   follChecked, follViewShow  follAccelCheck and follViewShow            *)
(*   timer      the 10 ms timer is scheduled                               *)
(*   timerEnd   duelTimerEnd: the time limit no longer applies             *)
(*   trigger    _btnNab.enabled                                            *)
(*   touch      the view accepts touches (no activity indicator over it)   *)
(*   clock      shotTime                                                   *)
(*   bullets, shots, maxShots   shotCountBullet, shotCount, maxShotCount   *)
(*   aiming     acelStayt: a trick with the gun counts                     *)
(*   delayed    follSend calls scheduled and not yet made                  *)
(***************************************************************************)
Gun == [lowered : BOOLEAN, readySent : BOOLEAN, running : BOOLEAN, start : BOOLEAN,
        foll : BOOLEAN, follChecked : BOOLEAN, follViewShow : BOOLEAN,
        timer : BOOLEAN, timerEnd : BOOLEAN, trigger : BOOLEAN, touch : BOOLEAN,
        clock : Nat, bullets : Nat, shots : Int, maxShots : Nat,
        aiming : BOOLEAN, delayed : Nat]

NewGun == [lowered |-> FALSE, readySent |-> FALSE, running |-> FALSE, start |-> TRUE,
           foll |-> FALSE, follChecked |-> FALSE, follViewShow |-> FALSE,
           timer |-> FALSE, timerEnd |-> FALSE, trigger |-> TRUE, touch |-> TRUE,
           clock |-> 0, bullets |-> Bullets, shots |-> 0, maxShots |-> Bullets,
           aiming |-> FALSE, delayed |-> 0]

Screen == {"wait", "duel", "leaving", "final"}

(***************************************************************************)
(* Packets.  Every packet carries the whole gameInfo; only the shot time   *)
(* of a SEND_SHOT_TIME is ever read in a round.                            *)
(***************************************************************************)
PacketID == {"START_DUEL_TRUE", "ACCEL_STATE", "ACCEL_STATE_TRUE", "SEND_SHOT_TIME"}
Packet == [id : PacketID, time : Int]
Signal(id) == [id |-> id, time |-> 0]
ShotTime(t) == [id |-> "SEND_SHOT_TIME", time |-> t]

Judgement == {"open", "shots", "follMe", "follOpponent", "exclusive"}

TypeOK ==
  /\ gun \in [Phone -> Gun]
  /\ screen \in [Phone -> Screen]
  /\ accelState \in [Phone -> BOOLEAN]
  /\ carShotTime \in [Phone -> Int]
  /\ opShotTime \in [Phone -> Int]
  /\ endDuel \in [Phone -> BOOLEAN]
  /\ btnStartClick \in [Phone -> BOOLEAN]
  /\ tally \in [Phone -> Tally]
  /\ net \in [Phone -> Seq(Packet)]
  /\ lag \in [Phone -> Nat]
  /\ judged \in [Phone -> Judgement \X Result]
  /\ reports \in [Phone -> SUBSET Int]
  /\ starts \in [Phone -> Nat]

-----------------------------------------------------------------------------
(***************************************************************************)
(* How GameCenterViewController judges the pair (own time c, opponent's    *)
(* time o).  The tests made after sending the own time and the tests made  *)
(* on receiving the opponent's differ.                                     *)
(***************************************************************************)
\* Seeded fault (see README): two hits are not compared.
JudgeOnSendFoulsOnly(c, o) ==
  IF c < 0 /\ ((o < 0 /\ c < o) \/ o > 0) THEN "follMe"
  ELSE IF (c < 0 /\ o < 0 /\ c > o) \/ (c > 0 /\ o < 0) THEN "follOpponent"
  ELSE "open"

JudgeOnSend(c, o) ==
  IF c < 0 /\ ((o < 0 /\ c < o) \/ o > 0) THEN "follMe"
  ELSE IF (c < 0 /\ o < 0 /\ c > o) \/ (c > 0 /\ o < 0) THEN "follOpponent"
  ELSE IF c > 0 /\ o > 0 THEN "shots"
  ELSE "open"

\* Seeded faults: two fouls are not compared; they are ranked the wrong way
\* round; the answer 0 is not a time.
JudgeOnReceiveAnyFoul(c, o) ==
  IF c > 0 /\ o > 0 THEN "shots"
  ELSE IF c < 0 THEN "follMe"
  ELSE IF c > 0 /\ o < 0 THEN "follOpponent"
  ELSE IF c = 0 /\ o < 0 THEN "exclusive"
  ELSE "open"
JudgeOnReceiveSwapped(c, o) ==
  IF c > 0 /\ o > 0 THEN "shots"
  ELSE IF c < 0 /\ ((o < 0 /\ c > o) \/ o >= 0) THEN "follMe"
  ELSE IF (c < 0 /\ o < 0 /\ c < o) \/ (c > 0 /\ o < 0) THEN "follOpponent"
  ELSE IF c = 0 /\ o < 0 THEN "exclusive"
  ELSE "open"
JudgeOnReceiveNoAnswer(c, o) ==
  IF c > 0 /\ o > 0 THEN "shots"
  ELSE IF c < 0 /\ ((o < 0 /\ c < o) \/ o > 0) THEN "follMe"
  ELSE IF (c < 0 /\ o < 0 /\ c > o) \/ (c > 0 /\ o < 0) THEN "follOpponent"
  ELSE IF c = 0 /\ o < 0 THEN "exclusive"
  ELSE "open"

JudgeOnReceive(c, o) ==
  IF c > 0 /\ o > 0 THEN "shots"
  ELSE IF c < 0 /\ ((o <= 0 /\ c < o) \/ o > 0) THEN "follMe"
  ELSE IF (c < 0 /\ o < 0 /\ c > o) \/ (c > 0 /\ o < 0) THEN "follOpponent"
  ELSE IF c = 0 /\ o < 0 THEN "exclusive"
  ELSE "open"

\* The times handed to the result screen: the user's and the opponent's.
FinalTimes(j, c, o) ==
  CASE j = "shots"        -> <<c, o>>
    [] j = "follMe"       -> <<FOLL, 0>>
    [] j \in {"follOpponent", "exclusive"} -> <<0, FOLL>>

\* The round's result on the phone that judged it so.
ResultOf(j, c, o) ==
  IF j = "follMe" \/ (j = "shots" /\ c > o) THEN "lost"
  ELSE IF j = "shots" /\ c = o THEN "even"
  ELSE "won"

\* Seeded fault: the clock is stopped but the time limit stays armed.
StoppedTimerOnly(g) == [g EXCEPT !.timer = FALSE]

\* [delegate duelTimerEndFeedBack] and [delegate shutDownTimer].
Stopped(g) == [g EXCEPT !.timerEnd = TRUE, !.timer = FALSE]

(***************************************************************************)
(* Phone p ends its exchange by judgement j of the times c and o: endDuel, *)
(* the result screen with its scoring, the gun's clock stopped.            *)
(***************************************************************************)
EndExchange(p, j, c, o, g) ==
  LET t == FinalTimes(j, c, o)
  IN  /\ endDuel' = [endDuel EXCEPT ![p] = TRUE]
      /\ judged' = [judged EXCEPT ![p] = <<j, ResultOf(j, c, o)>>]
      /\ tally' = [tally EXCEPT ![p] = ScoreRound(@, t[1], t[2])]
      /\ screen' = [screen EXCEPT ![p] = IF @ = "duel" THEN "leaving" ELSE @]
      /\ gun' = [gun EXCEPT ![p] = Stopped(g)]

\* sendShotTime: a time of 0 is sent as -1.
Reported(t) == IF t = 0 THEN -1 ELSE t

(***************************************************************************)
(* GameCenterViewController.sendShotTime: called by the gun, which then is *)
(* as in g.  Once the exchange is judged only carShotTime changes.         *)
(***************************************************************************)
SendShotTime(p, shotTime, g) ==
  LET t == Reported(shotTime)
      j == JudgeOnSend(t, opShotTime[p])
  IN  /\ carShotTime' = [carShotTime EXCEPT ![p] = t]
      /\ UNCHANGED opShotTime
      /\ \/ /\ endDuel[p]
            /\ gun' = [gun EXCEPT ![p] = g]
            /\ UNCHANGED <<screen, endDuel, btnStartClick, tally, net, judged, reports>>
         \/ /\ ~endDuel[p]
            /\ btnStartClick' = [btnStartClick EXCEPT ![p] = FALSE]
            /\ net' = [net EXCEPT ![Other(p)] = Append(@, ShotTime(t))]
            /\ reports' = [reports EXCEPT ![p] = @ \union {t}]
            /\ \/ /\ j = "open"
                  /\ gun' = [gun EXCEPT ![p] = g]
                  /\ UNCHANGED <<screen, endDuel, tally, judged>>
               \/ /\ j # "open"
                  /\ EndExchange(p, j, t, opShotTime[p], g)
-----------------------------------------------------------------------------
(***************************************************************************)
(* The accelerometer callback: every reading says whether the gun is       *)
(* lowered.  Before "FIRE!" is due the reading also enables the trigger.   *)
(***************************************************************************)
Reading(g, lowered) ==
  [g EXCEPT !.lowered = lowered,
            !.trigger = IF g.start THEN ~lowered ELSE @,
            !.readySent = IF lowered THEN @ ELSE FALSE]

\* While the duel controller is on screen, or still leaving it.
Sensing(p) == screen[p] \in {"duel", "leaving"}

\* A lowered gun that has not yet said so tells the opponent it is ready.
LowerGun(p) ==
  LET g == Reading(gun[p], TRUE)
  IN  /\ Sensing(p)
      /\ \/ /\ ~g.readySent /\ ~g.running
            /\ Len(net[Other(p)]) < QueueBound
            /\ gun' = [gun EXCEPT ![p] = [g EXCEPT !.readySent = TRUE]]
            /\ accelState' = [accelState EXCEPT ![p] = TRUE]
            /\ net' = [net EXCEPT ![Other(p)] = Append(@, Signal("ACCEL_STATE"))]
         \/ /\ g.readySent \/ g.running
            /\ gun' = [gun EXCEPT ![p] = g]
            /\ UNCHANGED <<accelState, net>>
      /\ UNCHANGED <<screen, btnStartClick, lag, starts, exchangeVars>>

TooEarly(g) == g.running /\ ~g.start /\ ~g.follChecked

\* A raised gun is not ready ...
RaiseGun(p) ==
  LET g == Reading(gun[p], FALSE)
  IN  /\ Sensing(p)
      /\ ~TooEarly(g)
      /\ gun' = [gun EXCEPT ![p] = g]
      /\ accelState' = [accelState EXCEPT ![p] = FALSE]
      /\ UNCHANGED <<screen, btnStartClick, net, lag, starts, exchangeVars>>

\* ... and one raised before "FIRE!" is a foul, reported at once.
RaiseTooEarly(p) ==
  LET g == Reading(gun[p], FALSE)
  IN  /\ Sensing(p)
      /\ TooEarly(g)
      /\ accelState' = [accelState EXCEPT ![p] = FALSE]
      /\ SendShotTime(p, -g.clock,
           [g EXCEPT !.follChecked = TRUE, !.timer = FALSE, !.foll = TRUE, !.touch = FALSE])
      /\ UNCHANGED <<lag, starts>>

\* The trick with the gun, recognised after "FIRE!": one bullet will do.
Trick(p) ==
  /\ Sensing(p)
  /\ gun[p].start /\ gun[p].aiming
  /\ gun' = [gun EXCEPT ![p].maxShots = 1]
  /\ UNCHANGED <<screen, accelState, btnStartClick, net, lag, starts, exchangeVars>>
-----------------------------------------------------------------------------
(***************************************************************************)
(* The 10 ms timer: one clock unit at a time it calls "FIRE!" when that is *)
(* due and ends the round at the time limit.                               *)
(***************************************************************************)
Ticked(p) ==
  LET g == [gun[p] EXCEPT !.clock = @ + 1]
  IN  IF g.clock >= FireTime /\ ~g.start /\ ~g.foll /\ screen[p] = "duel"
      THEN [g EXCEPT !.start = TRUE] ELSE g

\* A packet under way is delivered before the two clocks have made more than
\* MaxLag ticks.
TimePasses ==
  /\ \A q \in Phone : net[q] # << >> => lag[q] < MaxLag
  /\ lag' = [q \in Phone |-> IF net[q] = << >> THEN lag[q] ELSE lag[q] + 1]

TimedOut(g) == g.clock >= Limit /\ ~g.timerEnd /\ g.running

\* (Past the limit a clock that no longer ends the round only counts on: Limit
\* bounds it.)
Tick(p) ==
  /\ gun[p].timer
  /\ gun[p].clock < Limit
  /\ ~TimedOut(Ticked(p))
  /\ TimePasses
  /\ gun' = [gun EXCEPT ![p] = Ticked(p)]
  /\ UNCHANGED <<screen, accelState, btnStartClick, net, starts, exchangeVars>>

\* GameCenterViewController.duelTimerEnd: the result screen, with the times
\* known by then; endDuel stays as it is.
DuelTimerEnd(p) ==
  /\ gun[p].timer
  /\ TimedOut(Ticked(p))
  /\ TimePasses
  /\ gun' = [gun EXCEPT ![p] = Stopped(Ticked(p))]
  /\ tally' = [tally EXCEPT ![p] = ScoreRound(@, carShotTime[p], opShotTime[p])]
  /\ screen' = [screen EXCEPT ![p] = "leaving"]
  /\ btnStartClick' = [btnStartClick EXCEPT ![p] = FALSE]
  /\ UNCHANGED <<accelState, net, starts, carShotTime, opShotTime, endDuel, judged, reports>>

-----------------------------------------------------------------------------
(***************************************************************************)
(* The trigger.  The base class counts the bullet and, when the magazine   *)
(* is empty before the last shot needed, schedules a foul, reading the     *)
(* clock anew (now).  Then, after "FIRE!", the last shot needed kills;     *)
(* before it, any shot is a foul, reported two seconds later.              *)
(***************************************************************************)
\* Seeded fault: an empty magazine still fires.
ShootUnchecked(g, now) == [g EXCEPT !.bullets = @ - 1, !.shots = @ + 1]

Shoot(g, now) ==
  LET fired == [g EXCEPT !.bullets = @ - 1, !.shots = @ + 1]
  IN  IF g.bullets = 0 THEN g
      ELSE IF fired.bullets <= 0 /\ fired.shots < fired.maxShots
      THEN [fired EXCEPT !.follViewShow = TRUE, !.clock = now, !.delayed = @ + 1,
                         !.timer = FALSE, !.follChecked = TRUE, !.touch = FALSE]
      ELSE fired

CanShoot(p) == screen[p] = "duel" /\ gun[p].trigger /\ gun[p].touch

\* The readings of the clock "now" may take: no earlier than the last tick.
Now(p) == {gun[p].clock} \union (gun[p].clock .. Limit)

Kill(p) ==
  \E now \in Now(p) :
    LET g == Shoot(gun[p], now)
    IN  /\ CanShoot(p)
        /\ g.start /\ g.shots = g.maxShots
        /\ SendShotTime(p, g.clock - FireTime,
             [g EXCEPT !.touch = FALSE, !.trigger = FALSE, !.aiming = FALSE, !.timer = FALSE])
        /\ UNCHANGED <<accelState, lag, starts>>

ShootOn(p) ==
  \E now \in Now(p) :
    LET g == Shoot(gun[p], now)
    IN  /\ CanShoot(p)
        /\ g.start /\ g.shots # g.maxShots
        /\ gun' = [gun EXCEPT ![p] = g]
        /\ UNCHANGED <<screen, accelState, btnStartClick, net, lag, starts, exchangeVars>>

ShootTooEarly(p) ==
  \E now \in Now(p) :
    LET g == Shoot(gun[p], now)
        fouled == IF g.running
                  THEN [g EXCEPT !.foll = TRUE, !.delayed = @ + 1, !.touch = FALSE,
                                 !.timer = FALSE, !.running = FALSE]
                  ELSE g
    IN  /\ CanShoot(p)
        /\ ~g.start
        /\ gun' = [gun EXCEPT ![p] = [fouled EXCEPT !.shots = @ - 1]]
        /\ UNCHANGED <<screen, accelState, btnStartClick, net, lag, starts, exchangeVars>>

\* The delayed report of a foul; nothing cancels it.
FollSend(p) ==
  /\ gun[p].delayed > 0
  /\ SendShotTime(p, -gun[p].clock, [gun[p] EXCEPT !.delayed = @ - 1])
  /\ UNCHANGED <<accelState, lag, starts>>

\* The push animation of the result screen ends: no more sensor readings.
DidDisappear(p) ==
  /\ screen[p] = "leaving"
  /\ screen' = [screen EXCEPT ![p] = "final"]
  /\ UNCHANGED <<gun, accelState, btnStartClick, net, lag, starts, exchangeVars>>
-----------------------------------------------------------------------------
(***************************************************************************)
(* GameCenterViewController.receiveData, one action per packet.            *)
(***************************************************************************)
Receives(p, id) == net[p] # << >> /\ Head(net[p]).id = id

Consume(p) ==
  /\ net' = [net EXCEPT ![p] = Tail(@)]
  /\ lag' = [lag EXCEPT ![p] = 0]
ConsumeAndSend(p, m) ==
  /\ net' = [net EXCEPT ![p] = Tail(@), ![Other(p)] = Append(@, m)]
  /\ lag' = [lag EXCEPT ![p] = 0]

\* [delegate startDuel] on the gun of p: refused while the foul view shows.
Started(g) ==
  IF g.follViewShow THEN g
  ELSE [g EXCEPT !.running = TRUE, !.timer = TRUE, !.start = FALSE,
                 !.aiming = TRUE, !.clock = 0]
StartGun(p) ==
  /\ gun' = [gun EXCEPT ![p] = Started(@)]
  /\ starts' = [starts EXCEPT ![p] = IF gun[p].follViewShow THEN @ ELSE @ + 1]

ReceiveStartDuelTrue(p) ==
  /\ Receives(p, "START_DUEL_TRUE")
  /\ Consume(p)
  /\ accelState' = [accelState EXCEPT ![p] = TRUE]
  /\ \/ /\ screen[p] = "duel"
        /\ UNCHANGED <<gun, screen>>
     \/ /\ screen[p] # "duel"
        /\ gun' = [gun EXCEPT ![p] = NewGun]
        /\ screen' = [screen EXCEPT ![p] = "duel"]
  /\ UNCHANGED <<btnStartClick, starts, exchangeVars>>

\* Seeded fault: readiness is not taken back by starting.
ReceiveAccelStateStaysReady(p) ==
  /\ Receives(p, "ACCEL_STATE")
  /\ \/ /\ gun[p].lowered /\ accelState[p]
        /\ ConsumeAndSend(p, Signal("ACCEL_STATE_TRUE"))
        /\ StartGun(p)
     \/ /\ ~(gun[p].lowered /\ accelState[p])
        /\ Consume(p)
        /\ UNCHANGED <<gun, starts>>
  /\ UNCHANGED <<screen, accelState, btnStartClick, exchangeVars>>

\* The opponent is ready; if this phone is too, both may start.
ReceiveAccelState(p) ==
  /\ Receives(p, "ACCEL_STATE")
  /\ \/ /\ gun[p].lowered /\ accelState[p]
        /\ ConsumeAndSend(p, Signal("ACCEL_STATE_TRUE"))
        /\ StartGun(p)
        /\ accelState' = [accelState EXCEPT ![p] = FALSE]
     \/ /\ ~(gun[p].lowered /\ accelState[p])
        /\ Consume(p)
        /\ UNCHANGED <<gun, starts, accelState>>
  /\ UNCHANGED <<screen, btnStartClick, exchangeVars>>

ReceiveAccelStateTrue(p) ==
  /\ Receives(p, "ACCEL_STATE_TRUE")
  /\ Consume(p)
  /\ \/ /\ accelState[p]
        /\ StartGun(p)
        /\ accelState' = [accelState EXCEPT ![p] = FALSE]
     \/ /\ ~accelState[p]
        /\ UNCHANGED <<gun, starts, accelState>>
  /\ UNCHANGED <<screen, btnStartClick, exchangeVars>>

\* Seeded fault: a time is judged though the exchange has been.
ReceiveShotTimeAgain(p) ==
  LET c == carShotTime[p]
      o == Head(net[p]).time
      j == JudgeOnReceive(c, o)
  IN  /\ Receives(p, "SEND_SHOT_TIME")
      /\ opShotTime' = [opShotTime EXCEPT ![p] = o]
      /\ IF j = "exclusive" THEN ConsumeAndSend(p, ShotTime(c)) ELSE Consume(p)
      /\ btnStartClick' = [btnStartClick EXCEPT ![p] = @ /\ j \in {"shots", "follMe"}]
      /\ \/ /\ j = "open"
            /\ UNCHANGED <<gun, screen, endDuel, tally, judged>>
         \/ /\ j # "open"
            /\ EndExchange(p, j, c, o, gun[p])
      /\ UNCHANGED <<accelState, carShotTime, reports, starts>>

(***************************************************************************)
(* SEND_SHOT_TIME: ignored once the exchange is judged.  A phone that has  *)
(* not shot when a foul arrives ends the round and answers with its own    *)
(* time, 0.                                                                *)
(***************************************************************************)
ReceiveShotTime(p) ==
  LET c == carShotTime[p]
      o == Head(net[p]).time
      j == JudgeOnReceive(c, o)
  IN  /\ Receives(p, "SEND_SHOT_TIME")
      /\ \/ /\ endDuel[p]
            /\ Consume(p)
            /\ UNCHANGED <<gun, screen, opShotTime, endDuel, btnStartClick, tally, judged>>
         \/ /\ ~endDuel[p]
            /\ opShotTime' = [opShotTime EXCEPT ![p] = o]
            /\ IF j = "exclusive" THEN ConsumeAndSend(p, ShotTime(c)) ELSE Consume(p)
            /\ btnStartClick' = [btnStartClick EXCEPT ![p] = @ /\ j \in {"shots", "follMe"}]
            /\ \/ /\ j = "open"
                  /\ UNCHANGED <<gun, screen, endDuel, tally, judged>>
               \/ /\ j # "open"
                  /\ EndExchange(p, j, c, o, gun[p])
      /\ UNCHANGED <<accelState, carShotTime, reports, starts>>
-----------------------------------------------------------------------------
(***************************************************************************)
(* A round opens in one of two ways.  Usually one phone shows the duel and *)
(* its START_DUEL_TRUE is on the way to the other, whose accelState is     *)
(* still YES from matchStarted or NO from nextDuelStart.  When both players*)
(* asked for a further round at once, both show the duel and both sent     *)
(* START_DUEL_TRUE.                                                        *)
(***************************************************************************)
OneWaits ==
  \E p \in Phone :
    /\ screen = [q \in Phone |-> IF q = p THEN "duel" ELSE "wait"]
    /\ net = [q \in Phone |-> IF q = p THEN << >> ELSE << Signal("START_DUEL_TRUE") >>]
    /\ accelState \in {a \in [Phone -> BOOLEAN] : ~a[p]}

BothShow ==
  /\ screen = [q \in Phone |-> "duel"]
  /\ net = [q \in Phone |-> << Signal("START_DUEL_TRUE") >>]
  /\ accelState = [q \in Phone |-> FALSE]

Init ==
  /\ OneWaits \/ BothShow
  /\ gun = [p \in Phone |-> NewGun]
  /\ carShotTime = [p \in Phone |-> 0]
  /\ opShotTime = [p \in Phone |-> 0]
  /\ endDuel = [p \in Phone |-> FALSE]
  /\ btnStartClick = [p \in Phone |-> TRUE]
  /\ tally = [p \in Phone |-> NoRounds]
  /\ lag = [p \in Phone |-> 0]
  /\ judged = [p \in Phone |-> <<"open", "none">>]
  /\ reports = [p \in Phone |-> {}]
  /\ starts = [p \in Phone |-> 0]

Player(p) ==
  \/ LowerGun(p) \/ RaiseGun(p) \/ RaiseTooEarly(p) \/ Trick(p)
  \/ Kill(p) \/ ShootOn(p) \/ ShootTooEarly(p)

Clock(p) == Tick(p) \/ DuelTimerEnd(p) \/ FollSend(p) \/ DidDisappear(p)

Receive(p) ==
  \/ ReceiveStartDuelTrue(p) \/ ReceiveAccelState(p)
  \/ ReceiveAccelStateTrue(p) \/ ReceiveShotTime(p)

Next == \E p \in Phone : Player(p) \/ Clock(p) \/ Receive(p)

Spec == Init /\ [][Next]_vars

(***************************************************************************)
(* The run loop delivers packets and timers; nobody has to move a gun.     *)
(***************************************************************************)
Fairness == \A p \in Phone : WF_vars(Clock(p)) /\ WF_vars(Receive(p))

FairSpec == Spec /\ Fairness
-----------------------------------------------------------------------------
\* The phone reported at most one time while the exchange was open.
OneTime(p) == \A a, b \in reports[p] : a = b

Settled == endDuel[0] /\ endDuel[1]
Quiet == \A p \in Phone : net[p] = << >>

(***************************************************************************)
(* The phones judge the exchange separately, by different tests, in either *)
(* order of sending and receiving: when each reported one time, they reach *)
(* opposite results (sendShotTime and the SEND_SHOT_TIME case).            *)
(***************************************************************************)
Agreement ==
  Settled /\ OneTime(0) /\ OneTime(1) => judged[0][2] = Opposite(judged[1][2])

(***************************************************************************)
(* The round keeps its contract: the result a phone's exchange has come to *)
(* never changes, and the phones' results are opposite while each reports  *)
(* one time.                                                               *)
(***************************************************************************)
Contract == INSTANCE RoundContract WITH
  outcome <- [p \in Phone |-> judged[p][2]],
  clean   <- OneTime(0) /\ OneTime(1)

KeepsContract == Contract!Spec

(***************************************************************************)
(* Who wins by the exchange is right about it: the opponent fouled and the *)
(* winner did not, or did so at an earlier reading of its clock (this is   *)
(* how the code ranks two fouls); or both hit and the winner was faster.   *)
(***************************************************************************)
RightWinner ==
  \A p \in Phone :
    OneTime(p) /\ OneTime(Other(p)) /\ judged[p][2] = "won" =>
      \E b \in reports[Other(p)] :
        \/ b < 0 /\ \A a \in reports[p] : a > 0 \/ a > b
        \/ b > 0 /\ \E a \in reports[p] : 0 < a /\ a < b

(***************************************************************************)
(* Why they do: what a phone knows of the opponent's time was reported, or *)
(* is the 0 of a phone that never shot, and each judgement is witnessed by *)
(* times that were reported.  With TypeOK this is inductive.               *)
(***************************************************************************)
OwnTime(p) ==
  ~endDuel[p] => \/ carShotTime[p] = 0 /\ reports[p] = {}
                 \/ carShotTime[p] \in reports[p]

Honest(p, m) ==
  m.id = "SEND_SHOT_TIME" => \/ m.time \in reports[Other(p)]
                             \/ m.time = 0 /\ judged[Other(p)][1] = "exclusive"

InFlight(p) == \A i \in DOMAIN net[p] : Honest(p, net[p][i])

Witnessed(p) ==
  LET j == judged[p][1]
      result == judged[p][2]
      mine == reports[p]
      theirs == reports[Other(p)]
  IN  /\ endDuel[p] <=> j # "open"
      /\ j = "open" => result = "none"
      /\ j = "shots" =>
           \E a \in mine, b \in theirs : a > 0 /\ b > 0 /\ result = ResultOf(j, a, b)
      /\ j = "follOpponent" =>
           result = "won" /\ \E a \in mine, b \in theirs : b < 0 /\ a > b
      /\ j = "follMe" =>
           /\ result = "lost"
           /\ \E a \in mine : /\ a < 0
                              /\ \/ \E b \in theirs : a < b
                                 \/ judged[Other(p)][1] = "exclusive"
      /\ j = "exclusive" =>
           result = "won" /\ mine = {} /\ \E b \in theirs : b < 0

ExchangeInv ==
  \A p \in Phone :
    /\ 0 \notin reports[p]
    /\ opShotTime[p] \in reports[Other(p)] \union {0}
    /\ OwnTime(p) /\ InFlight(p) /\ Witnessed(p)

(***************************************************************************)
(* However often arms go up and down and whatever crosses on the way, the  *)
(* readiness handshake starts a phone's clock at most once: no second start*)
(* wipes a foul or a running clock (ACCEL_STATE, ACCEL_STATE_TRUE).        *)
(***************************************************************************)
StartOnce == \A p \in Phone : starts[p] <= 1

(***************************************************************************)
(* Why it does.  A gun whose clock has not started is as it was dealt,     *)
(* save for shots.  One started while lowered cannot be fired before       *)
(* "FIRE!", so the duel goes on running on its phone, which never again    *)
(* says that it is ready.  One started while raised is the last of the two *)
(* to start: nothing of the handshake is under way to it any more.         *)
(***************************************************************************)
Unstarted(g) ==
  /\ g.start /\ ~g.running /\ ~g.follViewShow /\ ~g.aiming
  /\ g.maxShots = Bullets /\ g.shots + g.bullets = Bullets
  /\ g.lowered => ~g.trigger

Handshake == {"START_DUEL_TRUE", "ACCEL_STATE", "ACCEL_STATE_TRUE"}
NoneOf(ids, q) == \A i \in DOMAIN q : q[i].id \notin ids

Runs(g) == g.running /\ (g.start \/ ~g.trigger)
ForGood(p) ==
  /\ starts[p] = 1 /\ Runs(gun[p]) /\ ~accelState[p]
  /\ NoneOf({"START_DUEL_TRUE"}, net[p])

\* The permission for the duel is the first packet, the answer to ACCEL_STATE the last.
InTurn(q) ==
  \A i \in DOMAIN q :
    /\ q[i].id = "START_DUEL_TRUE" => i = 1
    /\ q[i].id = "ACCEL_STATE_TRUE" => \A k \in DOMAIN q : k > i => q[k].id = "SEND_SHOT_TIME"

HandshakeInv ==
  \A p \in Phone :
    /\ \/ starts[p] = 0 /\ Unstarted(gun[p])
       \/ ForGood(p)
       \/ starts[p] = 1 /\ ForGood(Other(p)) /\ NoneOf(Handshake, net[p])
    /\ InTurn(net[p])
    /\ ForGood(Other(p)) \/ NoneOf({"ACCEL_STATE_TRUE"}, net[p])

(***************************************************************************)
(* The exchange and the 30 second limit both lead to a result screen that  *)
(* scores the round; between them they score it once, for one winner.      *)
(***************************************************************************)
ScoredOnce ==
  \A p \in Phone :
    tally[p].number <= 1 /\ tally[p].win + tally[p].lose = tally[p].number

(***************************************************************************)
(* Nobody reports a time before the own clock starts, though the trigger of*)
(* a gun raised on the duel's screen is enabled from the beginning.        *)
(***************************************************************************)
NobodyFiresEarly == \A p \in Phone : starts[p] = 0 => reports[p] = {}

(***************************************************************************)
(* Once a phone has reported a foul, both phones get to a judgement, except*)
(* when both fouled at the very same time, which no test covers.           *)
(***************************************************************************)
SameFoul == carShotTime[0] = carShotTime[1] /\ carShotTime[0] < 0
FoulSettles ==
  \A p \in Phone : (\E a \in reports[p] : a < 0) ~> (Settled \/ SameFoul)

\* Two hits are always compared, on both phones, whichever report is first.
HitsSettle == (\A p \in Phone : carShotTime[p] > 0) ~> Settled
=============================================================================
