--------------------------- MODULE DuelRoundProofs ---------------------------
(***************************************************************************)
(* What holds of a round for all fire times, limits, magazines and delays: *)
(* its types; that the two phones, which judge the exchange of shot times  *)
(* separately, agree and favour the right player; that the exchange        *)
(* implements RoundContract; that the readiness handshake starts each      *)
(* clock at most once; and that, when nobody fires early, the round is     *)
(* scored once.  Agreement follows from ExchangeInv, which TypeOK makes    *)
(* inductive: what a phone knows of the opponent was reported, and each    *)
(* judgement is witnessed by reports.  StartOnce follows from HandshakeInv,*)
(* ScoredOnce from ScoreInv and both of these.                             *)
(***************************************************************************)
EXTENDS DuelRoundOverLink, SequenceTheorems, TLAPS

-----------------------------------------------------------------------------
(***************************************************************************)
(* Types of the helpers.                                                   *)
(***************************************************************************)

\* What a gun's fields are.
LEMMA GunFields ==
  ASSUME NEW g \in Gun
  PROVE  /\ g.lowered \in BOOLEAN /\ g.readySent \in BOOLEAN /\ g.start \in BOOLEAN
         /\ g.trigger \in BOOLEAN
         /\ g.clock \in Nat /\ g.bullets \in Nat /\ g.shots \in Int
         /\ g.maxShots \in Nat /\ g.delayed \in Nat
  BY DEF Gun

\* The sensor reads into a gun.
LEMMA ReadingType ==
  ASSUME NEW g \in Gun, NEW b \in BOOLEAN
  PROVE  Reading(g, b) \in Gun
  <1>1. (IF g.start THEN ~b ELSE g.trigger) \in BOOLEAN
    BY GunFields
  <1>2. (IF b THEN g.readySent ELSE FALSE) \in BOOLEAN
    BY GunFields
  <1> QED BY <1>1, <1>2, ZenonT(60) DEF Gun, Reading

\* The exchange stops a gun, the handshake starts one.
LEMMA StoppedStartedTypes ==
  ASSUME NEW g \in Gun
  PROVE  Stopped(g) \in Gun /\ Started(g) \in Gun
  <1>1. 0 \in Nat
    BY SMT
  <1>2. Stopped(g) \in Gun
    BY Zenon DEF Gun, Stopped
  <1>3. Started(g) \in Gun
    BY <1>1, ZenonT(60) DEF Gun, Started
  <1> QED BY <1>2, <1>3

\* A shot leaves a gun, whose magazine is never below empty.
LEMMA ShootType ==
  ASSUME NEW g \in Gun, NEW now \in Nat
  PROVE  Shoot(g, now) \in Gun
  <1>1. CASE g.bullets = 0
    BY <1>1 DEF Shoot
  <1>2. CASE g.bullets # 0
    <2> DEFINE f == [g EXCEPT !.bullets = @ - 1, !.shots = @ + 1]
    <2>1. g.bullets - 1 \in Nat /\ g.shots + 1 \in Int
      BY <1>2, GunFields
    <2>2. f \in Gun
      BY <2>1, Zenon DEF Gun
    <2>3. f.delayed + 1 \in Nat
      BY <2>2, GunFields
    <2> HIDE DEF f
    <2> DEFINE h == [f EXCEPT !.follViewShow = TRUE, !.clock = now, !.delayed = @ + 1,
                              !.timer = FALSE, !.follChecked = TRUE, !.touch = FALSE]
    <2>4. h \in Gun
      BY <2>2, <2>3, ZenonT(60) DEF Gun
    <2>5. Shoot(g, now) = h \/ Shoot(g, now) = f
      BY <1>2, Zenon DEF Shoot, f
    <2> QED BY <2>2, <2>4, <2>5
  <1> QED BY <1>1, <1>2

\* A fresh gun is one.
LEMMA NewGunType == NewGun \in Gun
  BY RoundAssumption DEF Gun, NewGun

\* The opponent of a phone is the other phone.
LEMMA OtherPhone ==
  \A p \in Phone : Other(p) \in Phone /\ Other(p) # p /\ Other(Other(p)) = p
  BY DEF Phone, Other

\* The result screen's scoring keeps a tally.
LEMMA ScoreRoundType ==
  ASSUME NEW s \in Tally, NEW u \in Int, NEW o \in Int
  PROVE  ScoreRound(s, u, o) \in Tally
  <1>1. ASSUME NEW t \in Tally
        PROVE  WinRound(t) \in Tally /\ LoseRound(t) \in Tally
    <2>1. t.win + 1 \in Nat /\ t.lose + 1 \in Nat /\ t.number + 1 \in Nat
      BY DEF Tally
    <2> QED BY <2>1, Zenon DEF Tally, WinRound, LoseRound
  <1>2. \A t \in Tally : ScoreFaster(t, u, o) \in Tally /\ ScoreSlower(t, u, o) \in Tally
    BY <1>1 DEF ScoreFaster, ScoreSlower
  <1>3. \A t \in Tally : ScoreMyFoul(t, u) \in Tally /\ ScoreOpponentFoul(t, o) \in Tally
    BY <1>1 DEF ScoreMyFoul, ScoreOpponentFoul
  <1> QED BY <1>2, <1>3 DEF ScoreRound

\* Judgements and the times they hand to the result screen.
LEMMA JudgeTypes ==
  ASSUME NEW c \in Int, NEW o \in Int
  PROVE  /\ JudgeOnSend(c, o) \in Judgement
         /\ JudgeOnReceive(c, o) \in Judgement
         /\ \A j \in Judgement : ResultOf(j, c, o) \in Result
         /\ \A j \in Judgement \ {"open"} :
              FinalTimes(j, c, o)[1] \in Int /\ FinalTimes(j, c, o)[2] \in Int
  BY DEF JudgeOnSend, JudgeOnReceive, ResultOf, FinalTimes, Judgement, Result, FOLL

\* Packets put on and taken off a queue.
LEMMA QueueTypes ==
  ASSUME NEW s \in Seq(Packet)
  PROVE  /\ \A m \in Packet : Append(s, m) \in Seq(Packet)
         /\ s # << >> => Tail(s) \in Seq(Packet) /\ Head(s) \in Packet
  OBVIOUS

\* What the phones send each other is a packet.
LEMMA PacketTypes ==
  /\ \A t \in Int : ShotTime(t) \in Packet
  /\ \A id \in PacketID : Signal(id) \in Packet
  BY DEF ShotTime, Signal, Packet, PacketID
-----------------------------------------------------------------------------
(***************************************************************************)
(* Type correctness.                                                       *)
(***************************************************************************)

\* So does ending the exchange.
LEMMA EndExchangeTypes ==
  ASSUME TypeOK, NEW p \in Phone, NEW j \in Judgement \ {"open"},
         NEW c \in Int, NEW o \in Int, NEW g \in Gun, EndExchange(p, j, c, o, g)
  PROVE  /\ gun' \in [Phone -> Gun] /\ screen' \in [Phone -> Screen]
         /\ endDuel' \in [Phone -> BOOLEAN] /\ tally' \in [Phone -> Tally]
         /\ judged' \in [Phone -> Judgement \X Result]
  <1> DEFINE t == FinalTimes(j, c, o)
  <1>1. t[1] \in Int /\ t[2] \in Int /\ ResultOf(j, c, o) \in Result
    BY JudgeTypes
  <1>2. ScoreRound(tally[p], t[1], t[2]) \in Tally
    BY <1>1, ScoreRoundType DEF TypeOK
  <1>3. Stopped(g) \in Gun
    BY StoppedStartedTypes
  <1> HIDE DEF t
  <1>4. tally' = [tally EXCEPT ![p] = ScoreRound(@, t[1], t[2])]
    BY DEF EndExchange, t
  <1>5. screen' \in [Phone -> Screen] /\ endDuel' \in [Phone -> BOOLEAN]
    BY DEF EndExchange, TypeOK, Screen
  <1>6. judged' \in [Phone -> Judgement \X Result]
    BY <1>1 DEF EndExchange, TypeOK
  <1>7. gun' \in [Phone -> Gun] /\ tally' \in [Phone -> Tally]
    BY <1>2, <1>3, <1>4 DEF EndExchange, TypeOK
  <1> QED BY <1>5, <1>6, <1>7

\* Reporting a time, whatever comes of it, keeps the types of what it touches.
LEMMA SendShotTimeTypes ==
  ASSUME TypeOK, NEW p \in Phone, NEW s \in Int, NEW g \in Gun, SendShotTime(p, s, g)
  PROVE  /\ gun' \in [Phone -> Gun] /\ screen' \in [Phone -> Screen]
         /\ carShotTime' \in [Phone -> Int] /\ opShotTime' \in [Phone -> Int]
         /\ endDuel' \in [Phone -> BOOLEAN] /\ btnStartClick' \in [Phone -> BOOLEAN]
         /\ tally' \in [Phone -> Tally] /\ net' \in [Phone -> Seq(Packet)]
         /\ judged' \in [Phone -> Judgement \X Result]
         /\ reports' \in [Phone -> SUBSET Int]
  <1> DEFINE t == Reported(s)
             j == JudgeOnSend(t, opShotTime[p])
  <1>1. t \in Int /\ opShotTime[p] \in Int
    BY DEF TypeOK, Reported
  <1>2. j \in Judgement
    BY <1>1, JudgeTypes
  <1>3. carShotTime' \in [Phone -> Int] /\ opShotTime' \in [Phone -> Int]
    BY <1>1 DEF SendShotTime, TypeOK
  <1>4. CASE endDuel[p]
    <2>1. /\ gun' = [gun EXCEPT ![p] = g]
          /\ UNCHANGED <<screen, endDuel, btnStartClick, tally, net, judged, reports>>
      BY <1>4, Zenon DEF SendShotTime
    <2> QED BY <1>3, <2>1 DEF TypeOK
  <1>5. CASE ~endDuel[p]
    <2>1. /\ btnStartClick' = [btnStartClick EXCEPT ![p] = FALSE]
          /\ net' = [net EXCEPT ![Other(p)] = Append(@, ShotTime(t))]
          /\ reports' = [reports EXCEPT ![p] = @ \union {t}]
          /\ \/ /\ j = "open" /\ gun' = [gun EXCEPT ![p] = g]
                /\ UNCHANGED <<screen, endDuel, tally, judged>>
             \/ j # "open" /\ EndExchange(p, j, t, opShotTime[p], g)
      BY <1>5, Zenon DEF SendShotTime
    <2> HIDE DEF t, j
    <2>2. btnStartClick' \in [Phone -> BOOLEAN] /\ reports' \in [Phone -> SUBSET Int]
      BY <1>1, <2>1 DEF TypeOK
    <2>3. net' \in [Phone -> Seq(Packet)]
      <3>1. net[Other(p)] \in Seq(Packet) /\ ShotTime(t) \in Packet
        BY <1>1, OtherPhone, PacketTypes DEF TypeOK
      <3>2. Append(net[Other(p)], ShotTime(t)) \in Seq(Packet)
        BY <3>1, QueueTypes
      <3> QED BY <2>1, <3>2, OtherPhone DEF TypeOK
    <2>4. CASE j = "open"
      <3>1. gun' = [gun EXCEPT ![p] = g] /\ UNCHANGED <<screen, endDuel, tally, judged>>
        BY <2>1, <2>4, Zenon
      <3> QED BY <1>3, <2>2, <2>3, <3>1 DEF TypeOK
    <2>5. CASE j # "open"
      <3>1. j \in Judgement \ {"open"} /\ EndExchange(p, j, t, opShotTime[p], g)
        BY <1>2, <2>1, <2>5
      <3>2. /\ gun' \in [Phone -> Gun] /\ screen' \in [Phone -> Screen]
            /\ endDuel' \in [Phone -> BOOLEAN] /\ tally' \in [Phone -> Tally]
            /\ judged' \in [Phone -> Judgement \X Result]
        BY <1>1, <3>1, EndExchangeTypes
      <3> QED BY <1>3, <2>2, <2>3, <3>2
    <2> QED BY <2>4, <2>5
  <1> QED BY <1>4, <1>5

\* Taking a packet off a queue, and answering it, keep the queues queues.
LEMMA ConsumeTypes ==
  ASSUME TypeOK, NEW p \in Phone, net[p] # << >>
  PROVE  /\ Consume(p) => net' \in [Phone -> Seq(Packet)] /\ lag' \in [Phone -> Nat]
         /\ \A m \in Packet : ConsumeAndSend(p, m) =>
              net' \in [Phone -> Seq(Packet)] /\ lag' \in [Phone -> Nat]
  <1>1. net[p] \in Seq(Packet) /\ net[Other(p)] \in Seq(Packet)
    BY OtherPhone DEF TypeOK
  <1>2. Tail(net[p]) \in Seq(Packet)
    BY <1>1, QueueTypes
  <1>3. \A m \in Packet : Append(net[Other(p)], m) \in Seq(Packet)
    BY <1>1, QueueTypes
  <1>4. Consume(p) => net' \in [Phone -> Seq(Packet)] /\ lag' \in [Phone -> Nat]
    BY <1>2 DEF Consume, TypeOK
  <1>5. ASSUME NEW m \in Packet, ConsumeAndSend(p, m)
        PROVE  net' \in [Phone -> Seq(Packet)] /\ lag' \in [Phone -> Nat]
    <2>1. net' = [net EXCEPT ![p] = Tail(@), ![Other(p)] = Append(@, m)]
          /\ lag' = [lag EXCEPT ![p] = 0]
      BY <1>5 DEF ConsumeAndSend
    <2> QED BY <1>2, <1>3, <2>1, OtherPhone DEF TypeOK
  <1> QED BY <1>4, <1>5

\* The handshake's start of a gun.
LEMMA StartGunTypes ==
  ASSUME TypeOK, NEW p \in Phone, StartGun(p)
  PROVE  gun' \in [Phone -> Gun] /\ starts' \in [Phone -> Nat]
  BY StoppedStartedTypes DEF StartGun, TypeOK

\* The initial states are well typed.
LEMMA InitTypes == Init => TypeOK
  <1> SUFFICES ASSUME Init PROVE TypeOK
    OBVIOUS
  <1>1. Signal("START_DUEL_TRUE") \in Packet /\ << >> \in Seq(Packet)
    BY PacketTypes DEF PacketID
  <1>2. << Signal("START_DUEL_TRUE") >> \in Seq(Packet)
    BY <1>1
  <1>3. /\ screen \in [Phone -> Screen] /\ net \in [Phone -> Seq(Packet)]
        /\ accelState \in [Phone -> BOOLEAN]
    <2>1. CASE OneWaits
      BY <1>1, <1>2, <2>1 DEF OneWaits, Screen
    <2>2. CASE BothShow
      BY <1>1, <1>2, <2>2 DEF BothShow, Screen
    <2> QED BY <2>1, <2>2 DEF Init
  <1>4. gun \in [Phone -> Gun] /\ tally \in [Phone -> Tally]
    BY NewGunType DEF Init, NoRounds, Tally
  <1>5. judged \in [Phone -> Judgement \X Result]
    BY DEF Init, Judgement, Result
  <1> QED BY <1>3, <1>4, <1>5 DEF Init, TypeOK

\* Every step keeps the types, action by action.
LEMMA PlayerTypes ==
  ASSUME TypeOK, NEW p \in Phone, Player(p)
  PROVE  TypeOK'
  <1>1. gun[p] \in Gun /\ Reading(gun[p], TRUE) \in Gun /\ Reading(gun[p], FALSE) \in Gun
    BY ReadingType DEF TypeOK
  <1>2. CASE LowerGun(p)
    <2> DEFINE g == Reading(gun[p], TRUE)
    <2>1. [g EXCEPT !.readySent = TRUE] \in Gun
      BY <1>1, Zenon DEF Gun
    <2>2. Append(net[Other(p)], Signal("ACCEL_STATE")) \in Seq(Packet)
      BY OtherPhone, PacketTypes, QueueTypes DEF TypeOK, PacketID
    <2>3. /\ \/ /\ gun' = [gun EXCEPT ![p] = [g EXCEPT !.readySent = TRUE]]
                /\ accelState' = [accelState EXCEPT ![p] = TRUE]
                /\ net' = [net EXCEPT ![Other(p)] = Append(@, Signal("ACCEL_STATE"))]
             \/ /\ gun' = [gun EXCEPT ![p] = g]
                /\ UNCHANGED <<accelState, net>>
          /\ UNCHANGED <<screen, btnStartClick, lag, starts, exchangeVars>>
      BY <1>2, Zenon DEF LowerGun
    <2> HIDE DEF g
    <2>4. gun' \in [Phone -> Gun] /\ accelState' \in [Phone -> BOOLEAN]
      BY <1>1, <2>1, <2>3, ZenonT(60) DEF TypeOK, g
    <2>5. net' \in [Phone -> Seq(Packet)]
      BY <2>2, <2>3 DEF TypeOK
    <2> QED BY <2>3, <2>4, <2>5 DEF TypeOK, exchangeVars
  <1>3. CASE RaiseGun(p)
    BY <1>1, <1>3 DEF RaiseGun, TypeOK, exchangeVars
  <1>4. CASE RaiseTooEarly(p)
    <2> DEFINE g == Reading(gun[p], FALSE)
               h == [g EXCEPT !.follChecked = TRUE, !.timer = FALSE, !.foll = TRUE,
                              !.touch = FALSE]
    <2>1. h \in Gun
      BY <1>1, ZenonT(60) DEF Gun
    <2>2. -g.clock \in Int
      <3>1. g \in Gun
        BY <1>1
      <3>2. g.clock \in Nat
        BY <3>1, GunFields, Zenon
      <3> HIDE DEF g
      <3> QED BY <3>2
    <2>3. /\ accelState' = [accelState EXCEPT ![p] = FALSE]
          /\ SendShotTime(p, -g.clock, h) /\ UNCHANGED <<lag, starts>>
      BY <1>4, Zenon DEF RaiseTooEarly
    <2> HIDE DEF g, h
    <2>4. accelState' \in [Phone -> BOOLEAN] /\ lag' \in [Phone -> Nat] /\ starts' \in [Phone -> Nat]
      BY <2>3 DEF TypeOK
    <2> QED BY <2>1, <2>2, <2>3, <2>4, SendShotTimeTypes DEF TypeOK
  <1>5. CASE Trick(p)
    <2>1. [gun[p] EXCEPT !.maxShots = 1] \in Gun
      <3>1. 1 \in Nat
        BY SMT
      <3> QED BY <1>1, <3>1, Zenon DEF Gun
    <2> QED BY <1>5, <2>1 DEF Trick, TypeOK, exchangeVars
  <1>6. CASE Kill(p)
    <2>1. PICK now \in Now(p) :
            LET g == Shoot(gun[p], now)
            IN  /\ SendShotTime(p, g.clock - FireTime,
                     [g EXCEPT !.touch = FALSE, !.trigger = FALSE, !.aiming = FALSE,
                               !.timer = FALSE])
                /\ UNCHANGED <<accelState, lag, starts>>
      BY <1>6, Zenon DEF Kill
    <2> DEFINE g == Shoot(gun[p], now)
               h == [g EXCEPT !.touch = FALSE, !.trigger = FALSE, !.aiming = FALSE,
                              !.timer = FALSE]
    <2>2. now \in Nat
      BY <1>1, GunFields, RoundAssumption DEF Now
    <2>3. g \in Gun
      BY <1>1, <2>2, ShootType
    <2>4. h \in Gun /\ g.clock - FireTime \in Int
      <3>1. h \in Gun
        BY <2>3, Zenon DEF Gun
      <3> QED BY <2>3, <3>1, GunFields, RoundAssumption
    <2>5. SendShotTime(p, g.clock - FireTime, h) /\ UNCHANGED <<accelState, lag, starts>>
      BY <2>1
    <2> HIDE DEF g, h
    <2> QED BY <2>4, <2>5, SendShotTimeTypes DEF TypeOK
  <1>7. CASE ShootOn(p)
    <2>1. PICK now \in Now(p) :
            /\ gun' = [gun EXCEPT ![p] = Shoot(gun[p], now)]
            /\ UNCHANGED <<screen, accelState, btnStartClick, net, lag, starts, exchangeVars>>
      BY <1>7, Zenon DEF ShootOn
    <2>2. now \in Nat
      BY <1>1, GunFields, RoundAssumption DEF Now
    <2> QED BY <1>1, <2>1, <2>2, ShootType DEF TypeOK, exchangeVars
  <1>8. CASE ShootTooEarly(p)
    <2>1. PICK now \in Now(p) :
            LET g == Shoot(gun[p], now)
                fouled == IF g.running
                          THEN [g EXCEPT !.foll = TRUE, !.delayed = @ + 1, !.touch = FALSE,
                                         !.timer = FALSE, !.running = FALSE]
                          ELSE g
            IN  /\ gun' = [gun EXCEPT ![p] = [fouled EXCEPT !.shots = @ - 1]]
                /\ UNCHANGED <<screen, accelState, btnStartClick, net, lag, starts, exchangeVars>>
      BY <1>8, Zenon DEF ShootTooEarly
    <2> DEFINE g == Shoot(gun[p], now)
               fouled == IF g.running
                         THEN [g EXCEPT !.foll = TRUE, !.delayed = @ + 1, !.touch = FALSE,
                                        !.timer = FALSE, !.running = FALSE]
                         ELSE g
    <2>2. now \in Nat
      BY <1>1, GunFields, RoundAssumption DEF Now
    <2>3. g \in Gun
      BY <1>1, <2>2, ShootType
    <2>4. g.delayed + 1 \in Nat
      BY <2>3, GunFields
    <2>5. /\ gun' = [gun EXCEPT ![p] = [fouled EXCEPT !.shots = @ - 1]]
          /\ UNCHANGED <<screen, accelState, btnStartClick, net, lag, starts, exchangeVars>>
      BY <2>1
    <2> HIDE DEF g
    <2>6. fouled \in Gun
      BY <2>3, <2>4, ZenonT(60) DEF Gun
    <2> HIDE DEF fouled
    <2>7. fouled.shots - 1 \in Int
      BY <2>6, GunFields
    <2>8. [fouled EXCEPT !.shots = @ - 1] \in Gun
      BY <2>6, <2>7, Zenon DEF Gun
    <2> QED BY <2>5, <2>8 DEF TypeOK, exchangeVars
  <1> QED BY <1>2, <1>3, <1>4, <1>5, <1>6, <1>7, <1>8 DEF Player

\* A tick leaves a gun a gun.
LEMMA TickedType ==
  ASSUME TypeOK, NEW p \in Phone
  PROVE  Ticked(p) \in Gun
  <1> DEFINE g == [gun[p] EXCEPT !.clock = @ + 1]
  <1>1. gun[p] \in Gun
    BY DEF TypeOK
  <1>2. gun[p].clock + 1 \in Nat
    BY <1>1, GunFields
  <1>3. g \in Gun
    BY <1>1, <1>2, Zenon DEF Gun
  <1>4. [g EXCEPT !.start = TRUE] \in Gun
    BY <1>3, Zenon DEF Gun
  <1> QED BY <1>3, <1>4, Zenon DEF Ticked

\* The clock keeps the types.
LEMMA ClockTypes ==
  ASSUME TypeOK, NEW p \in Phone, Clock(p)
  PROVE  TypeOK'
  <1>1. gun[p] \in Gun
    BY DEF TypeOK
  <1>2. Ticked(p) \in Gun
    BY TickedType
  <1>3. TimePasses => lag' \in [Phone -> Nat]
    BY DEF TimePasses, TypeOK
  <1>4. CASE Tick(p)
    <2>1. gun' \in [Phone -> Gun]
      BY <1>2, <1>4 DEF Tick, TypeOK
    <2> QED BY <1>3, <1>4, <2>1 DEF Tick, TypeOK, exchangeVars
  <1>5. CASE DuelTimerEnd(p)
    <2>1. Stopped(Ticked(p)) \in Gun
      BY <1>2, StoppedStartedTypes
    <2>2. ScoreRound(tally[p], carShotTime[p], opShotTime[p]) \in Tally
      BY ScoreRoundType DEF TypeOK
    <2>3. gun' \in [Phone -> Gun] /\ tally' \in [Phone -> Tally]
      BY <1>5, <2>1, <2>2 DEF DuelTimerEnd, TypeOK
    <2>4. screen' \in [Phone -> Screen] /\ btnStartClick' \in [Phone -> BOOLEAN]
      BY <1>5 DEF DuelTimerEnd, TypeOK, Screen
    <2> QED BY <1>3, <1>5, <2>3, <2>4 DEF DuelTimerEnd, TypeOK
  <1>6. CASE FollSend(p)
    <2> DEFINE h == [gun[p] EXCEPT !.delayed = @ - 1]
    <2>1. gun[p].delayed - 1 \in Nat /\ -gun[p].clock \in Int
      BY <1>1, <1>6, GunFields DEF FollSend
    <2>2. h \in Gun
      BY <1>1, <2>1, Zenon DEF Gun
    <2>3. SendShotTime(p, -gun[p].clock, h) /\ UNCHANGED <<accelState, lag, starts>>
      BY <1>6, Zenon DEF FollSend
    <2> HIDE DEF h
    <2> QED BY <2>1, <2>2, <2>3, SendShotTimeTypes DEF TypeOK
  <1>7. CASE DidDisappear(p)
    BY <1>7 DEF DidDisappear, TypeOK, Screen, exchangeVars
  <1> QED BY <1>4, <1>5, <1>6, <1>7 DEF Clock

\* The handlers keep the types.
LEMMA ReceiveTypes ==
  ASSUME TypeOK, NEW p \in Phone, Receive(p)
  PROVE  TypeOK'
  <1>1. CASE ReceiveStartDuelTrue(p)
    <2>1. net' \in [Phone -> Seq(Packet)] /\ lag' \in [Phone -> Nat]
      BY <1>1, ConsumeTypes DEF ReceiveStartDuelTrue, Receives
    <2>2. \/ UNCHANGED <<gun, screen>>
          \/ /\ gun' = [gun EXCEPT ![p] = NewGun]
             /\ screen' = [screen EXCEPT ![p] = "duel"]
      BY <1>1, Zenon DEF ReceiveStartDuelTrue
    <2>3. gun' \in [Phone -> Gun] /\ screen' \in [Phone -> Screen]
      <3>1. CASE UNCHANGED <<gun, screen>>
        BY <3>1 DEF TypeOK
      <3>2. CASE /\ gun' = [gun EXCEPT ![p] = NewGun]
                 /\ screen' = [screen EXCEPT ![p] = "duel"]
        <4>1. gun' \in [Phone -> Gun]
          BY <3>2, NewGunType DEF TypeOK
        <4>2. screen' \in [Phone -> Screen]
          BY <3>2 DEF TypeOK, Screen
        <4> QED BY <4>1, <4>2
      <3> QED BY <2>2, <3>1, <3>2
    <2> QED BY <1>1, <2>1, <2>3 DEF ReceiveStartDuelTrue, TypeOK, exchangeVars
  <1>2. CASE ReceiveAccelState(p)
    <2>1. Signal("ACCEL_STATE_TRUE") \in Packet
      BY PacketTypes DEF PacketID
    <2>2. net' \in [Phone -> Seq(Packet)] /\ lag' \in [Phone -> Nat]
      BY <1>2, <2>1, ConsumeTypes DEF ReceiveAccelState, Receives
    <2>3. /\ gun' \in [Phone -> Gun] /\ starts' \in [Phone -> Nat]
          /\ accelState' \in [Phone -> BOOLEAN]
      BY <1>2, StartGunTypes DEF ReceiveAccelState, TypeOK
    <2> QED BY <1>2, <2>2, <2>3 DEF ReceiveAccelState, TypeOK, exchangeVars
  <1>3. CASE ReceiveAccelStateTrue(p)
    <2>1. net' \in [Phone -> Seq(Packet)] /\ lag' \in [Phone -> Nat]
      BY <1>3, ConsumeTypes DEF ReceiveAccelStateTrue, Receives
    <2>2. /\ gun' \in [Phone -> Gun] /\ starts' \in [Phone -> Nat]
          /\ accelState' \in [Phone -> BOOLEAN]
      BY <1>3, StartGunTypes DEF ReceiveAccelStateTrue, TypeOK
    <2> QED BY <1>3, <2>1, <2>2 DEF ReceiveAccelStateTrue, TypeOK, exchangeVars
  <1>4. CASE ReceiveShotTime(p)
    <2> DEFINE c == carShotTime[p]
               o == Head(net[p]).time
               j == JudgeOnReceive(c, o)
    <2>1. net[p] # << >> /\ net[p] \in Seq(Packet)
      BY <1>4 DEF ReceiveShotTime, Receives, TypeOK
    <2>2. c \in Int /\ o \in Int
      <3>1. Head(net[p]) \in Packet
        BY <2>1, QueueTypes
      <3> QED BY <3>1 DEF TypeOK, Packet
    <2>3. j \in Judgement /\ ShotTime(c) \in Packet /\ gun[p] \in Gun
      BY <2>2, JudgeTypes, PacketTypes DEF TypeOK
    <2>4. /\ \/ /\ Consume(p)
                /\ UNCHANGED <<gun, screen, opShotTime, endDuel, btnStartClick, tally, judged>>
             \/ /\ opShotTime' = [opShotTime EXCEPT ![p] = o]
                /\ \/ Consume(p) \/ ConsumeAndSend(p, ShotTime(c))
                /\ btnStartClick' = [btnStartClick EXCEPT ![p] = @ /\ j \in {"shots", "follMe"}]
                /\ \/ UNCHANGED <<gun, screen, endDuel, tally, judged>>
                   \/ j # "open" /\ EndExchange(p, j, c, o, gun[p])
          /\ UNCHANGED <<accelState, carShotTime, reports, starts>>
      BY <1>4, Zenon DEF ReceiveShotTime
    <2> HIDE DEF c, o, j
    <2>5. net' \in [Phone -> Seq(Packet)] /\ lag' \in [Phone -> Nat]
      BY <2>1, <2>3, <2>4, ConsumeTypes
    <2>6. opShotTime' \in [Phone -> Int] /\ btnStartClick' \in [Phone -> BOOLEAN]
      <3>1. UNCHANGED opShotTime \/ opShotTime' = [opShotTime EXCEPT ![p] = o]
        BY <2>4
      <3>2. \/ UNCHANGED btnStartClick
            \/ btnStartClick' = [btnStartClick EXCEPT ![p] = @ /\ j \in {"shots", "follMe"}]
        BY <2>4
      <3>3. opShotTime' \in [Phone -> Int]
        BY <2>2, <3>1 DEF TypeOK
      <3>4. btnStartClick' \in [Phone -> BOOLEAN]
        BY <3>2 DEF TypeOK
      <3> QED BY <3>3, <3>4
    <2>7. CASE UNCHANGED <<gun, screen, endDuel, tally, judged>>
      BY <2>4, <2>5, <2>6, <2>7 DEF TypeOK
    <2>8. CASE j # "open" /\ EndExchange(p, j, c, o, gun[p])
      <3>1. j \in Judgement \ {"open"}
        BY <2>3, <2>8
      <3>2. /\ gun' \in [Phone -> Gun] /\ screen' \in [Phone -> Screen]
            /\ endDuel' \in [Phone -> BOOLEAN] /\ tally' \in [Phone -> Tally]
            /\ judged' \in [Phone -> Judgement \X Result]
        BY <2>2, <2>3, <2>8, <3>1, EndExchangeTypes
      <3> QED BY <2>4, <2>5, <2>6, <3>2 DEF TypeOK
    <2> QED BY <2>4, <2>7, <2>8
  <1> QED BY <1>1, <1>2, <1>3, <1>4 DEF Receive

\* Every step keeps the types.
LEMMA StepTypes == TypeOK /\ [Next]_vars => TypeOK'
  <1> SUFFICES ASSUME TypeOK, [Next]_vars PROVE TypeOK'
    OBVIOUS
  <1>1. CASE UNCHANGED vars
    BY <1>1 DEF vars, exchangeVars, TypeOK
  <1>2. ASSUME NEW p \in Phone, Player(p) \/ Clock(p) \/ Receive(p)
        PROVE  TypeOK'
    BY <1>2, PlayerTypes, ClockTypes, ReceiveTypes
  <1> QED BY <1>1, <1>2 DEF Next

(***************************************************************************)
(* Whatever the players do and in whatever order callbacks and packets     *)
(* arrive, every variable stays in its type; in particular no magazine     *)
(* (shotCountBullet) goes below empty.                                     *)
(***************************************************************************)
THEOREM TypeCorrect == Spec => []TypeOK
  BY InitTypes, StepTypes, PTL DEF Spec

-----------------------------------------------------------------------------
(***************************************************************************)
(* Lemmas on queues and judgements.                                        *)
(***************************************************************************)

\* What is in a queue after a packet is put on or taken off was in it before,
\* or is the packet put on.
LEMMA QueueElements ==
  ASSUME NEW s \in Seq(Packet)
  PROVE  /\ \A m \in Packet : \A i \in DOMAIN Append(s, m) :
              Append(s, m)[i] = m \/ (i \in DOMAIN s /\ Append(s, m)[i] = s[i])
         /\ s # << >> => /\ \A i \in DOMAIN Tail(s) : i + 1 \in DOMAIN s /\ Tail(s)[i] = s[i + 1]
                         /\ 1 \in DOMAIN s /\ Head(s) = s[1]
  <1>1. ASSUME NEW m \in Packet, NEW i \in DOMAIN Append(s, m)
        PROVE  Append(s, m)[i] = m \/ (i \in DOMAIN s /\ Append(s, m)[i] = s[i])
    OBVIOUS
  <1>2. ASSUME s # << >>, NEW i \in DOMAIN Tail(s)
        PROVE  i + 1 \in DOMAIN s /\ Tail(s)[i] = s[i + 1]
    BY <1>2
  <1>3. ASSUME s # << >> PROVE 1 \in DOMAIN s /\ Head(s) = s[1]
    BY <1>3
  <1> QED BY <1>1, <1>2, <1>3

\* What a judgement says of the two times.
LEMMA JudgementMeans ==
  ASSUME NEW c \in Int, NEW o \in Int, NEW j,
         j = JudgeOnReceive(c, o) \/ (c # 0 /\ j = JudgeOnSend(c, o))
  PROVE  /\ j = "shots" => c > 0 /\ o > 0
         /\ j = "follMe" => c < 0 /\ c < o
         /\ j = "follOpponent" => o < 0 /\ c > o /\ c # 0
         /\ j = "exclusive" => c = 0 /\ o < 0
  <1>1. CASE j = JudgeOnReceive(c, o)
    BY <1>1 DEF JudgeOnReceive
  <1>2. CASE c # 0 /\ j = JudgeOnSend(c, o)
    BY <1>2 DEF JudgeOnSend
  <1> QED BY <1>1, <1>2

\* An honest queue stays honest as reports are added and packets consumed, and
\* when the packet put on it is honest.
LEMMA InFlightKept ==
  ASSUME TypeOK, NEW p \in Phone, InFlight(p),
         reports[Other(p)] \subseteq reports'[Other(p)],
         judged[Other(p)][1] = "exclusive" => judged'[Other(p)][1] = "exclusive",
         \/ net'[p] = net[p]
         \/ net[p] # << >> /\ net'[p] = Tail(net[p])
         \/ \E m \in Packet : net'[p] = Append(net[p], m) /\ Honest(p, m)'
  PROVE  InFlight(p)'
  <1>1. net[p] \in Seq(Packet)
    BY DEF TypeOK
  <1>2. \A m : Honest(p, m) => Honest(p, m)'
    BY DEF Honest
  <1>3. CASE net'[p] = net[p]
    BY <1>2, <1>3 DEF InFlight
  <1>4. CASE net[p] # << >> /\ net'[p] = Tail(net[p])
    BY <1>1, <1>2, <1>4, QueueElements DEF InFlight
  <1>5. CASE \E m \in Packet : net'[p] = Append(net[p], m) /\ Honest(p, m)'
    <2>1. PICK m \in Packet : net'[p] = Append(net[p], m) /\ Honest(p, m)'
      BY <1>5
    <2>2. SUFFICES ASSUME NEW i \in DOMAIN net'[p] PROVE Honest(p, net[p][i])'
      BY DEF InFlight
    <2>3. net'[p][i] = m \/ (i \in DOMAIN net[p] /\ net'[p][i] = net[p][i])
      BY <1>1, <2>1, QueueElements
    <2> QED BY <1>2, <2>1, <2>3 DEF InFlight
  <1> QED BY <1>3, <1>4, <1>5

\* A judgement by times that were reported is witnessed.
LEMMA JudgedIsWitnessed ==
  ASSUME TypeOK, NEW p \in Phone, NEW c \in Int, NEW o \in Int, NEW j \in Judgement, NEW g,
         j # "open", EndExchange(p, j, c, o, g),
         j = "shots" => c > 0 /\ o > 0,
         j = "follMe" => c < 0 /\ c < o,
         j = "follOpponent" => o < 0 /\ c > o /\ c # 0,
         j = "exclusive" => c = 0 /\ o < 0,
         0 \notin reports'[p], c \in reports'[p] \/ (c = 0 /\ reports'[p] = {}),
         o \in reports'[Other(p)] \/ (o = 0 /\ judged'[Other(p)][1] = "exclusive")
  PROVE  Witnessed(p)'
  <1>1. /\ endDuel'[p]
        /\ judged'[p] = <<j, ResultOf(j, c, o)>>
    BY DEF EndExchange, TypeOK
  <1>2. CASE j = "shots"
    BY <1>1, <1>2 DEF Witnessed
  <1>3. CASE j = "follMe"
    BY <1>1, <1>3 DEF Witnessed, ResultOf
  <1>4. CASE j = "follOpponent"
    BY <1>1, <1>4 DEF Witnessed, ResultOf
  <1>5. CASE j = "exclusive"
    BY <1>1, <1>5 DEF Witnessed, ResultOf
  <1> QED BY <1>2, <1>3, <1>4, <1>5 DEF Judgement

\* A witnessed judgement stays witnessed as reports are added by the opponent
\* and while the opponent keeps an exclusive judgement.
LEMMA WitnessedKept ==
  ASSUME NEW p \in Phone, Witnessed(p),
         endDuel'[p] = endDuel[p], judged'[p] = judged[p], reports'[p] = reports[p],
         reports[Other(p)] \subseteq reports'[Other(p)],
         judged[Other(p)][1] = "exclusive" => judged'[Other(p)][1] = "exclusive"
  PROVE  Witnessed(p)'
  BY DEF Witnessed

-----------------------------------------------------------------------------
(***************************************************************************)
(* ExchangeInv is inductive.                                               *)
(***************************************************************************)

\* A step that judges nothing, reports nothing and only consumes packets or
\* sends signals preserves it.
LEMMA OtherSteps ==
  ASSUME TypeOK, ExchangeInv,
         UNCHANGED <<carShotTime, opShotTime, endDuel, judged, reports>>,
         \A p \in Phone :
           \/ net'[p] = net[p]
           \/ net[p] # << >> /\ net'[p] = Tail(net[p])
           \/ \E id \in PacketID \ {"SEND_SHOT_TIME"} : net'[p] = Append(net[p], Signal(id))
  PROVE  ExchangeInv'
  <1> SUFFICES ASSUME NEW p \in Phone
               PROVE  /\ 0 \notin reports'[p]
                      /\ opShotTime'[p] \in reports'[Other(p)] \union {0}
                      /\ OwnTime(p)' /\ InFlight(p)' /\ Witnessed(p)'
    BY DEF ExchangeInv
  <1>1. \A id \in PacketID \ {"SEND_SHOT_TIME"} : Signal(id) \in Packet /\ Honest(p, Signal(id))'
    BY PacketTypes DEF Signal, Honest
  <1>2. InFlight(p) /\ Witnessed(p) /\ OwnTime(p)
    BY DEF ExchangeInv
  <1>3. InFlight(p)'
    BY <1>1, <1>2, InFlightKept
  <1>4. OwnTime(p)'
    BY <1>2 DEF OwnTime
  <1> QED BY <1>2, <1>3, <1>4, WitnessedKept DEF ExchangeInv

\* Reporting a time: it joins the reports, and if it settles the exchange the
\* judgement is witnessed.
LEMMA SendShotTimeExchange ==
  ASSUME TypeOK, ExchangeInv, NEW p \in Phone, NEW s \in Int, NEW g, SendShotTime(p, s, g)
  PROVE  ExchangeInv'
  <1> DEFINE q == Other(p)
             t == Reported(s)
             j == JudgeOnSend(t, opShotTime[p])
  <1>1. q \in Phone /\ q # p /\ Other(q) = p /\ \A r \in Phone : r = p \/ r = q
    BY OtherPhone DEF Phone, Other
  <1>2. t \in Int /\ t # 0 /\ opShotTime[p] \in Int /\ j \in Judgement
    <2>1. t \in Int /\ t # 0 /\ opShotTime[p] \in Int
      BY DEF Reported, TypeOK
    <2> QED BY <2>1, JudgeTypes
  <1>3. carShotTime' = [carShotTime EXCEPT ![p] = t] /\ UNCHANGED opShotTime
    BY Zenon DEF SendShotTime
  <1>4. /\ InFlight(p) /\ InFlight(q) /\ Witnessed(p) /\ Witnessed(q) /\ OwnTime(q)
        /\ 0 \notin reports[p] /\ 0 \notin reports[q]
        /\ opShotTime[p] \in reports[q] \union {0} /\ opShotTime[q] \in reports[p] \union {0}
    BY <1>1 DEF ExchangeInv
  <1>5. SUFFICES /\ 0 \notin reports'[p] /\ 0 \notin reports'[q]
                 /\ opShotTime'[p] \in reports'[q] \union {0}
                 /\ opShotTime'[q] \in reports'[p] \union {0}
                 /\ OwnTime(p)' /\ OwnTime(q)' /\ InFlight(p)' /\ InFlight(q)'
                 /\ Witnessed(p)' /\ Witnessed(q)'
    BY <1>1 DEF ExchangeInv
  <1>6. CASE endDuel[p]
    <2>1. UNCHANGED <<endDuel, net, judged, reports>>
      BY <1>6, Zenon DEF SendShotTime
    <2>2. InFlight(p)' /\ InFlight(q)'
      BY <1>1, <1>4, <2>1, InFlightKept
    <2>3. Witnessed(p)' /\ Witnessed(q)'
      BY <1>1, <1>4, <2>1, WitnessedKept
    <2>4. OwnTime(p)' /\ OwnTime(q)'
      BY <1>1, <1>3, <1>4, <1>6, <2>1 DEF OwnTime, TypeOK
    <2> QED BY <1>3, <1>4, <2>1, <2>2, <2>3, <2>4
  <1>7. CASE ~endDuel[p]
    <2>1. /\ net' = [net EXCEPT ![q] = Append(@, ShotTime(t))]
          /\ reports' = [reports EXCEPT ![p] = @ \union {t}]
          /\ \/ j = "open" /\ UNCHANGED <<endDuel, judged>>
             \/ j # "open" /\ EndExchange(p, j, t, opShotTime[p], g)
      BY <1>7, Zenon DEF SendShotTime
    <2> HIDE DEF j, t
    <2>2. /\ reports'[p] = reports[p] \union {t} /\ reports'[q] = reports[q]
          /\ net'[q] = Append(net[q], ShotTime(t)) /\ net'[p] = net[p]
      BY <1>1, <2>1 DEF TypeOK
    <2>3. judged'[q] = judged[q] /\ endDuel'[q] = endDuel[q]
      BY <1>1, <2>1 DEF EndExchange, TypeOK
    <2>4. judged[p][1] # "exclusive"
      BY <1>4, <1>7 DEF Witnessed
    <2>5. InFlight(p)'
      BY <1>1, <1>4, <2>2, <2>3, InFlightKept
    <2>6. InFlight(q)'
      <3>1. ShotTime(t) \in Packet /\ Honest(q, ShotTime(t))'
        BY <1>1, <1>2, <2>2, PacketTypes DEF Honest, ShotTime
      <3> QED BY <1>1, <1>4, <2>2, <2>4, <3>1, InFlightKept
    <2>7. Witnessed(q)'
      BY <1>1, <1>4, <2>2, <2>3, <2>4, WitnessedKept
    <2>8. Witnessed(p)'
      <3>1. CASE j = "open" /\ UNCHANGED <<endDuel, judged>>
        BY <1>1, <1>4, <1>7, <2>2, <2>4, <3>1 DEF Witnessed
      <3>2. CASE j # "open" /\ EndExchange(p, j, t, opShotTime[p], g)
        <4>1. /\ j = "shots" => t > 0 /\ opShotTime[p] > 0
              /\ j = "follMe" => t < 0 /\ t < opShotTime[p]
              /\ j = "follOpponent" => opShotTime[p] < 0 /\ t > opShotTime[p] /\ t # 0
              /\ j = "exclusive" => t = 0 /\ opShotTime[p] < 0
          BY <1>2, JudgementMeans DEF j
        <4>2. opShotTime[p] # 0
          BY <1>2, <3>2 DEF j, JudgeOnSend
        <4> QED BY <1>2, <1>4, <2>2, <3>2, <4>1, <4>2, JudgedIsWitnessed
      <3> QED BY <2>1, <3>1, <3>2
    <2>9. OwnTime(p)' /\ OwnTime(q)'
      BY <1>1, <1>3, <1>4, <2>2, <2>3 DEF OwnTime, TypeOK
    <2> QED BY <1>2, <1>3, <1>4, <2>2, <2>5, <2>6, <2>7, <2>8, <2>9
  <1> QED BY <1>6, <1>7

\* The 0 a phone answers an exclusive foul with is honest.
LEMMA ZeroIsHonest ==
  ASSUME NEW p \in Phone, judged'[p][1] = "exclusive"
  PROVE  Honest(Other(p), ShotTime(0))'
  <1>1. Other(Other(p)) = p
    BY OtherPhone
  <1>2. ShotTime(0).time = 0
    BY DEF ShotTime
  <1> QED BY <1>1, <1>2 DEF Honest

\* Receiving a time: it was honest, so is the 0 sent in answer, and if it
\* settles the exchange the judgement is witnessed.
LEMMA ReceiveShotTimeExchange ==
  ASSUME TypeOK, ExchangeInv, NEW p \in Phone, ReceiveShotTime(p)
  PROVE  ExchangeInv'
  <1> DEFINE q == Other(p)
             c == carShotTime[p]
             o == Head(net[p]).time
             j == JudgeOnReceive(c, o)
  <1>1. q \in Phone /\ q # p /\ Other(q) = p /\ \A r \in Phone : r = p \/ r = q
    BY OtherPhone DEF Phone, Other
  <1>2. UNCHANGED <<carShotTime, reports>>
    BY Zenon DEF ReceiveShotTime
  <1>3. /\ net[p] # << >> /\ net[p] \in Seq(Packet) /\ Head(net[p]) \in Packet
        /\ Head(net[p]).id = "SEND_SHOT_TIME"
    BY QueueTypes DEF ReceiveShotTime, Receives, TypeOK
  <1>4. /\ InFlight(p) /\ InFlight(q) /\ Witnessed(p) /\ Witnessed(q)
        /\ OwnTime(p) /\ OwnTime(q)
        /\ 0 \notin reports[p] /\ 0 \notin reports[q]
        /\ opShotTime[p] \in reports[q] \union {0} /\ opShotTime[q] \in reports[p] \union {0}
    BY <1>1 DEF ExchangeInv
  <1>5. o \in reports[q] \/ (o = 0 /\ judged[q][1] = "exclusive")
    BY <1>3, <1>4, QueueElements DEF InFlight, Honest
  <1>6. c \in Int /\ o \in Int /\ j \in Judgement
    <2>1. c \in Int /\ o \in Int
      BY <1>3 DEF TypeOK, Packet
    <2> QED BY <2>1, JudgeTypes
  <1>7. SUFFICES /\ opShotTime'[p] \in reports'[q] \union {0}
                 /\ opShotTime'[q] \in reports'[p] \union {0}
                 /\ OwnTime(p)' /\ OwnTime(q)' /\ InFlight(p)' /\ InFlight(q)'
                 /\ Witnessed(p)' /\ Witnessed(q)'
    BY <1>1, <1>2, <1>4 DEF ExchangeInv
  <1>8. CASE endDuel[p]
    <2>1. Consume(p) /\ UNCHANGED <<opShotTime, endDuel, judged>>
      BY <1>8, Zenon DEF ReceiveShotTime
    <2>2. net'[p] = Tail(net[p]) /\ net'[q] = net[q]
      BY <1>1, <2>1 DEF Consume, TypeOK
    <2>3. InFlight(p)' /\ InFlight(q)'
      BY <1>1, <1>2, <1>3, <1>4, <2>1, <2>2, InFlightKept
    <2>4. Witnessed(p)' /\ Witnessed(q)'
      BY <1>1, <1>2, <1>4, <2>1, WitnessedKept
    <2> QED BY <1>2, <1>4, <2>1, <2>3, <2>4 DEF OwnTime
  <1>9. CASE ~endDuel[p]
    <2>1. /\ opShotTime' = [opShotTime EXCEPT ![p] = o]
          /\ IF j = "exclusive" THEN ConsumeAndSend(p, ShotTime(c)) ELSE Consume(p)
          /\ \/ j = "open" /\ UNCHANGED <<endDuel, judged>>
             \/ j # "open" /\ EndExchange(p, j, c, o, gun[p])
      BY <1>9, Zenon DEF ReceiveShotTime
    <2>2. c \in reports[p] \/ (c = 0 /\ reports[p] = {})
      BY <1>4, <1>9 DEF OwnTime
    <2> HIDE DEF j, c, o
    <2>3. judged'[q] = judged[q] /\ endDuel'[q] = endDuel[q]
      BY <1>1, <2>1 DEF EndExchange, TypeOK
    <2>4. judged[p][1] = "open"
      BY <1>4, <1>9 DEF Witnessed
    <2>5. /\ j = "shots" => c > 0 /\ o > 0
          /\ j = "follMe" => c < 0 /\ c < o
          /\ j = "follOpponent" => o < 0 /\ c > o /\ c # 0
          /\ j = "exclusive" => c = 0 /\ o < 0
      BY <1>6, JudgementMeans DEF j
    <2>6. /\ net'[p] = Tail(net[p])
          /\ net'[q] = IF j = "exclusive" THEN Append(net[q], ShotTime(c)) ELSE net[q]
      <3>1. CASE j = "exclusive"
        <4>1. net' = [net EXCEPT ![p] = Tail(@), ![q] = Append(@, ShotTime(c))]
          BY <2>1, <3>1 DEF ConsumeAndSend
        <4> QED BY <1>1, <3>1, <4>1 DEF TypeOK
      <3>2. CASE j # "exclusive"
        <4>1. net' = [net EXCEPT ![p] = Tail(@)]
          BY <2>1, <3>2 DEF Consume
        <4> QED BY <1>1, <3>2, <4>1 DEF TypeOK
      <3> QED BY <3>1, <3>2
    <2>7. InFlight(p)'
      BY <1>1, <1>2, <1>3, <1>4, <2>3, <2>6, InFlightKept
    <2>8. InFlight(q)'
      <3>1. CASE j = "exclusive"
        <4>1. judged'[p][1] = "exclusive"
          BY <2>1, <3>1 DEF EndExchange, TypeOK
        <4>2. ShotTime(0) \in Packet /\ Honest(q, ShotTime(0))'
          BY <4>1, PacketTypes, ZeroIsHonest
        <4>3. net'[q] = Append(net[q], ShotTime(0))
          BY <2>5, <2>6, <3>1
        <4>4. reports[p] \subseteq reports'[p] /\ judged[p][1] # "exclusive"
          BY <1>2, <2>4
        <4> QED BY <1>1, <1>4, <4>2, <4>3, <4>4, InFlightKept
      <3>2. CASE j # "exclusive"
        BY <1>1, <1>2, <1>4, <2>4, <2>6, <3>2, InFlightKept
      <3> QED BY <3>1, <3>2
    <2>9. Witnessed(q)'
      BY <1>1, <1>2, <1>4, <2>3, <2>4, WitnessedKept
    <2>10. Witnessed(p)'
      <3>1. CASE j = "open" /\ UNCHANGED <<endDuel, judged>>
        BY <1>2, <1>4, <2>3, <3>1, WitnessedKept
      <3>2. CASE j # "open" /\ EndExchange(p, j, c, o, gun[p])
        BY <1>2, <1>4, <1>5, <1>6, <2>2, <2>3, <2>5, <3>2, JudgedIsWitnessed
      <3> QED BY <2>1, <3>1, <3>2
    <2>11. /\ opShotTime'[p] \in reports'[q] \union {0}
           /\ opShotTime'[q] \in reports'[p] \union {0}
      BY <1>1, <1>2, <1>4, <1>5, <2>1 DEF TypeOK
    <2>12. OwnTime(p)' /\ OwnTime(q)'
      BY <1>2, <1>4, <1>9, <2>2, <2>3 DEF OwnTime, c
    <2> QED BY <2>7, <2>8, <2>9, <2>10, <2>11, <2>12
  <1> QED BY <1>8, <1>9

\* Nothing is known or judged at first.
LEMMA InitExchange == Init => ExchangeInv
  <1> SUFFICES ASSUME Init, NEW p \in Phone
               PROVE  /\ 0 \notin reports[p]
                      /\ opShotTime[p] \in reports[Other(p)] \union {0}
                      /\ OwnTime(p) /\ InFlight(p) /\ Witnessed(p)
    BY DEF ExchangeInv
  <1>1. InFlight(p)
    <2>1. net[p] = << >> \/ net[p] = << Signal("START_DUEL_TRUE") >>
      BY DEF Init, OneWaits, BothShow
    <2>2. Honest(p, Signal("START_DUEL_TRUE"))
      BY DEF Honest, Signal
    <2> QED BY <2>1, <2>2 DEF InFlight
  <1> QED BY <1>1, OtherPhone DEF Init, OwnTime, Witnessed

\* Every step keeps what the reports say of the judgements.
LEMMA StepExchange == TypeOK /\ ExchangeInv /\ [Next]_vars => ExchangeInv'
  <1> SUFFICES ASSUME TypeOK, ExchangeInv, [Next]_vars PROVE ExchangeInv'
    OBVIOUS
  <1> USE DEF exchangeVars
  <1>1. CASE UNCHANGED vars
    BY <1>1, OtherSteps DEF vars
  <1>2. ASSUME NEW p \in Phone, Player(p) PROVE ExchangeInv'
    <2>0. gun[p] \in Gun /\ Reading(gun[p], FALSE) \in Gun
      BY ReadingType DEF TypeOK
    <2>1. CASE LowerGun(p)
      <3>1. /\ UNCHANGED <<carShotTime, opShotTime, endDuel, judged, reports>>
            /\ \/ UNCHANGED net
               \/ net' = [net EXCEPT ![Other(p)] = Append(@, Signal("ACCEL_STATE"))]
        BY <2>1, Zenon DEF LowerGun
      <3>2. "ACCEL_STATE" \in PacketID \ {"SEND_SHOT_TIME"}
        BY DEF PacketID
      <3>3. ASSUME NEW r \in Phone
            PROVE  net'[r] = net[r] \/ net'[r] = Append(net[r], Signal("ACCEL_STATE"))
        BY <3>1, OtherPhone DEF TypeOK
      <3> QED BY <3>1, <3>2, <3>3, OtherSteps
    <2>2. CASE RaiseGun(p)
      BY <2>2, OtherSteps DEF RaiseGun
    <2>3. CASE RaiseTooEarly(p)
      <3> DEFINE g == Reading(gun[p], FALSE)
      <3>1. -g.clock \in Int
        <4>1. g \in Gun
          BY <2>0
        <4>2. g.clock \in Nat
          BY <4>1, GunFields, Zenon
        <4> HIDE DEF g
        <4> QED BY <4>2
      <3>2. \E h : SendShotTime(p, -g.clock, h)
        BY <2>3, Zenon DEF RaiseTooEarly
      <3> HIDE DEF g
      <3> QED BY <3>1, <3>2, SendShotTimeExchange
    <2>4. CASE Trick(p)
      BY <2>4, OtherSteps DEF Trick
    <2>5. CASE Kill(p)
      <3>1. PICK now \in Now(p) :
              \E h : SendShotTime(p, Shoot(gun[p], now).clock - FireTime, h)
        BY <2>5, Zenon DEF Kill
      <3>2. now \in Nat
        BY <2>0, GunFields, RoundAssumption DEF Now
      <3> DEFINE g == Shoot(gun[p], now)
      <3>3. g.clock - FireTime \in Int
        <4>1. g \in Gun
          BY <2>0, <3>2, ShootType
        <4>2. g.clock \in Nat
          BY <4>1, GunFields, Zenon
        <4> HIDE DEF g
        <4> QED BY <4>2, RoundAssumption
      <3> QED BY <3>1, <3>3, SendShotTimeExchange
    <2>6. CASE ShootOn(p)
      BY <2>6, OtherSteps DEF ShootOn
    <2>7. CASE ShootTooEarly(p)
      BY <2>7, OtherSteps DEF ShootTooEarly
    <2> QED BY <1>2, <2>1, <2>2, <2>3, <2>4, <2>5, <2>6, <2>7 DEF Player
  <1>3. ASSUME NEW p \in Phone, Clock(p) PROVE ExchangeInv'
    <2>1. CASE Tick(p)
      BY <2>1, OtherSteps DEF Tick
    <2>2. CASE DuelTimerEnd(p)
      BY <2>2, OtherSteps DEF DuelTimerEnd
    <2>3. CASE FollSend(p)
      <3>1. \E h : SendShotTime(p, -gun[p].clock, h)
        BY <2>3, Zenon DEF FollSend
      <3>2. -gun[p].clock \in Int
        BY GunFields DEF TypeOK
      <3> QED BY <3>1, <3>2, SendShotTimeExchange
    <2>4. CASE DidDisappear(p)
      BY <2>4, OtherSteps DEF DidDisappear
    <2> QED BY <1>3, <2>1, <2>2, <2>3, <2>4 DEF Clock
  <1>4. ASSUME NEW p \in Phone, Receive(p) PROVE ExchangeInv'
    <2>1. CASE ReceiveStartDuelTrue(p)
      <3>1. /\ UNCHANGED <<carShotTime, opShotTime, endDuel, judged, reports>>
            /\ net[p] # << >> /\ net' = [net EXCEPT ![p] = Tail(@)]
        BY <2>1, Zenon DEF ReceiveStartDuelTrue, Receives, Consume
      <3> QED BY <3>1, OtherSteps DEF TypeOK
    <2>2. CASE ReceiveAccelState(p)
      <3>1. /\ UNCHANGED <<carShotTime, opShotTime, endDuel, judged, reports>>
            /\ net[p] # << >>
            /\ \/ net' = [net EXCEPT ![p] = Tail(@)]
               \/ net' = [net EXCEPT ![p] = Tail(@),
                                     ![Other(p)] = Append(@, Signal("ACCEL_STATE_TRUE"))]
        BY <2>2, Zenon DEF ReceiveAccelState, Receives, Consume, ConsumeAndSend
      <3>2. "ACCEL_STATE_TRUE" \in PacketID \ {"SEND_SHOT_TIME"}
        BY DEF PacketID
      <3>3. ASSUME NEW r \in Phone
            PROVE  \/ net'[r] = net[r]
                   \/ net[r] # << >> /\ net'[r] = Tail(net[r])
                   \/ net'[r] = Append(net[r], Signal("ACCEL_STATE_TRUE"))
        BY <3>1, OtherPhone, ZenonT(60) DEF TypeOK
      <3> QED BY <3>1, <3>2, <3>3, OtherSteps
    <2>3. CASE ReceiveAccelStateTrue(p)
      <3>1. /\ UNCHANGED <<carShotTime, opShotTime, endDuel, judged, reports>>
            /\ net[p] # << >> /\ net' = [net EXCEPT ![p] = Tail(@)]
        BY <2>3, Zenon DEF ReceiveAccelStateTrue, Receives, Consume
      <3> QED BY <3>1, OtherSteps DEF TypeOK
    <2>4. CASE ReceiveShotTime(p)
      BY <2>4, ReceiveShotTimeExchange
    <2> QED BY <1>4, <2>1, <2>2, <2>3, <2>4 DEF Receive
  <1> QED BY <1>1, <1>2, <1>3, <1>4 DEF Next

\* The two invariants together hold throughout.
THEOREM ExchangeInvariant == Spec => [](TypeOK /\ ExchangeInv)
  BY InitTypes, StepTypes, InitExchange, StepExchange, PTL DEF Spec

-----------------------------------------------------------------------------
(***************************************************************************)
(* What it is for.                                                         *)
(***************************************************************************)

\* Witnessed judgements of single reports are opposite.
LEMMA AgreementFromInv == TypeOK /\ ExchangeInv => Agreement
  <1> SUFFICES ASSUME TypeOK, ExchangeInv, Settled, OneTime(0), OneTime(1)
               PROVE  judged[0][2] = Opposite(judged[1][2])
    BY DEF Agreement
  <1>1. /\ Witnessed(0) /\ Witnessed(1) /\ Other(0) = 1 /\ Other(1) = 0
        /\ reports[0] \subseteq Int /\ reports[1] \subseteq Int
        /\ judged[0][1] \in Judgement \ {"open"} /\ judged[1][1] \in Judgement \ {"open"}
    BY DEF ExchangeInv, TypeOK, Settled, Witnessed, Phone, Other
  <1>2. CASE judged[0][1] = "shots"
    <2>1. judged[1][1] = "shots"
      BY <1>1, <1>2 DEF Witnessed, OneTime, Judgement
    <2> QED BY <1>1, <1>2, <2>1 DEF Witnessed, OneTime, ResultOf, Opposite
  <1>3. CASE judged[0][1] = "follMe"
    <2>1. judged[1][1] \in {"follOpponent", "exclusive"}
      BY <1>1, <1>3 DEF Witnessed, OneTime, Judgement
    <2> QED BY <1>1, <1>3, <2>1 DEF Witnessed, Opposite
  <1>4. CASE judged[0][1] \in {"follOpponent", "exclusive"}
    <2>1. judged[1][1] = "follMe"
      BY <1>1, <1>4 DEF Witnessed, OneTime, Judgement
    <2> QED BY <1>1, <1>4, <2>1 DEF Witnessed, Opposite
  <1> QED BY <1>1, <1>2, <1>3, <1>4 DEF Judgement

\* A witnessed judgement is deserved.
LEMMA RightWinnerFromInv == TypeOK /\ ExchangeInv => RightWinner
  <1> SUFFICES ASSUME TypeOK, ExchangeInv, NEW p \in Phone,
                      OneTime(p), OneTime(Other(p)), judged[p][2] = "won"
               PROVE  \E b \in reports[Other(p)] :
                        \/ b < 0 /\ \A a \in reports[p] : a > 0 \/ a > b
                        \/ b > 0 /\ \E a \in reports[p] : 0 < a /\ a < b
    BY DEF RightWinner
  <1>1. /\ Witnessed(p) /\ reports[p] \subseteq Int /\ reports[Other(p)] \subseteq Int
        /\ judged[p][1] \in Judgement
    BY OtherPhone DEF ExchangeInv, TypeOK
  <1>2. CASE judged[p][1] = "shots"
    BY <1>1, <1>2 DEF Witnessed, ResultOf
  <1>3. CASE judged[p][1] = "follOpponent"
    BY <1>1, <1>3 DEF Witnessed, OneTime
  <1>4. CASE judged[p][1] = "exclusive"
    BY <1>1, <1>4 DEF Witnessed
  <1>5. judged[p][1] \notin {"open", "follMe"}
    BY <1>1 DEF Witnessed
  <1> QED BY <1>1, <1>2, <1>3, <1>4, <1>5 DEF Judgement

(***************************************************************************)
(* When both phones have judged the exchange and each reported one time,   *)
(* their results are opposite, in whatever order reports and packets       *)
(* crossed (sendShotTime, receiveData).                                    *)
(***************************************************************************)
THEOREM AgreementHolds == Spec => []Agreement
  BY ExchangeInvariant, AgreementFromInv, PTL

(***************************************************************************)
(* A phone that judges its player the winner is right: the opponent fouled *)
(* and the player did not or at an earlier reading, or both hit and the    *)
(* player first.                                                           *)
(***************************************************************************)
THEOREM RightWinnerHolds == Spec => []RightWinner
  BY ExchangeInvariant, RightWinnerFromInv, PTL

-----------------------------------------------------------------------------
(***************************************************************************)
(* The exchange implements RoundContract: a step of DuelRound is a step of *)
(* the contract or leaves the results alone.                               *)
(***************************************************************************)

\* What a step may do to one phone's judgement and reports.
JudgesOnce(p) ==
  /\ reports[p] \subseteq reports'[p]
  /\ judged'[p] # judged[p] => /\ judged[p][1] = "open"
                               /\ judged'[p][2] \in Result \ {"none"}
                               /\ judged'[Other(p)] = judged[Other(p)]

\* A judgement that is not open comes with a result.
LEMMA EndExchangeJudges ==
  ASSUME TypeOK, NEW p \in Phone, NEW j \in Judgement, NEW c \in Int, NEW o \in Int, NEW g,
         ~endDuel[p], Witnessed(p), EndExchange(p, j, c, o, g)
  PROVE  /\ judged[p][1] = "open"
         /\ judged'[p][2] \in Result \ {"none"}
         /\ judged'[Other(p)] = judged[Other(p)]
  <1>1. ResultOf(j, c, o) \in Result \ {"none"}
    BY DEF ResultOf, Result
  <1>2. judged' = [judged EXCEPT ![p] = <<j, ResultOf(j, c, o)>>]
    BY DEF EndExchange
  <1>3. judged \in [Phone -> Judgement \X Result]
    BY DEF TypeOK
  <1> QED BY <1>1, <1>2, <1>3, OtherPhone DEF Witnessed

\* Sending one's time judges at most once.
LEMMA SendJudgesOnce ==
  ASSUME TypeOK, ExchangeInv, NEW p \in Phone, NEW s \in Int, NEW g, SendShotTime(p, s, g)
  PROVE  \A r \in Phone : JudgesOnce(r)
  <1> DEFINE t == Reported(s)
             j == JudgeOnSend(t, opShotTime[p])
  <1>1. t \in Int /\ opShotTime[p] \in Int
    BY DEF Reported, TypeOK
  <1>2. j \in Judgement
    BY <1>1, JudgeTypes
  <1>3. reports \in [Phone -> SUBSET Int]
    BY DEF TypeOK
  <1>4. CASE endDuel[p]
    BY <1>4 DEF SendShotTime, JudgesOnce
  <1>5. CASE ~endDuel[p] /\ j = "open"
    BY <1>3, <1>5 DEF SendShotTime, JudgesOnce
  <1>6. CASE ~endDuel[p] /\ j # "open"
    <2>1. EndExchange(p, j, t, opShotTime[p], g) /\ Witnessed(p)
      BY <1>6 DEF SendShotTime, ExchangeInv
    <2>2. /\ judged[p][1] = "open" /\ judged'[p][2] \in Result \ {"none"}
          /\ judged'[Other(p)] = judged[Other(p)]
      BY <1>1, <1>2, <1>6, <2>1, EndExchangeJudges
    <2>3. \A r \in Phone : reports[r] \subseteq reports'[r]
      BY <1>3, <1>6 DEF SendShotTime
    <2>4. \A r \in Phone : r = p \/ r = Other(p)
      BY DEF Phone, Other
    <2> QED BY <2>2, <2>3, <2>4 DEF JudgesOnce
  <1> QED BY <1>4, <1>5, <1>6

\* So does receiving the opponent's.
LEMMA ReceiveJudgesOnce ==
  ASSUME TypeOK, ExchangeInv, NEW p \in Phone, ReceiveShotTime(p)
  PROVE  \A r \in Phone : JudgesOnce(r)
  <1> DEFINE c == carShotTime[p]
             o == Head(net[p]).time
             j == JudgeOnReceive(c, o)
  <1>1. net[p] \in Seq(Packet) /\ net[p] # << >>
    BY DEF TypeOK, ReceiveShotTime, Receives
  <1>2. c \in Int /\ o \in Int
    BY <1>1, QueueTypes DEF TypeOK, Packet
  <1>3. j \in Judgement
    BY <1>2, JudgeTypes
  <1>4. reports' = reports
    BY DEF ReceiveShotTime
  <1>5. CASE endDuel[p] \/ j = "open"
    BY <1>4, <1>5 DEF ReceiveShotTime, JudgesOnce, EndExchange
  <1>6. CASE ~endDuel[p] /\ j # "open"
    <2>1. EndExchange(p, j, c, o, gun[p]) /\ Witnessed(p)
      BY <1>6 DEF ReceiveShotTime, ExchangeInv
    <2>2. /\ judged[p][1] = "open" /\ judged'[p][2] \in Result \ {"none"}
          /\ judged'[Other(p)] = judged[Other(p)]
      BY <1>2, <1>3, <1>6, <2>1, EndExchangeJudges
    <2>3. \A r \in Phone : r = p \/ r = Other(p)
      BY DEF Phone, Other
    <2> QED BY <1>4, <2>2, <2>3 DEF JudgesOnce
  <1> QED BY <1>5, <1>6

\* And no step does otherwise.
LEMMA StepJudgesOnce ==
  ASSUME TypeOK, ExchangeInv, [Next]_vars
  PROVE  \A r \in Phone : JudgesOnce(r)
  <1> USE DEF exchangeVars
  <1>1. CASE UNCHANGED <<judged, reports>>
    BY <1>1 DEF JudgesOnce
  <1>2. CASE UNCHANGED vars
    BY <1>1, <1>2 DEF vars
  <1>3. ASSUME NEW p \in Phone, Player(p) PROVE \A r \in Phone : JudgesOnce(r)
    <2>1. gun[p] \in Gun /\ \A b \in BOOLEAN : Reading(gun[p], b) \in Gun
      BY ReadingType DEF TypeOK
    <2>2. CASE RaiseTooEarly(p)
      <3> DEFINE g == Reading(gun[p], FALSE)
      <3>1. \A h \in Gun : -h.clock \in Int
        BY DEF Gun
      <3>2. -g.clock \in Int
        BY <2>1, <3>1
      <3> QED BY <2>2, <3>2, SendJudgesOnce DEF RaiseTooEarly
    <2>3. CASE Kill(p)
      <3>1. PICK now \in Now(p) :
              LET g == Shoot(gun[p], now)
              IN  SendShotTime(p, g.clock - FireTime,
                    [g EXCEPT !.touch = FALSE, !.trigger = FALSE, !.aiming = FALSE,
                              !.timer = FALSE])
        BY <2>3 DEF Kill
      <3>2. now \in Nat
        BY <2>1, RoundAssumption DEF Now, Gun
      <3>3. Shoot(gun[p], now) \in Gun
        BY <2>1, <3>2, ShootType
      <3>4. Shoot(gun[p], now).clock - FireTime \in Int
        BY <3>3, RoundAssumption, SMTT(60) DEF Gun
      <3> QED BY <3>1, <3>4, SendJudgesOnce
    <2>4. CASE LowerGun(p) \/ RaiseGun(p) \/ Trick(p) \/ ShootOn(p) \/ ShootTooEarly(p)
      BY <1>1, <2>4 DEF LowerGun, RaiseGun, Trick, ShootOn, ShootTooEarly
    <2> QED BY <1>3, <2>2, <2>3, <2>4 DEF Player
  <1>4. ASSUME NEW p \in Phone, Clock(p) PROVE \A r \in Phone : JudgesOnce(r)
    <2>1. CASE FollSend(p)
      <3>1. -gun[p].clock \in Int
        BY DEF TypeOK, Gun
      <3> QED BY <2>1, <3>1, SendJudgesOnce DEF FollSend
    <2>2. CASE Tick(p) \/ DuelTimerEnd(p) \/ DidDisappear(p)
      BY <1>1, <2>2 DEF Tick, DuelTimerEnd, DidDisappear
    <2> QED BY <1>4, <2>1, <2>2 DEF Clock
  <1>5. ASSUME NEW p \in Phone, Receive(p) PROVE \A r \in Phone : JudgesOnce(r)
    BY <1>1, <1>5, ReceiveJudgesOnce
       DEF Receive, ReceiveStartDuelTrue, ReceiveAccelState, ReceiveAccelStateTrue
  <1> QED BY <1>2, <1>3, <1>4, <1>5 DEF Next

-----------------------------------------------------------------------------
\* A step judged once is a step of the contract.
LEMMA StepKeepsContract ==
  ASSUME TypeOK, TypeOK', ExchangeInv, ExchangeInv', Agreement', [Next]_vars
  PROVE  [Contract!Next]_Contract!vars
  <1> DEFINE outcome == [p \in Phone |-> judged[p][2]]
             clean == OneTime(0) /\ OneTime(1)
  <1>1. \A p \in Phone : JudgesOnce(p)
    BY StepJudgesOnce
  <1>2. \A p \in Phone : judged[p] \in Judgement \X Result /\ judged'[p] \in Judgement \X Result
    BY DEF TypeOK
  <1>3. Contract!Soil
    <2>1. clean' \in BOOLEAN
      BY DEF OneTime
    <2>2. 0 \in Phone /\ 1 \in Phone
      BY DEF Phone
    <2>3. clean' => clean
      BY <1>1, <2>2 DEF JudgesOnce, OneTime
    <2> QED BY <2>1, <2>3 DEF Contract!Soil
  <1>4. CASE judged' = judged
    <2>1. outcome' = outcome
      BY <1>4
    <2> QED BY <1>3, <2>1 DEF Contract!Next
  <1>5. CASE judged' # judged
    <2>1. PICK p \in Phone : judged'[p] # judged[p]
      BY <1>5 DEF TypeOK
    <2>2. judged[p][1] = "open" /\ judged'[p][2] \in Result \ {"none"}
          /\ judged'[Other(p)] = judged[Other(p)]
      BY <1>1, <2>1 DEF JudgesOnce
    <2>3. outcome[p] = "none"
      BY <2>2 DEF ExchangeInv, Witnessed
    <2>4. \A r \in Phone : r # p => r = Other(p)
      BY DEF Phone, Other
    <2>5. outcome' = [outcome EXCEPT ![p] = judged'[p][2]]
      BY <2>2, <2>4
    <2>6. ASSUME clean', outcome[Other(p)] # "none"
          PROVE  judged'[p][2] = Opposite(outcome[Other(p)])
      <3>1. judged'[Other(p)][2] # "none" /\ judged'[p][2] # "none"
        BY <2>2, <2>6, OtherPhone
      <3>2. \A r \in Phone : judged'[r][2] # "none" => endDuel'[r]
        BY DEF ExchangeInv, Witnessed
      <3>3. Settled'
        BY <2>4, <3>1, <3>2, OtherPhone DEF Settled, Phone
      <3>4. judged'[0][2] = Opposite(judged'[1][2])
        BY <2>6, <3>3 DEF Agreement
      <3>5. \A a, b \in Result : a = Opposite(b) => b = Opposite(a)
        BY DEF Result, Opposite
      <3>6. judged'[p][2] = Opposite(judged'[Other(p)][2])
        BY <1>2, <3>4, <3>5 DEF Phone, Other
      <3> QED BY <2>2, <3>6, OtherPhone
    <2>7. Contract!Settle(p)
      <3> USE DEF Contract!Phone, Contract!Other, Contract!Result, Contract!Opposite
      <3>1. Other(p) \in Phone /\ Contract!Other(p) = Other(p) /\ Contract!Result = Result
        BY OtherPhone DEF Other, Result
      <3>2. clean' /\ outcome[Contract!Other(p)] # "none"
              => judged'[p][2] = Contract!Opposite(outcome[Contract!Other(p)])
        BY <2>6, <3>1 DEF Opposite
      <3> QED BY <1>3, <2>2, <2>3, <2>5, <3>1, <3>2 DEF Contract!Settle
    <2> QED BY <2>7 DEF Contract!Next, Contract!Phone, Phone
  <1> QED BY <1>4, <1>5

(***************************************************************************)
(* DuelRound implements RoundContract for every fire time, limit, level and*)
(* speed of the network.                                                   *)
(***************************************************************************)
THEOREM KeepsContractHolds == Spec => KeepsContract
  <1>1. Init => Contract!Init
    BY DEF Init, Contract!Init, OneTime, Phone, Contract!Phone
  <1>2. Agreement' /\ TypeOK /\ ExchangeInv /\ (TypeOK /\ ExchangeInv)' /\ [Next]_vars
          => [Contract!Next]_Contract!vars
    BY StepKeepsContract
  <1> QED BY <1>1, <1>2, AgreementHolds, ExchangeInvariant, PTL DEF Spec, KeepsContract, Contract!Spec

-----------------------------------------------------------------------------
(***************************************************************************)
(* The readiness handshake starts each clock at most once.                 *)
(***************************************************************************)

\* A gun that has not started is still as it was dealt, one that runs still runs.
Keeps(f, g) == (Unstarted(g) => Unstarted(f)) /\ (Runs(g) => Runs(f))

\* What the sensor changes.
LEMMA ReadingKeeps ==
  ASSUME NEW g \in Gun, NEW b \in BOOLEAN
  PROVE  LET f == Reading(g, b) IN
         /\ Keeps(f, g) /\ f \in Gun
         /\ f.running <=> g.running
         /\ f.start <=> g.start
  <1> DEFINE f == Reading(g, b)
  <1>1. /\ f.start = g.start /\ f.running = g.running /\ f.follViewShow = g.follViewShow
        /\ f.aiming = g.aiming /\ f.maxShots = g.maxShots /\ f.shots = g.shots
        /\ f.bullets = g.bullets /\ f.lowered = b
        /\ f.trigger = IF g.start THEN ~b ELSE g.trigger
    BY DEF Reading, Gun
  <1>2. f \in Gun
    BY ReadingType
  <1> HIDE DEF f
  <1>3. Unstarted(g) => Unstarted(f)
    BY <1>1 DEF Unstarted
  <1>4. Runs(g) => Runs(f)
    BY <1>1 DEF Runs
  <1> QED BY <1>1, <1>2, <1>3, <1>4 DEF Keeps, f

\* A gun that differs in the fields a foul, a kill or the end of the exchange sets.
LEMMA FieldsKeep ==
  ASSUME NEW f, NEW g,
         f.start <=> g.start, f.running <=> g.running, f.follViewShow <=> g.follViewShow,
         f.aiming => g.aiming, f.maxShots = g.maxShots,
         f.shots + f.bullets = g.shots + g.bullets, f.lowered <=> g.lowered, f.trigger => g.trigger
  PROVE  Keeps(f, g)
  BY DEF Keeps, Unstarted, Runs

\* Stopping the clock and its ticks start nothing.
LEMMA ClockKeeps ==
  ASSUME NEW g \in Gun
  PROVE  /\ Keeps(Stopped(g), g)
         /\ \A p \in Phone : gun[p] = g => Keeps(Ticked(p), g)
  <1>1. Keeps(Stopped(g), g)
    BY FieldsKeep DEF Stopped, Gun
  <1>2. ASSUME NEW p \in Phone, gun[p] = g PROVE Keeps(Ticked(p), g)
    <2> DEFINE c == [g EXCEPT !.clock = @ + 1]
               f == [c EXCEPT !.start = TRUE]
    <2>1. Keeps(c, g)
      BY FieldsKeep DEF Gun
    <2>2. c \in Gun
      BY GunFields DEF Gun
    <2> HIDE DEF c
    <2>3. /\ f.start /\ f.running = c.running /\ f.follViewShow = c.follViewShow
          /\ f.aiming = c.aiming /\ f.maxShots = c.maxShots /\ f.shots = c.shots
          /\ f.bullets = c.bullets /\ f.lowered = c.lowered /\ f.trigger = c.trigger
      BY <2>2 DEF Gun
    <2> HIDE DEF f
    <2>4. Keeps(f, c)
      BY <2>3 DEF Keeps, Unstarted, Runs
    <2>5. Ticked(p) = c \/ Ticked(p) = f
      BY <1>2 DEF Ticked, c, f
    <2> QED BY <2>1, <2>4, <2>5 DEF Keeps
  <1> QED BY <1>1, <1>2

\* A shot changes neither whether the duel runs nor, before it starts, how many bullets
\* are dealt for how many shots.
LEMMA ShootKeeps ==
  ASSUME NEW g \in Gun, NEW now \in Nat
  PROVE  Keeps(Shoot(g, now), g) /\ (Shoot(g, now).start <=> g.start)
  <1> DEFINE a == [g EXCEPT !.bullets = @ - 1, !.shots = @ + 1]
             b == [a EXCEPT !.follViewShow = TRUE, !.clock = now, !.delayed = @ + 1,
                            !.timer = FALSE, !.follChecked = TRUE, !.touch = FALSE]
  <1>1. g.bullets \in Nat /\ g.shots \in Int /\ g.maxShots \in Nat
    BY GunFields
  <1>2. /\ a.start = g.start /\ a.running = g.running /\ a.follViewShow = g.follViewShow
        /\ a.aiming = g.aiming /\ a.maxShots = g.maxShots /\ a.lowered = g.lowered
        /\ a.trigger = g.trigger
    BY DEF Gun
  <1>3. a.shots = g.shots + 1 /\ a.bullets = g.bullets - 1
    BY DEF Gun
  <1>4. b.start = g.start /\ b.running = g.running /\ b.trigger = g.trigger
    BY DEF Gun
  <1>5. Shoot(g, now) = IF g.bullets = 0 THEN g ELSE IF a.bullets <= 0 /\ a.shots < a.maxShots THEN b ELSE a
    BY DEF Shoot
  <1> HIDE DEF a, b
  <1>6. a.shots + a.bullets = g.shots + g.bullets
    BY <1>1, <1>3
  <1>7. Keeps(a, g)
    BY <1>2, <1>6, FieldsKeep
  <1>8. Runs(g) => Runs(b)
    BY <1>4 DEF Runs
  <1>9. Unstarted(g) => ~(a.bullets <= 0 /\ a.shots < a.maxShots)
    BY <1>1, <1>2, <1>3 DEF Unstarted
  <1>10. Keeps(Shoot(g, now), g)
    BY <1>5, <1>7, <1>8, <1>9 DEF Keeps
  <1> QED BY <1>2, <1>4, <1>5, <1>10

\* What may be in a queue after a packet is put on or taken off.
LEMMA QueueTurns ==
  ASSUME NEW q \in Seq(Packet)
  PROVE  /\ \A m \in Packet : \A ids : NoneOf(ids, q) /\ m.id \notin ids => NoneOf(ids, Append(q, m))
         /\ \A m \in Packet :
              /\ InTurn(q) /\ m.id = "SEND_SHOT_TIME" => InTurn(Append(q, m))
              /\ InTurn(q) /\ m.id # "START_DUEL_TRUE" /\ NoneOf({"ACCEL_STATE_TRUE"}, q)
                   => InTurn(Append(q, m))
         /\ q # << >> =>
              /\ \A ids : NoneOf(ids, q) => NoneOf(ids, Tail(q)) /\ Head(q).id \notin ids
              /\ InTurn(q) => InTurn(Tail(q)) /\ NoneOf({"START_DUEL_TRUE"}, Tail(q))
              /\ InTurn(q) /\ Head(q).id = "ACCEL_STATE_TRUE" => NoneOf(Handshake, Tail(q))
  <1>1. ASSUME NEW m \in Packet
        PROVE  /\ DOMAIN Append(q, m) = 1 .. Len(q) + 1 /\ DOMAIN q = 1 .. Len(q) /\ Len(q) \in Nat
               /\ Append(q, m)[Len(q) + 1] = m /\ \A i \in DOMAIN q : Append(q, m)[i] = q[i]
    OBVIOUS
  <1>2. ASSUME NEW m \in Packet, NEW ids, NoneOf(ids, q), m.id \notin ids
        PROVE  NoneOf(ids, Append(q, m))
    BY <1>1, <1>2 DEF NoneOf
  <1>3. ASSUME NEW m \in Packet, InTurn(q), m.id # "START_DUEL_TRUE",
               m.id = "SEND_SHOT_TIME" \/ NoneOf({"ACCEL_STATE_TRUE"}, q)
        PROVE  InTurn(Append(q, m))
    <2> DEFINE w == Append(q, m)
    <2>1. ASSUME NEW i \in DOMAIN w, w[i].id = "START_DUEL_TRUE" PROVE i = 1
      BY <1>1, <1>3, <2>1 DEF InTurn
    <2>2. ASSUME NEW i \in DOMAIN w, w[i].id = "ACCEL_STATE_TRUE", NEW k \in DOMAIN w, k > i
          PROVE  w[k].id = "SEND_SHOT_TIME"
      <3>1. i \in DOMAIN q /\ w[i] = q[i]
        BY <1>1, <2>2
      <3>2. m.id = "SEND_SHOT_TIME"
        BY <1>3, <2>2, <3>1 DEF NoneOf
      <3> QED BY <1>1, <1>3, <2>2, <3>1, <3>2 DEF InTurn
    <2> QED BY <2>1, <2>2 DEF InTurn
  <1>4. ASSUME q # << >>
        PROVE  /\ \A i \in DOMAIN Tail(q) : i \in Nat \ {0} /\ i + 1 \in DOMAIN q /\ Tail(q)[i] = q[i + 1]
               /\ 1 \in DOMAIN q /\ Head(q) = q[1]
    BY <1>4
  <1>5. ASSUME q # << >>, NEW ids, NoneOf(ids, q)
        PROVE  NoneOf(ids, Tail(q)) /\ Head(q).id \notin ids
    BY <1>4, <1>5 DEF NoneOf
  <1>6. ASSUME q # << >>, InTurn(q)
        PROVE  InTurn(Tail(q)) /\ NoneOf({"START_DUEL_TRUE"}, Tail(q))
    <2>1. ASSUME NEW i \in DOMAIN Tail(q) PROVE Tail(q)[i].id # "START_DUEL_TRUE"
      BY <1>4, <1>6 DEF InTurn
    <2>2. ASSUME NEW i \in DOMAIN Tail(q), Tail(q)[i].id = "ACCEL_STATE_TRUE",
                 NEW k \in DOMAIN Tail(q), k > i
          PROVE  Tail(q)[k].id = "SEND_SHOT_TIME"
      <3>1. i + 1 \in DOMAIN q /\ k + 1 \in DOMAIN q /\ k + 1 > i + 1
        BY <1>4, <1>6, <2>2
      <3> QED BY <1>4, <1>6, <2>2, <3>1 DEF InTurn
    <2> QED BY <2>1, <2>2 DEF InTurn, NoneOf
  <1>7. ASSUME q # << >>, InTurn(q), Head(q).id = "ACCEL_STATE_TRUE"
        PROVE  NoneOf(Handshake, Tail(q))
    <2>1. ASSUME NEW i \in DOMAIN Tail(q) PROVE Tail(q)[i].id = "SEND_SHOT_TIME"
      <3>1. i + 1 \in DOMAIN q /\ i + 1 > 1 /\ Tail(q)[i] = q[i + 1] /\ 1 \in DOMAIN q /\ q[1].id = "ACCEL_STATE_TRUE"
        BY <1>4, <1>7
      <3> QED BY <1>7, <3>1 DEF InTurn
    <2> QED BY <2>1 DEF NoneOf, Handshake
  <1> QED BY <1>2, <1>3, <1>5, <1>6, <1>7

\* A step of one phone that starts no clock, sends nothing but a time and makes nobody
\* ready keeps the handshake.
LEMMA QuietKeepsHandshake ==
  ASSUME TypeOK, HandshakeInv, NEW p \in Phone,
         starts' = starts, gun'[Other(p)] = gun[Other(p)],
         accelState'[Other(p)] <=> accelState[Other(p)], accelState'[p] => accelState[p],
         Keeps(gun'[p], gun[p]),
         net'[p] = net[p] \/ (net[p] # << >> /\ net'[p] = Tail(net[p])),
         \/ net'[Other(p)] = net[Other(p)]
         \/ \E t \in Int : net'[Other(p)] = Append(net[Other(p)], ShotTime(t))
  PROVE  HandshakeInv'
  <1> DEFINE o == Other(p)
  <1>1. o \in Phone /\ Other(o) = p /\ \A r \in Phone : r = p \/ r = o
    BY DEF Phone, Other
  <1>2. net[p] \in Seq(Packet) /\ net[o] \in Seq(Packet)
    BY <1>1 DEF TypeOK
  <1>3. \A t \in Int : ShotTime(t) \in Packet /\ ShotTime(t).id = "SEND_SHOT_TIME"
    BY PacketTypes DEF ShotTime
  <1>4. ASSUME NEW r \in Phone
        PROVE  /\ \A ids : NoneOf(ids, net[r]) /\ "SEND_SHOT_TIME" \notin ids => NoneOf(ids, net'[r])
               /\ InTurn(net[r]) => InTurn(net'[r])
    <2>1. CASE r = p
      <3>1. CASE net'[p] = net[p]
        BY <2>1, <3>1
      <3>2. CASE net[p] # << >> /\ net'[p] = Tail(net[p])
        BY <1>2, <2>1, <3>2, QueueTurns
      <3> QED BY <3>1, <3>2
    <2>2. CASE r = o
      <3>1. CASE net'[o] = net[o]
        BY <2>2, <3>1
      <3>2. ASSUME NEW t \in Int, net'[o] = Append(net[o], ShotTime(t))
            PROVE  /\ \A ids : NoneOf(ids, net[o]) /\ "SEND_SHOT_TIME" \notin ids => NoneOf(ids, net'[o])
                   /\ InTurn(net[o]) => InTurn(net'[o])
        <4> DEFINE m == ShotTime(t)
        <4>1. m \in Packet /\ m.id = "SEND_SHOT_TIME"
          BY <1>3
        <4> HIDE DEF m
        <4> QED BY <1>2, <3>2, <4>1, QueueTurns DEF m
      <3> QED BY <2>2, <3>1, <3>2
    <2> QED BY <1>1, <2>1, <2>2
  <1>5. ASSUME NEW r \in Phone PROVE Keeps(gun'[r], gun[r])
    BY <1>1 DEF Keeps
  <1>6. ASSUME NEW r \in Phone, ForGood(r) PROVE ForGood(r)'
    <2>1. accelState'[r] => accelState[r]
      BY <1>1
    <2>2. NoneOf({"START_DUEL_TRUE"}, net'[r])
      BY <1>4, <1>6 DEF ForGood
    <2> QED BY <1>5, <1>6, <2>1, <2>2 DEF ForGood, Keeps
  <1>7. ASSUME NEW r \in Phone
        PROVE  /\ \/ starts'[r] = 0 /\ Unstarted(gun'[r])
                  \/ ForGood(r)'
                  \/ starts'[r] = 1 /\ ForGood(Other(r))' /\ NoneOf(Handshake, net'[r])
               /\ InTurn(net'[r])
               /\ ForGood(Other(r))' \/ NoneOf({"ACCEL_STATE_TRUE"}, net'[r])
    <2>1. Other(r) \in Phone
      BY OtherPhone
    <2>2. CASE starts[r] = 0 /\ Unstarted(gun[r])
      BY <1>4, <1>5, <1>6, <2>1, <2>2 DEF HandshakeInv, Keeps
    <2>3. CASE ForGood(r)
      BY <1>4, <1>6, <2>1, <2>3 DEF HandshakeInv
    <2>4. CASE starts[r] = 1 /\ ForGood(Other(r)) /\ NoneOf(Handshake, net[r])
      <3>1. NoneOf(Handshake, net'[r])
        BY <1>4, <2>4 DEF Handshake
      <3> QED BY <1>4, <1>6, <2>1, <2>4, <3>1 DEF HandshakeInv
    <2> QED BY <2>2, <2>3, <2>4 DEF HandshakeInv
  <1> QED BY <1>7 DEF HandshakeInv

\* Sending one's time is such a step.
LEMMA SendKeepsHandshake ==
  ASSUME TypeOK, HandshakeInv, NEW p \in Phone, NEW s \in Int, NEW g \in Gun,
         SendShotTime(p, s, g), Keeps(g, gun[p]), starts' = starts,
         accelState'[Other(p)] <=> accelState[Other(p)], accelState'[p] => accelState[p]
  PROVE  HandshakeInv'
  <1> DEFINE o == Other(p)
  <1>1. o \in Phone /\ o # p
    BY OtherPhone
  <1>2. Reported(s) \in Int
    BY DEF Reported
  <1>3. gun' = [gun EXCEPT ![p] = g] \/ gun' = [gun EXCEPT ![p] = Stopped(g)]
    BY DEF SendShotTime, EndExchange
  <1>4. net' = net \/ net' = [net EXCEPT ![o] = Append(@, ShotTime(Reported(s)))]
    BY DEF SendShotTime
  <1>5. gun \in [Phone -> Gun] /\ net \in [Phone -> Seq(Packet)]
    BY DEF TypeOK
  <1>6. Keeps(Stopped(g), g)
    BY ClockKeeps
  <1>7. gun'[o] = gun[o] /\ Keeps(gun'[p], gun[p])
    BY <1>1, <1>3, <1>5, <1>6 DEF Keeps
  <1>8. net'[p] = net[p] /\ (net'[o] = net[o] \/ net'[o] = Append(net[o], ShotTime(Reported(s))))
    BY <1>1, <1>4, <1>5
  <1> QED BY <1>2, <1>7, <1>8, QuietKeepsHandshake

\* The player's moves keep the handshake.
LEMMA PlayerKeepsHandshake ==
  ASSUME TypeOK, HandshakeInv, NEW p \in Phone, Player(p)
  PROVE  HandshakeInv'
  <1> DEFINE o == Other(p)
             g == gun[p]
  <1>1. o \in Phone /\ o # p /\ Other(o) = p /\ \A r \in Phone : r = p \/ r = o
    BY DEF Phone, Other
  <1>2. /\ gun \in [Phone -> Gun] /\ net \in [Phone -> Seq(Packet)]
        /\ accelState \in [Phone -> BOOLEAN] /\ g \in Gun
    BY DEF TypeOK
  <1>3. g.clock \in Nat /\ \A now \in Now(p) : now \in Nat
    BY <1>2, GunFields DEF Now
  <1>4. CASE LowerGun(p)
    <2> DEFINE f == Reading(g, TRUE)
               h == [f EXCEPT !.readySent = TRUE]
               m == Signal("ACCEL_STATE")
    <2>1. Keeps(f, g) /\ f \in Gun /\ (f.running <=> g.running)
      BY <1>2, ReadingKeeps
    <2>2. Keeps(h, f)
      <3>1. /\ h.start = f.start /\ h.running = f.running /\ h.follViewShow = f.follViewShow
            /\ h.aiming = f.aiming /\ h.maxShots = f.maxShots /\ h.shots = f.shots
            /\ h.bullets = f.bullets /\ h.lowered = f.lowered /\ h.trigger = f.trigger
        BY <2>1 DEF Gun
      <3> HIDE DEF f, h
      <3> QED BY <3>1, FieldsKeep
    <2>3. m \in Packet /\ m.id = "ACCEL_STATE"
      BY PacketTypes DEF PacketID, Signal
    <2>4. \/ /\ ~f.running
             /\ gun' = [gun EXCEPT ![p] = h] /\ accelState' = [accelState EXCEPT ![p] = TRUE]
             /\ net' = [net EXCEPT ![o] = Append(@, m)]
          \/ /\ gun' = [gun EXCEPT ![p] = f] /\ accelState' = accelState /\ net' = net
      BY <1>4 DEF LowerGun
    <2>5. starts' = starts
      BY <1>4 DEF LowerGun
    <2> HIDE DEF f, h, m
    <2>6. CASE gun' = [gun EXCEPT ![p] = f] /\ accelState' = accelState /\ net' = net
      <3>1. gun'[o] = gun[o] /\ gun'[p] = f
        BY <1>1, <1>2, <2>6
      <3> QED BY <2>1, <2>5, <2>6, <3>1, QuietKeepsHandshake
    <2>7. CASE /\ ~f.running
               /\ gun' = [gun EXCEPT ![p] = h] /\ accelState' = [accelState EXCEPT ![p] = TRUE]
               /\ net' = [net EXCEPT ![o] = Append(@, m)]
      <3>1. /\ gun'[o] = gun[o] /\ gun'[p] = h /\ (accelState'[o] <=> accelState[o])
            /\ net'[p] = net[p] /\ net'[o] = Append(net[o], m)
        BY <1>1, <1>2, <2>7
      <3>2. ~ForGood(p)
        BY <2>1, <2>7 DEF ForGood, Runs
      <3>3. NoneOf({"ACCEL_STATE_TRUE"}, net[o])
        BY <1>1, <3>2 DEF HandshakeInv
      <3>4. net[o] \in Seq(Packet)
        BY <1>1, <1>2
      <3>5. /\ NoneOf({"ACCEL_STATE_TRUE"}, net'[o])
            /\ NoneOf({"START_DUEL_TRUE"}, net[o]) => NoneOf({"START_DUEL_TRUE"}, net'[o])
        BY <2>3, <3>1, <3>3, <3>4, QueueTurns
      <3>6. InTurn(net'[o])
        BY <1>1, <2>3, <3>1, <3>3, <3>4, QueueTurns DEF HandshakeInv
      <3>7. ForGood(o) => ForGood(o)'
        BY <2>5, <3>1, <3>5 DEF ForGood
      <3>8. Unstarted(g) => Unstarted(h)
        BY <2>1, <2>2 DEF Keeps
      <3>9. (starts[o] = 0 /\ Unstarted(gun[o])) \/ ForGood(o)
        BY <1>1, <3>2 DEF HandshakeInv
      <3>10. /\ \/ starts[p] = 0 /\ Unstarted(g)
                \/ starts[p] = 1 /\ ForGood(o) /\ NoneOf(Handshake, net[p])
             /\ InTurn(net[p]) /\ (ForGood(o) \/ NoneOf({"ACCEL_STATE_TRUE"}, net[p]))
        BY <1>1, <3>2 DEF HandshakeInv
      <3>11. /\ \/ starts'[p] = 0 /\ Unstarted(gun'[p])
                \/ starts'[p] = 1 /\ ForGood(o)' /\ NoneOf(Handshake, net'[p])
             /\ InTurn(net'[p]) /\ (ForGood(o)' \/ NoneOf({"ACCEL_STATE_TRUE"}, net'[p]))
        BY <2>5, <3>1, <3>7, <3>8, <3>10
      <3>12. (starts'[o] = 0 /\ Unstarted(gun'[o])) \/ ForGood(o)'
        BY <2>5, <3>1, <3>7, <3>9
      <3> QED BY <1>1, <3>5, <3>6, <3>11, <3>12 DEF HandshakeInv
    <2> QED BY <2>4, <2>6, <2>7
  <1>5. CASE RaiseGun(p)
    <2>1. /\ gun' = [gun EXCEPT ![p] = Reading(g, FALSE)]
          /\ accelState' = [accelState EXCEPT ![p] = FALSE]
          /\ starts' = starts /\ net' = net
      BY <1>5 DEF RaiseGun
    <2>2. gun'[p] = Reading(g, FALSE) /\ gun'[o] = gun[o] /\ accelState'[p] = FALSE /\ (accelState'[o] <=> accelState[o])
      BY <1>1, <1>2, <2>1
    <2>3. Keeps(gun'[p], gun[p])
      <3>1. Keeps(Reading(g, FALSE), g)
        BY <1>2, ReadingKeeps
      <3> QED BY <2>2, <3>1
    <2> QED BY <2>1, <2>2, <2>3, QuietKeepsHandshake
  <1>6. CASE RaiseTooEarly(p)
    <2> DEFINE f == Reading(g, FALSE)
               h == [f EXCEPT !.follChecked = TRUE, !.timer = FALSE, !.foll = TRUE, !.touch = FALSE]
    <2>1. Keeps(f, g) /\ f \in Gun /\ f.clock \in Nat
      BY <1>2, ReadingKeeps, ReadingType, GunFields
    <2>2. /\ accelState' = [accelState EXCEPT ![p] = FALSE] /\ starts' = starts
          /\ SendShotTime(p, -f.clock, h)
      BY <1>6 DEF RaiseTooEarly
    <2> HIDE DEF f
    <2>3. h \in Gun
      BY <2>1 DEF Gun
    <2>4. Keeps(h, f)
      <3>1. /\ h.start = f.start /\ h.running = f.running /\ h.follViewShow = f.follViewShow
            /\ h.aiming = f.aiming /\ h.maxShots = f.maxShots /\ h.shots = f.shots
            /\ h.bullets = f.bullets /\ h.lowered = f.lowered /\ h.trigger = f.trigger
        BY <2>1 DEF Gun
      <3> HIDE DEF h
      <3> QED BY <3>1, FieldsKeep
    <2>5. accelState'[p] = FALSE /\ (accelState'[o] <=> accelState[o]) /\ -f.clock \in Int
      BY <1>1, <1>2, <2>1, <2>2
    <2> HIDE DEF h
    <2>6. Keeps(h, gun[p])
      BY <2>1, <2>4 DEF Keeps
    <2> QED BY <2>2, <2>3, <2>5, <2>6, SendKeepsHandshake
  <1>7. CASE Trick(p)
    <2>1. /\ gun' = [gun EXCEPT ![p].maxShots = 1] /\ g.aiming
          /\ starts' = starts /\ net' = net /\ accelState' = accelState
      BY <1>7 DEF Trick
    <2>2. gun'[p] = [g EXCEPT !.maxShots = 1] /\ gun'[o] = gun[o]
      BY <1>1, <1>2, <2>1
    <2>3. Runs(g) => Runs(gun'[p])
      BY <1>2, <2>2 DEF Runs, Gun
    <2>4. ~Unstarted(g)
      BY <2>1 DEF Unstarted
    <2>5. Keeps(gun'[p], gun[p])
      BY <2>3, <2>4 DEF Keeps
    <2> QED BY <2>1, <2>2, <2>5, QuietKeepsHandshake
  <1>8. CASE Kill(p)
    <2>1. PICK now \in Now(p) : Kill(p)!(now)
      BY <1>8 DEF Kill
    <2> DEFINE f == Shoot(g, now)
               h == [f EXCEPT !.touch = FALSE, !.trigger = FALSE, !.aiming = FALSE, !.timer = FALSE]
    <2>2. Keeps(f, g) /\ f \in Gun
      BY <1>2, <1>3, ShootKeeps, ShootType
    <2>3. f.clock \in Nat
      BY <2>2, GunFields
    <2>4. SendShotTime(p, f.clock - FireTime, h) /\ accelState' = accelState /\ starts' = starts
      BY <2>1
    <2> HIDE DEF f
    <2>5. h \in Gun
      BY <2>2 DEF Gun
    <2>6. Keeps(h, f)
      BY <2>2, FieldsKeep DEF Gun
    <2> HIDE DEF h
    <2>7. Keeps(h, gun[p]) /\ f.clock - FireTime \in Int
      BY <2>2, <2>3, <2>6, RoundAssumption DEF Keeps
    <2> QED BY <2>4, <2>5, <2>7, SendKeepsHandshake
  <1>9. CASE ShootOn(p)
    <2>1. PICK now \in Now(p) : ShootOn(p)!(now)
      BY <1>9 DEF ShootOn
    <2>2. gun' = [gun EXCEPT ![p] = Shoot(g, now)] /\ accelState' = accelState /\ starts' = starts /\ net' = net
      BY <2>1
    <2>3. gun'[p] = Shoot(g, now) /\ gun'[o] = gun[o]
      BY <1>1, <1>2, <2>2
    <2>4. Keeps(gun'[p], gun[p])
      BY <1>2, <1>3, <2>3, ShootKeeps
    <2> QED BY <2>2, <2>3, <2>4, QuietKeepsHandshake
  <1>10. CASE ShootTooEarly(p)
    <2>1. PICK now \in Now(p) : ShootTooEarly(p)!(now)
      BY <1>10 DEF ShootTooEarly
    <2>2. CanShoot(p) /\ ~Shoot(g, now).start
      BY <2>1
    <2>3. g.trigger /\ ~g.start
      BY <1>2, <1>3, <2>2, ShootKeeps DEF CanShoot
    <2>4. ~Unstarted(g) /\ ~Runs(g)
      BY <2>3 DEF Unstarted, Runs
    <2>5. accelState' = accelState /\ starts' = starts /\ net' = net
      BY <2>1
    <2>6. gun'[o] = gun[o]
      BY <1>1, <1>2, <2>1
    <2>7. Keeps(gun'[p], gun[p])
      BY <2>4 DEF Keeps
    <2> QED BY <2>5, <2>6, <2>7, QuietKeepsHandshake
  <1> QED BY <1>4, <1>5, <1>6, <1>7, <1>8, <1>9, <1>10 DEF Player

\* So do the timers.
LEMMA ClockKeepsHandshake ==
  ASSUME TypeOK, HandshakeInv, NEW p \in Phone, Clock(p)
  PROVE  HandshakeInv'
  <1> DEFINE o == Other(p)
             g == gun[p]
  <1>1. o \in Phone /\ o # p
    BY OtherPhone
  <1>2. /\ gun \in [Phone -> Gun] /\ net \in [Phone -> Seq(Packet)]
        /\ accelState \in [Phone -> BOOLEAN] /\ g \in Gun
    BY DEF TypeOK
  <1>3. Keeps(Ticked(p), g)
    BY <1>2, ClockKeeps
  <1>4. CASE Tick(p)
    <2>1. gun' = [gun EXCEPT ![p] = Ticked(p)] /\ starts' = starts /\ accelState' = accelState /\ net' = net
      BY <1>4 DEF Tick
    <2>2. gun'[o] = gun[o] /\ gun'[p] = Ticked(p)
      BY <1>1, <1>2, <2>1
    <2> QED BY <1>3, <2>1, <2>2, QuietKeepsHandshake
  <1>5. CASE DuelTimerEnd(p)
    <2>1. gun' = [gun EXCEPT ![p] = Stopped(Ticked(p))] /\ starts' = starts /\ accelState' = accelState /\ net' = net
      BY <1>5 DEF DuelTimerEnd
    <2>2. gun'[o] = gun[o] /\ gun'[p] = Stopped(Ticked(p))
      BY <1>1, <1>2, <2>1
    <2>3. Ticked(p) \in Gun
      BY TickedType
    <2>4. Keeps(gun'[p], gun[p])
      BY <1>3, <2>2, <2>3, ClockKeeps DEF Keeps
    <2> QED BY <2>1, <2>2, <2>4, QuietKeepsHandshake
  <1>6. CASE FollSend(p)
    <2> DEFINE h == [g EXCEPT !.delayed = @ - 1]
    <2>1. SendShotTime(p, -g.clock, h) /\ accelState' = accelState /\ starts' = starts /\ g.delayed > 0
      BY <1>6 DEF FollSend
    <2>2. g.clock \in Nat /\ g.delayed \in Nat
      BY <1>2, GunFields
    <2>3. h \in Gun
      <3>1. g.delayed - 1 \in Nat
        BY <2>1, <2>2
      <3> HIDE DEF g
      <3> QED BY <1>2, <3>1, Zenon DEF Gun
    <2>4. Keeps(h, g)
      <3>1. /\ h.start = g.start /\ h.running = g.running /\ h.follViewShow = g.follViewShow
            /\ h.aiming = g.aiming /\ h.maxShots = g.maxShots /\ h.lowered = g.lowered
            /\ h.trigger = g.trigger /\ h.shots = g.shots /\ h.bullets = g.bullets
        BY <1>2 DEF Gun
      <3> HIDE DEF h, g
      <3> QED BY <3>1 DEF Keeps, Unstarted, Runs
    <2>5. -g.clock \in Int
      BY <2>2
    <2> HIDE DEF h
    <2> QED BY <2>1, <2>3, <2>4, <2>5, SendKeepsHandshake
  <1>7. CASE DidDisappear(p)
    <2>1. gun' = gun /\ starts' = starts /\ accelState' = accelState /\ net' = net
      BY <1>7 DEF DidDisappear
    <2>2. Keeps(gun'[p], gun[p])
      BY <2>1 DEF Keeps
    <2> QED BY <2>1, <2>2, QuietKeepsHandshake
  <1> QED BY <1>4, <1>5, <1>6, <1>7 DEF Clock

\* A gun that starts runs, and while it is lowered it cannot be fired.
LEMMA StartedRuns ==
  ASSUME NEW g \in Gun, Unstarted(g)
  PROVE  /\ Started(g).running /\ ~Started(g).start
         /\ Started(g).trigger <=> g.trigger
  <1> DEFINE h == [g EXCEPT !.running = TRUE, !.timer = TRUE, !.start = FALSE,
                            !.aiming = TRUE, !.clock = 0]
  <1>1. Started(g) = h
    BY DEF Started, Unstarted
  <1>2. h.running = TRUE /\ h.start = FALSE /\ h.trigger = g.trigger
    BY DEF Gun
  <1> QED BY <1>1, <1>2

\* A gun as it is dealt has not started.
LEMMA NewGunUnstarted == Unstarted(NewGun)
  BY RoundAssumption DEF Unstarted, NewGun

\* Taking the head of one's queue.
LEMMA TakesHead ==
  ASSUME TypeOK, HandshakeInv, NEW p \in Phone, net[p] # << >>
  PROVE  /\ InTurn(Tail(net[p])) /\ NoneOf({"START_DUEL_TRUE"}, Tail(net[p]))
         /\ \A ids : NoneOf(ids, net[p]) => NoneOf(ids, Tail(net[p]))
         /\ 1 \in DOMAIN net[p] /\ net[p][1] = Head(net[p])
         /\ Head(net[p]).id = "ACCEL_STATE_TRUE" => NoneOf(Handshake, Tail(net[p]))
  <1>1. net[p] \in Seq(Packet) /\ InTurn(net[p])
    BY DEF TypeOK, HandshakeInv
  <1>2. 1 \in DOMAIN net[p] /\ net[p][1] = Head(net[p])
    BY <1>1
  <1> QED BY <1>1, <1>2, QueueTurns

\* START_DUEL_TRUE opens the duel screen of a phone that has not started.
LEMMA StartDuelTrueKeepsHandshake ==
  ASSUME TypeOK, HandshakeInv, NEW p \in Phone, ReceiveStartDuelTrue(p)
  PROVE  HandshakeInv'
  <1> DEFINE o == Other(p)
             q == net[p]
  <1>1. o \in Phone /\ o # p /\ Other(o) = p /\ \A r \in Phone : r = p \/ r = o
    BY DEF Phone, Other
  <1>2. /\ gun \in [Phone -> Gun] /\ net \in [Phone -> Seq(Packet)] /\ accelState \in [Phone -> BOOLEAN]
    BY DEF TypeOK
  <1>3. /\ q # << >> /\ Head(q).id = "START_DUEL_TRUE" /\ starts' = starts
        /\ net' = [net EXCEPT ![p] = Tail(q)] /\ accelState' = [accelState EXCEPT ![p] = TRUE]
        /\ gun' = gun \/ gun' = [gun EXCEPT ![p] = NewGun]
    BY DEF ReceiveStartDuelTrue, Receives, Consume
  <1>4. /\ net'[p] = Tail(q) /\ net'[o] = net[o] /\ gun'[o] = gun[o] /\ (accelState'[o] <=> accelState[o])
        /\ gun'[p] = gun[p] \/ gun'[p] = NewGun
    BY <1>1, <1>2, <1>3
  <1>5. /\ ~NoneOf({"START_DUEL_TRUE"}, q) /\ ~NoneOf(Handshake, q)
        /\ InTurn(Tail(q)) /\ \A ids : NoneOf(ids, q) => NoneOf(ids, Tail(q))
    <2>1. 1 \in DOMAIN q /\ q[1].id = "START_DUEL_TRUE"
      BY <1>3, TakesHead
    <2>2. ~NoneOf({"START_DUEL_TRUE"}, q) /\ ~NoneOf(Handshake, q)
      BY <2>1 DEF NoneOf, Handshake
    <2> QED BY <1>3, <2>2, TakesHead
  <1>6. /\ starts[p] = 0 /\ Unstarted(gun[p]) /\ ~ForGood(p)
        /\ ForGood(o) \/ NoneOf({"ACCEL_STATE_TRUE"}, q)
    BY <1>5 DEF HandshakeInv, ForGood
  <1>7. /\ (starts[o] = 0 /\ Unstarted(gun[o])) \/ ForGood(o)
        /\ InTurn(net[o]) /\ NoneOf({"ACCEL_STATE_TRUE"}, net[o])
    BY <1>1, <1>6 DEF HandshakeInv
  <1>8. ForGood(o) => ForGood(o)'
    BY <1>3, <1>4 DEF ForGood
  <1>9. /\ starts'[p] = 0 /\ Unstarted(gun'[p]) /\ InTurn(net'[p])
        /\ ForGood(o)' \/ NoneOf({"ACCEL_STATE_TRUE"}, net'[p])
    <2>1. starts'[p] = 0 /\ Unstarted(gun'[p])
      BY <1>3, <1>4, <1>6, NewGunUnstarted
    <2>2. InTurn(net'[p]) /\ (ForGood(o)' \/ NoneOf({"ACCEL_STATE_TRUE"}, net'[p]))
      BY <1>4, <1>5, <1>6, <1>8, Zenon
    <2> QED BY <2>1, <2>2
  <1>10. /\ (starts'[o] = 0 /\ Unstarted(gun'[o])) \/ ForGood(o)'
         /\ InTurn(net'[o]) /\ NoneOf({"ACCEL_STATE_TRUE"}, net'[o])
    BY <1>3, <1>4, <1>7, <1>8
  <1> QED BY <1>1, <1>9, <1>10 DEF HandshakeInv

\* ACCEL_STATE starts a lowered gun, which then runs for good.
LEMMA AccelStateKeepsHandshake ==
  ASSUME TypeOK, HandshakeInv, NEW p \in Phone, ReceiveAccelState(p)
  PROVE  HandshakeInv'
  <1> DEFINE o == Other(p)
             q == net[p]
             g == gun[p]
             m == Signal("ACCEL_STATE_TRUE")
  <1>1. o \in Phone /\ o # p /\ Other(o) = p /\ \A r \in Phone : r = p \/ r = o
    BY DEF Phone, Other
  <1>2. /\ gun \in [Phone -> Gun] /\ net \in [Phone -> Seq(Packet)] /\ accelState \in [Phone -> BOOLEAN]
        /\ starts \in [Phone -> Nat]
    BY DEF TypeOK
  <1>3. q # << >> /\ Head(q).id = "ACCEL_STATE"
    BY DEF ReceiveAccelState, Receives
  <1>4. CASE ~(g.lowered /\ accelState[p])
    <2>1. gun' = gun /\ starts' = starts /\ accelState' = accelState /\ net' = [net EXCEPT ![p] = Tail(q)]
      BY <1>4 DEF ReceiveAccelState, Consume
    <2>2. net'[p] = Tail(q) /\ net'[o] = net[o]
      BY <1>1, <1>2, <2>1
    <2>3. Keeps(gun'[p], gun[p])
      BY <2>1 DEF Keeps
    <2> QED BY <1>3, <2>1, <2>2, <2>3, QuietKeepsHandshake
  <1>5. CASE g.lowered /\ accelState[p]
    <2>1. /\ net' = [net EXCEPT ![p] = Tail(q), ![o] = Append(@, m)]
          /\ gun' = [gun EXCEPT ![p] = Started(g)] /\ accelState' = [accelState EXCEPT ![p] = FALSE]
          /\ starts' = [starts EXCEPT ![p] = IF g.follViewShow THEN @ ELSE @ + 1]
      BY <1>5 DEF ReceiveAccelState, ConsumeAndSend, StartGun
    <2>2. ~ForGood(p) /\ ~NoneOf(Handshake, q)
      <3>1. 1 \in DOMAIN q /\ q[1].id = "ACCEL_STATE"
        BY <1>3, TakesHead
      <3> QED BY <1>5, <3>1 DEF ForGood, NoneOf, Handshake
    <2>3. starts[p] = 0 /\ Unstarted(g) /\ (ForGood(o) \/ NoneOf({"ACCEL_STATE_TRUE"}, q))
      BY <2>2 DEF HandshakeInv
    <2>4. /\ (starts[o] = 0 /\ Unstarted(gun[o])) \/ ForGood(o)
          /\ InTurn(net[o]) /\ NoneOf({"ACCEL_STATE_TRUE"}, net[o])
      BY <1>1, <2>2 DEF HandshakeInv
    <2>5. ~g.follViewShow /\ ~g.trigger /\ g \in Gun
      BY <1>2, <1>5, <2>3 DEF Unstarted
    <2>6. m \in Packet /\ m.id = "ACCEL_STATE_TRUE"
      BY PacketTypes DEF PacketID, Signal
    <2> HIDE DEF m
    <2>7. /\ net'[p] = Tail(q) /\ net'[o] = Append(net[o], m) /\ gun'[o] = gun[o] /\ gun'[p] = Started(g)
          /\ (accelState'[o] <=> accelState[o]) /\ ~accelState'[p]
          /\ starts'[o] = starts[o] /\ starts'[p] = 1
      BY <1>1, <1>2, <2>1, <2>3, <2>5
    <2>8. InTurn(net'[p]) /\ NoneOf({"START_DUEL_TRUE"}, net'[p])
          /\ \A ids : NoneOf(ids, q) => NoneOf(ids, net'[p])
      BY <1>3, <2>7, TakesHead
    <2>9. Runs(gun'[p])
      BY <2>3, <2>5, <2>7, StartedRuns DEF Runs
    <2>10. ForGood(p)'
      BY <2>7, <2>8, <2>9 DEF ForGood
    <2>11. net[o] \in Seq(Packet)
      BY <1>1, <1>2
    <2>12. InTurn(net'[o]) /\ (NoneOf({"START_DUEL_TRUE"}, net[o]) => NoneOf({"START_DUEL_TRUE"}, net'[o]))
      BY <2>4, <2>6, <2>7, <2>11, QueueTurns
    <2>13. ForGood(o) => ForGood(o)'
      BY <2>7, <2>12 DEF ForGood
    <2>14. ForGood(o)' \/ NoneOf({"ACCEL_STATE_TRUE"}, net'[p])
      BY <2>3, <2>8, <2>13
    <2>15. (starts'[o] = 0 /\ Unstarted(gun'[o])) \/ ForGood(o)'
      BY <2>4, <2>7, <2>13
    <2> QED BY <1>1, <2>8, <2>10, <2>12, <2>14, <2>15 DEF HandshakeInv
  <1> QED BY <1>4, <1>5

\* ACCEL_STATE_TRUE starts a gun for good, or as the last of the handshake.
LEMMA AccelStateTrueKeepsHandshake ==
  ASSUME TypeOK, HandshakeInv, NEW p \in Phone, ReceiveAccelStateTrue(p)
  PROVE  HandshakeInv'
  <1> DEFINE o == Other(p)
             q == net[p]
             g == gun[p]
  <1>1. o \in Phone /\ o # p /\ Other(o) = p /\ \A r \in Phone : r = p \/ r = o
    BY DEF Phone, Other
  <1>2. /\ gun \in [Phone -> Gun] /\ net \in [Phone -> Seq(Packet)] /\ accelState \in [Phone -> BOOLEAN]
        /\ starts \in [Phone -> Nat]
    BY DEF TypeOK
  <1>3. /\ q # << >> /\ Head(q).id = "ACCEL_STATE_TRUE" /\ net' = [net EXCEPT ![p] = Tail(q)]
    BY DEF ReceiveAccelStateTrue, Receives, Consume
  <1>4. net'[p] = Tail(q) /\ net'[o] = net[o]
    BY <1>1, <1>2, <1>3
  <1>5. CASE ~accelState[p]
    <2>1. gun' = gun /\ starts' = starts /\ accelState' = accelState
      BY <1>5 DEF ReceiveAccelStateTrue
    <2>2. Keeps(gun'[p], gun[p])
      BY <2>1 DEF Keeps
    <2> QED BY <1>3, <1>4, <2>1, <2>2, QuietKeepsHandshake
  <1>6. CASE accelState[p]
    <2>1. /\ gun' = [gun EXCEPT ![p] = Started(g)] /\ accelState' = [accelState EXCEPT ![p] = FALSE]
          /\ starts' = [starts EXCEPT ![p] = IF g.follViewShow THEN @ ELSE @ + 1]
      BY <1>6 DEF ReceiveAccelStateTrue, StartGun
    <2>2. ~ForGood(p) /\ ~NoneOf(Handshake, q) /\ ~NoneOf({"ACCEL_STATE_TRUE"}, q)
      <3>1. 1 \in DOMAIN q /\ q[1].id = "ACCEL_STATE_TRUE"
        BY <1>3, TakesHead
      <3> QED BY <1>6, <3>1 DEF ForGood, NoneOf, Handshake
    <2>3. starts[p] = 0 /\ Unstarted(g) /\ ForGood(o)
      BY <2>2 DEF HandshakeInv
    <2>4. InTurn(net[o]) /\ NoneOf({"ACCEL_STATE_TRUE"}, net[o])
      BY <1>1, <2>2 DEF HandshakeInv
    <2>5. ~g.follViewShow /\ g \in Gun
      BY <1>2, <2>3 DEF Unstarted
    <2>6. /\ gun'[o] = gun[o] /\ gun'[p] = Started(g)
          /\ (accelState'[o] <=> accelState[o]) /\ ~accelState'[p]
          /\ starts'[o] = starts[o] /\ starts'[p] = 1
      BY <1>1, <1>2, <2>1, <2>3, <2>5
    <2>7. InTurn(net'[p]) /\ NoneOf(Handshake, net'[p])
      BY <1>3, <1>4, TakesHead
    <2>8. ForGood(o)'
      BY <1>4, <2>3, <2>6 DEF ForGood
    <2>9. InTurn(net'[o]) /\ NoneOf({"ACCEL_STATE_TRUE"}, net'[o])
      BY <1>4, <2>4
    <2> QED BY <1>1, <2>6, <2>7, <2>8, <2>9 DEF HandshakeInv
  <1> QED BY <1>5, <1>6

\* A shot time starts nothing.
LEMMA ShotTimeKeepsHandshake ==
  ASSUME TypeOK, HandshakeInv, NEW p \in Phone, ReceiveShotTime(p)
  PROVE  HandshakeInv'
  <1> DEFINE o == Other(p)
             q == net[p]
             g == gun[p]
             c == carShotTime[p]
  <1>1. o \in Phone /\ o # p
    BY OtherPhone
  <1>2. gun \in [Phone -> Gun] /\ net \in [Phone -> Seq(Packet)] /\ c \in Int
    BY DEF TypeOK
  <1>3. /\ q # << >> /\ starts' = starts /\ accelState' = accelState
        /\ gun' = gun \/ gun' = [gun EXCEPT ![p] = Stopped(g)]
        /\ \/ net' = [net EXCEPT ![p] = Tail(q)]
           \/ net' = [net EXCEPT ![p] = Tail(q), ![o] = Append(@, ShotTime(c))]
    BY DEF ReceiveShotTime, Receives, Consume, ConsumeAndSend, EndExchange
  <1>4. /\ net'[p] = Tail(q) /\ gun'[o] = gun[o] /\ (net'[o] = net[o] \/ net'[o] = Append(net[o], ShotTime(c)))
        /\ gun'[p] = g \/ gun'[p] = Stopped(g)
    BY <1>1, <1>2, <1>3
  <1>5. Keeps(gun'[p], g)
    BY <1>2, <1>4, ClockKeeps DEF Keeps
  <1> QED BY <1>2, <1>3, <1>4, <1>5, QuietKeepsHandshake

\* When a round opens nothing but START_DUEL_TRUE is under way, once to a phone.
LEMMA InitHandshake == Init => HandshakeInv
  <1> SUFFICES ASSUME Init, NEW p \in Phone
               PROVE  /\ starts[p] = 0 /\ Unstarted(gun[p])
                      /\ InTurn(net[p]) /\ NoneOf({"ACCEL_STATE_TRUE"}, net[p])
    BY DEF HandshakeInv
  <1>1. starts[p] = 0 /\ Unstarted(gun[p])
    BY NewGunUnstarted DEF Init
  <1>2. net[p] = << >> \/ net[p] = << Signal("START_DUEL_TRUE") >>
    BY DEF Init, OneWaits, BothShow
  <1>3. InTurn(<< >>) /\ NoneOf({"ACCEL_STATE_TRUE"}, << >>)
    BY DEF InTurn, NoneOf
  <1>4. InTurn(<< Signal("START_DUEL_TRUE") >>) /\ NoneOf({"ACCEL_STATE_TRUE"}, << Signal("START_DUEL_TRUE") >>)
    BY DEF InTurn, NoneOf, Signal
  <1> QED BY <1>1, <1>2, <1>3, <1>4

\* Every step keeps the handshake.
LEMMA StepHandshake == TypeOK /\ HandshakeInv /\ [Next]_vars => HandshakeInv'
  <1> SUFFICES ASSUME TypeOK, HandshakeInv, [Next]_vars PROVE HandshakeInv'
    OBVIOUS
  <1>1. CASE UNCHANGED vars
    BY <1>1 DEF vars, HandshakeInv, ForGood
  <1>2. ASSUME NEW p \in Phone, Player(p) \/ Clock(p) \/ Receive(p) PROVE HandshakeInv'
    BY <1>2, PlayerKeepsHandshake, ClockKeepsHandshake, StartDuelTrueKeepsHandshake,
       AccelStateKeepsHandshake, AccelStateTrueKeepsHandshake, ShotTimeKeepsHandshake DEF Receive
  <1> QED BY <1>1, <1>2 DEF Next

\* The handshake's clocks, however often arms go up and down and whatever crosses on the
\* way: a gun that has not started is as it was dealt, one started lowered runs for good,
\* one started raised was the last (receiveData's ACCEL_STATE and ACCEL_STATE_TRUE).
THEOREM HandshakeInvariant == Spec => []HandshakeInv
  BY InitTypes, StepTypes, InitHandshake, StepHandshake, PTL DEF Spec

\* A phone's clock starts at most once in a round: no second start wipes a foul or a
\* running clock (startDuel of DuelViewController), for any fire time, limit, magazine,
\* delay and number of packets under way.
THEOREM StartOnceHolds == Spec => []StartOnce
  <1>1. HandshakeInv => StartOnce
    BY DEF HandshakeInv, StartOnce, ForGood
  <1> QED BY <1>1, HandshakeInvariant, PTL

-----------------------------------------------------------------------------
(***************************************************************************)
(* The round is scored once, for one winner, however long packets are under*)
(* way, as long as nobody fires before the clock starts.  The 30 second    *)
(* limit scores only for a phone that has reported nothing and knows of no *)
(* foul: it scores nothing, or a defeat by an opponent who hit.  Who hit   *)
(* reports nothing else, so no foul can reach the phone any more and undo  *)
(* the defeat; and who ran out of time reports nothing later.              *)
(***************************************************************************)

\* A gun that still owes a report, or has made one, is silent and its clock stands;
\* who reported a hit owes nothing and reported no foul.
Reporting(p) ==
  /\ gun[p].delayed > 0 => starts[p] = 1 /\ ~gun[p].timer /\ ~gun[p].touch
  /\ reports[p] # {} => ~gun[p].timer /\ ~gun[p].touch
  /\ \A a \in reports[p] : a > 0 => gun[p].start /\ gun[p].delayed = 0 /\ a <= Limit
  /\ \A a, b \in reports[p] : a > 0 => b > 0

\* A clock that goes was started, without a foul, and has not passed the limit.
Clocked(p) ==
  /\ gun[p].clock <= Limit + 1
  /\ starts[p] = 0 => ~gun[p].foll
  /\ gun[p].timer => starts[p] = 1 /\ gun[p].running /\ ~gun[p].foll /\ gun[p].clock <= Limit

\* Permission for the duel is the next packet p takes.
Waits(p) == net[p] # << >> /\ Head(net[p]).id = "START_DUEL_TRUE"

Shown(p) ==
  /\ screen[p] = "wait" => Waits(p)
  /\ screen[p] \in {"leaving", "final"} => gun[p].timerEnd
  /\ Waits(p) => screen[p] # "leaving"

\* The three states of p's score: nothing yet; after the time limit; after the judgement.
Unscored(p) == ~endDuel[p] /\ ~gun[p].timerEnd /\ tally[p] = NoRounds

RanOut(p) ==
  /\ ~endDuel[p] /\ gun[p].timerEnd /\ ~gun[p].timer /\ gun[p].start /\ gun[p].delayed = 0
  /\ starts[p] = 1 /\ reports[p] = {} /\ screen[p] \in {"leaving", "final"}
  /\ \/ tally[p] = NoRounds
     \/ tally[p] = LoseRound(NoRounds) /\ \E b \in reports[Other(p)] : b > 0

OneRound == {NoRounds, WinRound(NoRounds), LoseRound(NoRounds)}

Judged(p) == endDuel[p] /\ gun[p].timerEnd /\ tally[p] \in OneRound

Scores(p) ==
  /\ Reporting(p) /\ Clocked(p) /\ Shown(p)
  /\ Waits(p) => Unscored(p)
  /\ ~endDuel[p] /\ carShotTime[p] = 0 => opShotTime[p] >= 0
  /\ Unscored(p) \/ RanOut(p) \/ Judged(p)

ScoreInv == \A p \in Phone : Scores(p)

\* The result screen scores each pair of final times for at most one player.
LEMMA FinalTimesScoreOnce ==
  ASSUME NEW c \in Int, NEW o \in Int, NEW j \in Judgement \ {"open"},
         j = "shots" => c > 0 /\ o > 0 /\ c <= Limit /\ o <= Limit
  PROVE  LET t == FinalTimes(j, c, o) IN ScoreRound(NoRounds, t[1], t[2]) \in OneRound
  <1>1. ASSUME NEW u \in Int, NEW v \in Int, u > 0, v > 0, u <= Limit, v <= Limit
        PROVE  ScoreRound(NoRounds, u, v) \in OneRound
    <2>1. u # FOLL /\ v # FOLL /\ u # 0 /\ v # 0
      BY <1>1, TimesAreNoFouls, RoundAssumption DEF FOLL
    <2>2. ScoreRound(NoRounds, u, v) = ScoreSlower(ScoreFaster(NoRounds, u, v), u, v)
      BY <2>1, Zenon DEF ScoreRound, ScoreMyFoul, ScoreOpponentFoul
    <2>3. CASE u < v
      <3>1. ScoreFaster(NoRounds, u, v) = WinRound(NoRounds) /\ ~(u > v)
        BY <2>1, <2>3 DEF ScoreFaster
      <3> QED BY <2>1, <2>2, <3>1 DEF ScoreSlower, OneRound
    <2>4. CASE ~(u < v)
      <3>1. ScoreFaster(NoRounds, u, v) = NoRounds
        BY <2>1, <2>4 DEF ScoreFaster
      <3> QED BY <2>1, <2>2, <3>1 DEF ScoreSlower, OneRound
    <2> QED BY <2>3, <2>4
  <1>2. ScoreRound(NoRounds, FOLL, 0) = LoseRound(NoRounds)
    BY DEF ScoreRound, ScoreFaster, ScoreSlower, ScoreMyFoul, ScoreOpponentFoul, FOLL
  <1>3. ScoreRound(NoRounds, 0, FOLL) = WinRound(NoRounds)
    BY DEF ScoreRound, ScoreFaster, ScoreSlower, ScoreMyFoul, ScoreOpponentFoul, FOLL
  <1>4. CASE j = "shots"
    BY <1>1, <1>4 DEF FinalTimes
  <1>5. CASE j = "follMe"
    BY <1>2, <1>5 DEF FinalTimes, OneRound
  <1>6. CASE j \in {"follOpponent", "exclusive"}
    BY <1>3, <1>6 DEF FinalTimes, OneRound
  <1> QED BY <1>4, <1>5, <1>6 DEF Judgement

\* The time limit scores a defeat by a hit, and nothing when there is none.
LEMMA LimitScores ==
  ASSUME NEW o \in Int, o >= 0, o <= Limit
  PROVE  ScoreRound(NoRounds, 0, o) = IF o > 0 THEN LoseRound(NoRounds) ELSE NoRounds
  <1>1. o # FOLL /\ FOLL # 0
    BY TimesAreNoFouls, RoundAssumption DEF FOLL
  <1>2. ScoreRound(NoRounds, 0, o) = ScoreSlower(ScoreFaster(NoRounds, 0, o), 0, o)
    BY <1>1, Zenon DEF ScoreRound, ScoreMyFoul, ScoreOpponentFoul
  <1>3. ~(0 > o)
    OBVIOUS
  <1>4. ScoreSlower(ScoreFaster(NoRounds, 0, o), 0, o) = ScoreFaster(NoRounds, 0, o)
    BY <1>3, Zenon DEF ScoreSlower
  <1>5. CASE o > 0
    BY <1>1, <1>2, <1>4, <1>5 DEF ScoreFaster
  <1>6. CASE o = 0
    BY <1>1, <1>2, <1>4, <1>6 DEF ScoreFaster
  <1> QED BY <1>5, <1>6

\* Nothing sent to a waiting phone gets before START_DUEL_TRUE; what one takes is not
\* followed by another; and who waits has not started.
LEMMA WaitsKept ==
  ASSUME TypeOK, NEW r \in Phone,
         \/ net'[r] = net[r]
         \/ \E m \in Packet : net'[r] = Append(net[r], m) /\ m.id # "START_DUEL_TRUE"
  PROVE  Waits(r)' <=> Waits(r)
  <1>1. net[r] \in Seq(Packet)
    BY DEF TypeOK
  <1>2. CASE net'[r] = net[r]
    BY <1>2 DEF Waits
  <1>3. ASSUME NEW m \in Packet, net'[r] = Append(net[r], m), m.id # "START_DUEL_TRUE"
        PROVE  Waits(r)' <=> Waits(r)
    <2>1. CASE net[r] = << >>
      <3>1. Head(net'[r]) = m
        BY <1>3, <2>1
      <3> QED BY <1>3, <2>1, <3>1 DEF Waits
    <2>2. CASE net[r] # << >>
      <3>1. net'[r] # << >> /\ Head(net'[r]) = Head(net[r])
        BY <1>1, <1>3, <2>2
      <3> QED BY <2>2, <3>1 DEF Waits
    <2> QED BY <2>1, <2>2
  <1> QED BY <1>2, <1>3

\* A packet taken is followed by no START_DUEL_TRUE.
LEMMA WaitsNoMore ==
  ASSUME TypeOK, HandshakeInv, NEW p \in Phone, net[p] # << >>, net'[p] = Tail(net[p])
  PROVE  ~Waits(p)'
  <1>1. Tail(net[p]) \in Seq(Packet) /\ NoneOf({"START_DUEL_TRUE"}, Tail(net[p]))
    BY TakesHead, QueueTypes DEF TypeOK
  <1>2. Tail(net[p]) # << >> => 1 \in DOMAIN Tail(net[p]) /\ Head(Tail(net[p])) = Tail(net[p])[1]
    BY <1>1, QueueElements
  <1> QED BY <1>1, <1>2 DEF Waits, NoneOf

\* Who waits has not started; who has not started has a gun as it was dealt.
LEMMA WaitsUnstarted ==
  ASSUME TypeOK, HandshakeInv, NEW p \in Phone
  PROVE  /\ Waits(p) => starts[p] = 0
         /\ (starts[p] = 0 /\ Unstarted(gun[p])) \/ starts[p] = 1
  <1>1. Waits(p) => ~NoneOf({"START_DUEL_TRUE"}, net[p]) /\ ~NoneOf(Handshake, net[p])
    BY TakesHead DEF Waits, NoneOf, Handshake
  <1> QED BY <1>1 DEF HandshakeInv, ForGood

\* What a step of the opponent leaves of a phone's score.
LEMMA OthersScore ==
  ASSUME NEW r \in Phone, Scores(r), gun'[r] = gun[r], screen'[r] = screen[r],
         endDuel'[r] <=> endDuel[r], tally'[r] = tally[r], starts'[r] = starts[r],
         carShotTime'[r] = carShotTime[r], opShotTime'[r] = opShotTime[r],
         reports'[r] = reports[r], reports[Other(r)] \subseteq reports'[Other(r)],
         Waits(r)' <=> Waits(r)
  PROVE  Scores(r)'
  <1>1. Reporting(r)' /\ Clocked(r)' /\ Shown(r)'
    BY DEF Scores, Reporting, Clocked, Shown
  <1>2. (Unscored(r) => Unscored(r)') /\ (RanOut(r) => RanOut(r)') /\ (Judged(r) => Judged(r)')
    BY DEF Unscored, RanOut, Judged
  <1> QED BY <1>1, <1>2 DEF Scores

\* What a step that neither starts p's clock nor ends its round makes of its gun.
Allows(p, h) ==
  LET g == gun[p]
  IN  /\ h.timerEnd <=> g.timerEnd
      /\ g.start => h.start
      /\ h.timer => g.timer /\ h.running /\ ~h.foll /\ h.clock <= Limit
      /\ h.touch => g.touch
      /\ h.clock <= Limit + 1
      /\ starts[p] = 0 => ~h.foll
      /\ \/ h.delayed = g.delayed
         \/ starts[p] = 1 /\ ~h.timer /\ ~h.touch /\ g.touch /\ screen[p] = "duel"

\* Such a step keeps the score.
LEMMA MoveScores ==
  ASSUME TypeOK, ScoreInv, NEW p \in Phone, NEW h, Allows(p, h),
         gun' = [gun EXCEPT ![p] = h],
         UNCHANGED <<screen, starts, exchangeVars>>,
         \A r \in Phone :
           \/ net'[r] = net[r]
           \/ \E m \in Packet : net'[r] = Append(net[r], m) /\ m.id # "START_DUEL_TRUE"
  PROVE  ScoreInv'
  <1>0. /\ UNCHANGED <<screen, starts, carShotTime, opShotTime, endDuel, tally, reports>>
        /\ gun \in [Phone -> Gun]
    BY DEF exchangeVars, TypeOK
  <1>1. ASSUME NEW r \in Phone PROVE Waits(r)' <=> Waits(r)
    BY WaitsKept
  <1>2. ASSUME NEW r \in Phone, r # p PROVE Scores(r)'
    <2>1. gun'[r] = gun[r] /\ Scores(r)
      BY <1>0, <1>2 DEF ScoreInv
    <2> QED BY <1>0, <1>1, <2>1, OthersScore
  <1>3. Scores(p)'
    <2>1. gun'[p] = h /\ Scores(p) /\ (Waits(p)' <=> Waits(p))
      BY <1>0, <1>1 DEF ScoreInv
    <2>2. Reporting(p)'
      BY <1>0, <2>1 DEF Scores, Reporting, Allows
    <2>3. Clocked(p)' /\ Shown(p)'
      BY <1>0, <2>1 DEF Scores, Clocked, Shown, Allows
    <2>4. (Unscored(p) => Unscored(p)') /\ (Judged(p) => Judged(p)')
      BY <1>0, <2>1 DEF Unscored, Judged, Allows
    <2>5. RanOut(p) => RanOut(p)'
      BY <1>0, <2>1 DEF RanOut, Allows
    <2> QED BY <1>0, <2>1, <2>2, <2>3, <2>4, <2>5 DEF Scores
  <1> QED BY <1>2, <1>3 DEF ScoreInv

\* What a reading of the sensor leaves of a gun.
LEMMA ReadingFields ==
  ASSUME NEW g \in Gun, NEW b \in BOOLEAN
  PROVE  LET f == Reading(g, b) IN
         /\ f \in Gun
         /\ (f.timerEnd <=> g.timerEnd) /\ (f.start <=> g.start) /\ (f.running <=> g.running)
         /\ (f.foll <=> g.foll) /\ (f.timer <=> g.timer) /\ (f.touch <=> g.touch)
         /\ f.clock = g.clock /\ f.delayed = g.delayed
  <1>1. Reading(g, b) \in Gun
    BY ReadingType
  <1> QED BY <1>1 DEF Reading, Gun

\* What a shot leaves of a gun: all but bullets and shots, unless the magazine is empty
\* before the last shot needed; a gun as it was dealt has a shot for every bullet.
LEMMA ShootFields ==
  ASSUME NEW g \in Gun, NEW now \in Nat
  PROVE  LET f == Shoot(g, now) IN
         /\ f \in Gun
         /\ (f.timerEnd <=> g.timerEnd) /\ (f.running <=> g.running) /\ (f.foll <=> g.foll)
         /\ f.start <=> g.start
         /\ \/ /\ (f.timer <=> g.timer) /\ (f.touch <=> g.touch)
               /\ f.clock = g.clock /\ f.delayed = g.delayed
            \/ /\ ~f.timer /\ ~f.touch /\ f.clock = now /\ f.shots # f.maxShots
               /\ ~Unstarted(g)
  <1> DEFINE a == [g EXCEPT !.bullets = @ - 1, !.shots = @ + 1]
             b == [a EXCEPT !.follViewShow = TRUE, !.clock = now, !.delayed = @ + 1,
                            !.timer = FALSE, !.follChecked = TRUE, !.touch = FALSE]
             f == Shoot(g, now)
  <1>1. g.bullets \in Nat /\ g.shots \in Int /\ g.maxShots \in Nat /\ f \in Gun /\ (f.start <=> g.start)
    BY GunFields, ShootType, ShootKeeps
  <1>2. /\ (a.timerEnd <=> g.timerEnd) /\ (a.running <=> g.running) /\ (a.foll <=> g.foll)
        /\ (a.timer <=> g.timer) /\ (a.touch <=> g.touch)
        /\ a.clock = g.clock /\ a.delayed = g.delayed /\ a.maxShots = g.maxShots
        /\ a.shots = g.shots + 1 /\ a.bullets = g.bullets - 1
    BY DEF Gun
  <1>3. /\ (b.timerEnd <=> a.timerEnd) /\ (b.running <=> a.running) /\ (b.foll <=> a.foll)
        /\ ~b.timer /\ ~b.touch /\ b.clock = now /\ b.shots = a.shots /\ b.maxShots = a.maxShots
    BY DEF Gun
  <1>4. f = IF g.bullets = 0 THEN g ELSE IF a.bullets <= 0 /\ a.shots < a.maxShots THEN b ELSE a
    BY DEF Shoot
  <1> HIDE DEF a, b, f
  <1>5. CASE f = g
    BY <1>1, <1>5 DEF f
  <1>6. CASE f = a
    BY <1>1, <1>2, <1>6 DEF f
  <1>7. CASE f = b /\ g.bullets # 0 /\ a.bullets <= 0 /\ a.shots < a.maxShots
    <2>1. ~Unstarted(g)
      BY <1>1, <1>2, <1>7 DEF Unstarted
    <2>2. f.shots # f.maxShots
      BY <1>1, <1>2, <1>3, <1>7
    <2> QED BY <1>1, <1>2, <1>3, <1>7, <2>1, <2>2 DEF f
  <1> QED BY <1>4, <1>5, <1>6, <1>7

\* What a tick makes of a gun.
LEMMA TickedFields ==
  ASSUME NEW p \in Phone, gun[p] \in Gun
  PROVE  LET g == gun[p]
             h == Ticked(p)
         IN  /\ h \in Gun
             /\ (h.timerEnd <=> g.timerEnd) /\ (g.start => h.start) /\ (h.running <=> g.running)
             /\ (h.foll <=> g.foll) /\ (h.timer <=> g.timer) /\ (h.touch <=> g.touch)
             /\ h.clock = g.clock + 1 /\ h.delayed = g.delayed
             /\ h.clock >= FireTime /\ ~g.foll /\ screen[p] = "duel" => h.start
  <1> DEFINE g == gun[p]
             c == [g EXCEPT !.clock = @ + 1]
             f == [c EXCEPT !.start = TRUE]
             h == Ticked(p)
  <1>1. g.clock + 1 \in Nat
    BY GunFields
  <1>2. c \in Gun
    BY <1>1, Zenon DEF Gun
  <1>3. f \in Gun
    BY <1>2, Zenon DEF Gun
  <1>4. /\ (c.timerEnd <=> g.timerEnd) /\ (c.start <=> g.start) /\ (c.running <=> g.running)
        /\ (c.foll <=> g.foll) /\ (c.timer <=> g.timer) /\ (c.touch <=> g.touch)
        /\ c.clock = g.clock + 1 /\ c.delayed = g.delayed
    BY DEF Gun
  <1> HIDE DEF c
  <1>5. /\ (f.timerEnd <=> c.timerEnd) /\ f.start /\ (f.running <=> c.running)
        /\ (f.foll <=> c.foll) /\ (f.timer <=> c.timer) /\ (f.touch <=> c.touch)
        /\ f.clock = c.clock /\ f.delayed = c.delayed
    BY <1>2 DEF Gun
  <1> HIDE DEF f
  <1>6. h = IF c.clock >= FireTime /\ ~c.start /\ ~c.foll /\ screen[p] = "duel" THEN f ELSE c
    BY DEF Ticked, c, f
  <1> HIDE DEF h
  <1> QED BY <1>2, <1>3, <1>4, <1>5, <1>6 DEF h

\* The steps of the sensor, the trigger and the clock that report nothing keep the score.
LEMMA MovesScore ==
  ASSUME TypeOK, HandshakeInv, ScoreInv, NEW p \in Phone,
         \/ LowerGun(p) \/ RaiseGun(p) \/ Trick(p) \/ ShootOn(p) \/ ShootTooEarly(p) \/ Tick(p)
  PROVE  ScoreInv'
  <1> DEFINE g == gun[p]
  <1>1. /\ g \in Gun /\ net \in [Phone -> Seq(Packet)] /\ Scores(p)
        /\ Other(p) \in Phone /\ Other(p) # p
    BY OtherPhone DEF TypeOK, ScoreInv
  <1>2. g.clock \in Nat /\ g.delayed \in Nat /\ Limit \in Nat
    BY <1>1, GunFields, RoundAssumption
  <1>3. \A now \in Now(p) : now \in Nat /\ now <= Limit + 1
    BY <1>1, <1>2 DEF Now, Scores, Clocked
  <1>4. ASSUME NEW h,
               h.timerEnd <=> g.timerEnd, h.start <=> g.start, h.running <=> g.running,
               h.foll <=> g.foll, h.timer <=> g.timer, h.touch <=> g.touch,
               h.clock = g.clock, h.delayed = g.delayed
        PROVE  Allows(p, h)
    BY <1>1, <1>4 DEF Allows, Scores, Clocked
  <1>5. CASE LowerGun(p)
    <2> DEFINE f == Reading(g, TRUE)
               h == [f EXCEPT !.readySent = TRUE]
               m == Signal("ACCEL_STATE")
    <2>1. m \in Packet /\ m.id # "START_DUEL_TRUE"
      BY PacketTypes DEF PacketID, Signal
    <2>2. /\ gun' = [gun EXCEPT ![p] = f] \/ gun' = [gun EXCEPT ![p] = h]
          /\ net' = net \/ net' = [net EXCEPT ![Other(p)] = Append(@, m)]
          /\ UNCHANGED <<screen, starts, exchangeVars>>
      BY <1>5 DEF LowerGun
    <2>3. Allows(p, f) /\ f \in Gun
      <3>1. Reading(g, TRUE) \in Gun
        BY <1>1, ReadingFields
      <3>2. Allows(p, Reading(g, TRUE))
        BY <1>1, <1>4, ReadingFields
      <3> QED BY <3>1, <3>2
    <2>4. Allows(p, h)
      <3> HIDE DEF f
      <3>1. /\ (h.timerEnd <=> f.timerEnd) /\ (h.start <=> f.start) /\ (h.running <=> f.running)
            /\ (h.foll <=> f.foll) /\ (h.timer <=> f.timer) /\ (h.touch <=> f.touch)
            /\ h.clock = f.clock /\ h.delayed = f.delayed
        BY <2>3 DEF Gun
      <3> HIDE DEF h
      <3> QED BY <2>3, <3>1 DEF Allows
    <2> HIDE DEF f, h, m
    <2>5. \A r \in Phone : net'[r] = net[r] \/ net'[r] = Append(net[r], m)
      BY <1>1, <2>2
    <2> QED BY <2>1, <2>2, <2>3, <2>4, <2>5, MoveScores
  <1>6. CASE RaiseGun(p)
    <2>1. /\ gun' = [gun EXCEPT ![p] = Reading(g, FALSE)] /\ net' = net
          /\ UNCHANGED <<screen, starts, exchangeVars>>
      BY <1>6 DEF RaiseGun
    <2>2. Allows(p, Reading(g, FALSE))
      BY <1>1, <1>4, ReadingFields
    <2> QED BY <2>1, <2>2, MoveScores
  <1>7. CASE Trick(p)
    <2> DEFINE h == [g EXCEPT !.maxShots = 1]
    <2>1. gun' = [gun EXCEPT ![p] = h] /\ net' = net /\ UNCHANGED <<screen, starts, exchangeVars>>
      BY <1>7 DEF Trick
    <2>2. /\ (h.timerEnd <=> g.timerEnd) /\ (h.start <=> g.start) /\ (h.running <=> g.running)
          /\ (h.foll <=> g.foll) /\ (h.timer <=> g.timer) /\ (h.touch <=> g.touch)
          /\ h.clock = g.clock /\ h.delayed = g.delayed
      BY <1>1 DEF Gun
    <2> HIDE DEF h
    <2>3. Allows(p, h)
      BY <1>4, <2>2
    <2> QED BY <2>1, <2>3, MoveScores
  <1>8. ASSUME NEW now \in Now(p), CanShoot(p)
        PROVE  Allows(p, Shoot(g, now)) /\ Shoot(g, now) \in Gun
    <2> DEFINE f == Shoot(g, now)
    <2>1. /\ f \in Gun
          /\ (f.timerEnd <=> g.timerEnd) /\ (f.running <=> g.running) /\ (f.foll <=> g.foll)
          /\ f.start <=> g.start
          /\ \/ /\ (f.timer <=> g.timer) /\ (f.touch <=> g.touch)
                /\ f.clock = g.clock /\ f.delayed = g.delayed
             \/ /\ ~f.timer /\ ~f.touch /\ f.clock = now /\ f.shots # f.maxShots
                /\ ~Unstarted(g)
      BY <1>1, <1>3, ShootFields
    <2> HIDE DEF f
    <2>2. CASE /\ (f.timer <=> g.timer) /\ (f.touch <=> g.touch)
               /\ f.clock = g.clock /\ f.delayed = g.delayed
      BY <1>4, <2>1, <2>2 DEF f
    <2>3. CASE ~f.timer /\ ~f.touch /\ f.clock = now /\ ~Unstarted(g)
      <3>1. starts[p] = 1
        BY <2>3, WaitsUnstarted
      <3>2. screen[p] = "duel" /\ g.touch
        BY <1>8 DEF CanShoot
      <3>3. Allows(p, f)
        BY <1>3, <2>1, <2>3, <3>1, <3>2 DEF Allows
      <3> QED BY <2>1, <3>3 DEF f
    <2> QED BY <2>1, <2>2, <2>3
  <1>9. CASE ShootOn(p)
    <2>1. PICK now \in Now(p) : ShootOn(p)!(now)
      BY <1>9 DEF ShootOn
    <2>2. /\ gun' = [gun EXCEPT ![p] = Shoot(g, now)] /\ net' = net /\ CanShoot(p)
          /\ UNCHANGED <<screen, starts, exchangeVars>>
      BY <2>1
    <2>3. Allows(p, Shoot(g, now))
      BY <1>8, <2>2
    <2> QED BY <2>2, <2>3, MoveScores
  <1>10. CASE ShootTooEarly(p)
    <2>1. PICK now \in Now(p) : ShootTooEarly(p)!(now)
      BY <1>10 DEF ShootTooEarly
    <2> DEFINE f == Shoot(g, now)
               e == [f EXCEPT !.foll = TRUE, !.delayed = @ + 1, !.touch = FALSE,
                              !.timer = FALSE, !.running = FALSE]
               d == [(IF f.running THEN e ELSE f) EXCEPT !.shots = @ - 1]
    <2>2. /\ gun' = [gun EXCEPT ![p] = d] /\ net' = net /\ CanShoot(p) /\ ~f.start
          /\ UNCHANGED <<screen, starts, exchangeVars>>
      BY <2>1
    <2>3. Allows(p, f) /\ f \in Gun
      BY <1>8, <2>2
    <2>4. starts[p] = 1 /\ screen[p] = "duel" /\ g.touch
      <3>1. ~g.start
        BY <1>1, <1>3, <2>2, ShootFields
      <3>2. ~Unstarted(g)
        BY <3>1 DEF Unstarted
      <3> QED BY <2>2, <3>2, WaitsUnstarted DEF CanShoot
    <2> HIDE DEF f
    <2>5. /\ (e.timerEnd <=> f.timerEnd) /\ (e.start <=> f.start)
          /\ ~e.timer /\ ~e.touch /\ e.clock = f.clock
      BY <2>3 DEF Gun
    <2>6. e \in Gun
      <3>1. f.delayed + 1 \in Nat
        BY <2>3, GunFields
      <3> QED BY <2>3, <3>1, ZenonT(60) DEF Gun
    <2>7. Allows(p, e)
      <3> HIDE DEF e
      <3> QED BY <2>3, <2>4, <2>5 DEF Allows
    <2> DEFINE k == IF f.running THEN e ELSE f
    <2>8. k \in Gun /\ Allows(p, k)
      BY <2>3, <2>6, <2>7
    <2> HIDE DEF e, k
    <2>9. /\ d = [k EXCEPT !.shots = @ - 1]
      BY DEF k
    <2> HIDE DEF d
    <2>10. /\ (d.timerEnd <=> k.timerEnd) /\ (d.start <=> k.start) /\ (d.running <=> k.running)
           /\ (d.foll <=> k.foll) /\ (d.timer <=> k.timer) /\ (d.touch <=> k.touch)
           /\ d.clock = k.clock /\ d.delayed = k.delayed
      BY <2>8, <2>9 DEF Gun
    <2>11. Allows(p, d)
      BY <2>8, <2>10 DEF Allows
    <2> QED BY <2>2, <2>11, MoveScores
  <1>11. CASE Tick(p)
    <2> DEFINE h == Ticked(p)
    <2>1. /\ gun' = [gun EXCEPT ![p] = h] /\ net' = net /\ g.clock < Limit
          /\ UNCHANGED <<screen, starts, exchangeVars>>
      BY <1>11 DEF Tick
    <2>2. /\ (h.timerEnd <=> g.timerEnd) /\ (g.start => h.start) /\ (h.running <=> g.running)
          /\ (h.foll <=> g.foll) /\ (h.timer <=> g.timer) /\ (h.touch <=> g.touch)
          /\ h.clock = g.clock + 1 /\ h.delayed = g.delayed
      BY <1>1, TickedFields
    <2> HIDE DEF h
    <2>3. Allows(p, h)
      BY <1>1, <1>2, <2>1, <2>2 DEF Allows, Scores, Clocked
    <2> QED BY <2>1, <2>3, MoveScores
  <1> QED BY <1>5, <1>6, <1>7, <1>9, <1>10, <1>11

\* A time that was reported to p and is a hit is within the limit.
LEMMA HeardTimes ==
  ASSUME TypeOK, ScoreInv, NEW p \in Phone, NEW o \in reports[Other(p)] \union {0}
  PROVE  o \in Int /\ (o > 0 => o <= Limit)
  <1>1. Reporting(Other(p)) /\ reports[Other(p)] \subseteq Int /\ Limit \in Nat
    BY OtherPhone, RoundAssumption DEF ScoreInv, Scores, TypeOK
  <1> QED BY <1>1 DEF Reporting

\* Judging the exchange scores the round, once.
LEMMA JudgingScores ==
  ASSUME TypeOK, ScoreInv, NEW p \in Phone, NEW j \in Judgement \ {"open"},
         NEW c \in Int, NEW o \in Int, NEW h \in Gun, EndExchange(p, j, c, o, h),
         j = "shots" => c > 0 /\ o > 0 /\ c <= Limit /\ o <= Limit,
         tally[p] = NoRounds, screen[p] # "wait"
  PROVE  /\ Judged(p)' /\ screen'[p] # "wait"
         /\ gun'[p] = Stopped(h)
         /\ \A r \in Phone : r # p => /\ gun'[r] = gun[r] /\ screen'[r] = screen[r]
                                      /\ (endDuel'[r] <=> endDuel[r]) /\ tally'[r] = tally[r]
  <1> DEFINE t == FinalTimes(j, c, o)
  <1>1. ScoreRound(NoRounds, t[1], t[2]) \in OneRound
    BY FinalTimesScoreOnce
  <1>3. tally' = [tally EXCEPT ![p] = ScoreRound(@, t[1], t[2])]
    BY DEF EndExchange
  <1> HIDE DEF t
  <1>4. tally'[p] \in OneRound /\ \A r \in Phone : r # p => tally'[r] = tally[r]
    BY <1>1, <1>3 DEF TypeOK
  <1>5. /\ gun'[p] = Stopped(h) /\ endDuel'[p] /\ screen'[p] # "wait"
        /\ \A r \in Phone : r # p => /\ gun'[r] = gun[r] /\ screen'[r] = screen[r]
                                     /\ endDuel'[r] <=> endDuel[r]
    BY DEF EndExchange, TypeOK
  <1>6. Stopped(h).timerEnd
    BY DEF Stopped, Gun
  <1> QED BY <1>4, <1>5, <1>6 DEF Judged

\* What the end of an exchange leaves of a gun.
LEMMA StoppedFields ==
  ASSUME NEW g \in Gun
  PROVE  LET f == Stopped(g) IN
         /\ f.timerEnd /\ ~f.timer /\ (f.start <=> g.start) /\ (f.running <=> g.running)
         /\ (f.foll <=> g.foll) /\ (f.touch <=> g.touch)
         /\ f.clock = g.clock /\ f.delayed = g.delayed
  BY DEF Stopped, Gun

\* Reporting a time keeps the score: of one who reports a hit it is the first report and
\* the last, of one who reports a foul no hit was reported.
LEMMA SendScores ==
  ASSUME TypeOK, ExchangeInv, HandshakeInv, ScoreInv, NobodyFiresEarly', NEW p \in Phone,
         NEW s \in Int, NEW h \in Gun, SendShotTime(p, s, h), starts' = starts, ~RanOut(p),
         h.timerEnd <=> gun[p].timerEnd, gun[p].start => h.start, ~h.timer, ~h.touch,
         h.clock <= Limit + 1, starts[p] = 0 => ~h.foll,
         h.delayed > 0 => gun[p].delayed > 0,
         Reported(s) > 0 =>
           reports[p] = {} /\ h.start /\ h.delayed = 0 /\ Reported(s) <= Limit,
         Reported(s) < 0 => \A a \in reports[p] : ~(a > 0)
  PROVE  ScoreInv'
  <1> DEFINE q == Other(p)
             t == Reported(s)
             j == JudgeOnSend(t, opShotTime[p])
  <1>1. q \in Phone /\ q # p /\ Other(q) = p /\ \A r \in Phone : r = p \/ r = q
    BY OtherPhone DEF Phone, Other
  <1>2. t \in Int /\ t # 0 /\ opShotTime[p] \in Int /\ j \in Judgement
    <2>1. t \in Int /\ t # 0 /\ opShotTime[p] \in Int
      BY DEF Reported, TypeOK
    <2> QED BY <2>1, JudgeTypes
  <1>3. /\ Scores(p) /\ Scores(q) /\ h.delayed \in Nat /\ reports[p] \subseteq Int
        /\ opShotTime[p] \in reports[q] \union {0}
    BY <1>1, GunFields DEF ScoreInv, ExchangeInv, TypeOK
  <1>4. carShotTime' = [carShotTime EXCEPT ![p] = t] /\ UNCHANGED opShotTime
    BY Zenon DEF SendShotTime
  <1>5. carShotTime'[p] = t /\ carShotTime'[q] = carShotTime[q]
    BY <1>1, <1>4 DEF TypeOK
  <1>6. CASE endDuel[p]
    <2>1. gun' = [gun EXCEPT ![p] = h] /\ UNCHANGED <<screen, endDuel, tally, net, reports>>
      BY <1>6, Zenon DEF SendShotTime
    <2>2. gun'[p] = h /\ gun'[q] = gun[q]
      BY <1>1, <2>1 DEF TypeOK
    <2>3. (Waits(p)' <=> Waits(p)) /\ (Waits(q)' <=> Waits(q))
      BY <2>1 DEF Waits
    <2>4. Scores(q)'
      BY <1>1, <1>3, <1>4, <1>5, <2>1, <2>2, <2>3, OthersScore
    <2>5. Reporting(p)'
      BY <1>3, <2>1, <2>2 DEF Scores, Reporting
    <2>6. Clocked(p)' /\ Shown(p)'
      BY <1>3, <2>1, <2>2, <2>3 DEF Scores, Clocked, Shown
    <2>7. Judged(p) /\ ~Waits(p)
      BY <1>3, <1>6 DEF Scores, Unscored, RanOut
    <2>8. Judged(p)'
      BY <2>1, <2>2, <2>7 DEF Judged
    <2>9. Scores(p)'
      BY <1>6, <2>1, <2>3, <2>5, <2>6, <2>7, <2>8 DEF Scores
    <2> QED BY <1>1, <2>4, <2>9 DEF ScoreInv
  <1>7. CASE ~endDuel[p]
    <2>1. /\ net' = [net EXCEPT ![q] = Append(@, ShotTime(t))]
          /\ reports' = [reports EXCEPT ![p] = @ \union {t}]
          /\ \/ j = "open" /\ gun' = [gun EXCEPT ![p] = h] /\ UNCHANGED <<screen, endDuel, tally>>
             \/ j # "open" /\ EndExchange(p, j, t, opShotTime[p], h)
      BY <1>7, Zenon DEF SendShotTime
    <2>2. /\ reports'[p] = reports[p] \union {t} /\ reports'[q] = reports[q]
          /\ net'[q] = Append(net[q], ShotTime(t)) /\ net'[p] = net[p]
      BY <1>1, <2>1 DEF TypeOK
    <2>3. Waits(q)' <=> Waits(q)
      <3>1. ShotTime(t) \in Packet /\ ShotTime(t).id # "START_DUEL_TRUE"
        BY <1>2, PacketTypes DEF ShotTime
      <3> QED BY <1>1, <2>2, <3>1, WaitsKept
    <2> HIDE DEF t
    <2>4. starts[p] = 1 /\ ~Waits(p) /\ ~Waits(p)' /\ screen[p] # "wait"
      <3>1. starts[p] # 0
        BY <2>2 DEF NobodyFiresEarly
      <3>2. Waits(p)' <=> Waits(p)
        BY <2>2 DEF Waits
      <3> QED BY <1>3, <3>1, <3>2, WaitsUnstarted DEF Scores, Shown
    <2>5. Unscored(p)
      BY <1>3, <1>7 DEF Scores, Judged
    <2>6. /\ t > 0 => h.start /\ h.delayed = 0 /\ t <= Limit /\ reports[p] = {}
          /\ t < 0 => \A a \in reports[p] : ~(a > 0)
          /\ \A a \in reports[p] : a > 0 => h.start /\ h.delayed = 0 /\ a <= Limit
      <3>1. \A a \in reports[p] : a > 0 => h.start /\ h.delayed = 0 /\ a <= Limit
        BY <1>3 DEF Scores, Reporting
      <3> QED BY <3>1 DEF t
    <2>7. ASSUME gun'[p].start <=> h.start, gun'[p].delayed = h.delayed,
                 ~gun'[p].timer, ~gun'[p].touch
          PROVE  Reporting(p)'
      <3>1. \A a \in reports'[p] : a > 0 => h.start /\ h.delayed = 0 /\ a <= Limit
        BY <2>2, <2>6
      <3>2. \A a, b \in reports'[p] : a > 0 => b > 0
        <4>1. \A a, b \in reports[p] : a > 0 => b > 0
          BY <1>3 DEF Scores, Reporting
        <4> QED BY <1>2, <1>3, <2>2, <2>6, <4>1
      <3> QED BY <2>4, <2>7, <3>1, <3>2 DEF Reporting
    <2>8. ASSUME gun'[p].clock = h.clock, ~gun'[p].timer
          PROVE  Clocked(p)'
      BY <2>4, <2>8 DEF Clocked
    <2>9. CASE j = "open" /\ gun' = [gun EXCEPT ![p] = h] /\ UNCHANGED <<screen, endDuel, tally>>
      <3>1. gun'[p] = h /\ gun'[q] = gun[q]
        BY <1>1, <2>9 DEF TypeOK
      <3>2. Scores(q)'
        BY <1>1, <1>3, <1>4, <1>5, <2>2, <2>3, <2>9, <3>1, OthersScore
      <3>3. Reporting(p)' /\ Clocked(p)'
        BY <2>7, <2>8, <3>1
      <3>4. Shown(p)'
        BY <1>3, <2>4, <2>9, <3>1 DEF Scores, Shown
      <3>5. Unscored(p)'
        BY <2>5, <2>9, <3>1 DEF Unscored
      <3>6. Scores(p)'
        BY <1>2, <1>5, <2>4, <3>3, <3>4, <3>5 DEF Scores
      <3> QED BY <1>1, <3>2, <3>6 DEF ScoreInv
    <2>10. CASE j # "open" /\ EndExchange(p, j, t, opShotTime[p], h)
      <3>1. j = "shots" => t > 0 /\ opShotTime[p] > 0 /\ t <= Limit /\ opShotTime[p] <= Limit
        <4>1. j = "shots" => t > 0 /\ opShotTime[p] > 0
          BY <1>2, JudgementMeans
        <4> QED BY <1>3, <2>6, <4>1, HeardTimes
      <3>2. tally[p] = NoRounds /\ j \in Judgement \ {"open"}
        BY <1>2, <2>5, <2>10 DEF Unscored
      <3> HIDE DEF j
      <3>3. /\ Judged(p)' /\ screen'[p] # "wait" /\ gun'[p] = Stopped(h)
            /\ gun'[q] = gun[q] /\ screen'[q] = screen[q]
            /\ (endDuel'[q] <=> endDuel[q]) /\ tally'[q] = tally[q]
        BY <1>1, <1>2, <2>4, <2>10, <3>1, <3>2, JudgingScores
      <3>4. Scores(q)'
        BY <1>1, <1>3, <1>4, <1>5, <2>2, <2>3, <3>3, OthersScore
      <3>5. /\ (gun'[p].start <=> h.start) /\ gun'[p].delayed = h.delayed
            /\ gun'[p].clock = h.clock /\ ~gun'[p].timer /\ ~gun'[p].touch /\ gun'[p].timerEnd
        BY <3>3, StoppedFields
      <3>6. Reporting(p)' /\ Clocked(p)'
        BY <2>7, <2>8, <3>5
      <3>7. Shown(p)'
        BY <2>4, <3>3, <3>5 DEF Shown
      <3>8. Scores(p)'
        BY <2>4, <3>3, <3>6, <3>7 DEF Scores, Judged
      <3> QED BY <1>1, <3>4, <3>8 DEF ScoreInv
    <2> QED BY <2>1, <2>9, <2>10
  <1> QED BY <1>6, <1>7

\* A foul, a kill and a foul reported late keep the score.
LEMMA ReportsScore ==
  ASSUME TypeOK, ExchangeInv, HandshakeInv, ScoreInv, NobodyFiresEarly', NEW p \in Phone,
         RaiseTooEarly(p) \/ Kill(p) \/ FollSend(p)
  PROVE  ScoreInv'
  <1> DEFINE g == gun[p]
  <1>1. /\ g \in Gun /\ Scores(p) /\ g.clock \in Nat /\ g.delayed \in Nat
        /\ Limit \in Nat /\ FireTime \in Nat /\ FireTime > 0
    BY GunFields, RoundAssumption DEF TypeOK, ScoreInv
  <1>2. (starts[p] = 0 /\ Unstarted(g)) \/ starts[p] = 1
    BY WaitsUnstarted
  <1>3. CASE RaiseTooEarly(p)
    <2> DEFINE f == Reading(g, FALSE)
               h == [f EXCEPT !.follChecked = TRUE, !.timer = FALSE, !.foll = TRUE,
                              !.touch = FALSE]
    <2>1. /\ f \in Gun
          /\ (f.timerEnd <=> g.timerEnd) /\ (f.start <=> g.start) /\ (f.running <=> g.running)
          /\ f.clock = g.clock /\ f.delayed = g.delayed
      BY <1>1, ReadingFields
    <2>2. SendShotTime(p, -f.clock, h) /\ starts' = starts /\ f.running /\ ~f.start
      BY <1>3 DEF RaiseTooEarly, TooEarly
    <2> HIDE DEF f
    <2>3. /\ (h.timerEnd <=> f.timerEnd) /\ (h.start <=> f.start) /\ ~h.timer /\ ~h.touch
          /\ h.clock = f.clock /\ h.delayed = f.delayed
      BY <2>1 DEF Gun
    <2>4. h \in Gun
      BY <2>1 DEF Gun
    <2> HIDE DEF h
    <2>5. -f.clock \in Int /\ Reported(-f.clock) < 0
      BY <1>1, <2>1 DEF Reported
    <2>6. \A a \in reports[p] : ~(a > 0)
      BY <1>1, <2>1, <2>2 DEF Scores, Reporting
    <2>7. ~RanOut(p)
      BY <2>1, <2>2 DEF RanOut
    <2>8. starts[p] = 1
      BY <1>2, <2>1, <2>2 DEF Unstarted
    <2>9. h.clock <= Limit + 1
      BY <1>1, <2>1, <2>3 DEF Scores, Clocked
    <2>10. ~(Reported(-f.clock) > 0)
      <3>1. Reported(-f.clock) \in Int
        BY <2>5 DEF Reported
      <3> QED BY <2>5, <3>1
    <2> QED BY <2>1, <2>2, <2>3, <2>4, <2>5, <2>6, <2>7, <2>8, <2>9, <2>10, SendScores
  <1>4. CASE Kill(p)
    <2>1. PICK now \in Now(p) : Kill(p)!(now)
      BY <1>4 DEF Kill
    <2> DEFINE f == Shoot(g, now)
               h == [f EXCEPT !.touch = FALSE, !.trigger = FALSE, !.aiming = FALSE,
                              !.timer = FALSE]
               s == f.clock - FireTime
    <2>2. now \in Nat
      BY <1>1 DEF Now
    <2>3. /\ SendShotTime(p, s, h) /\ starts' = starts /\ f.start /\ f.shots = f.maxShots
          /\ screen[p] = "duel" /\ g.touch
      BY <2>1 DEF CanShoot
    <2>4. /\ f \in Gun /\ (f.timerEnd <=> g.timerEnd) /\ (f.foll <=> g.foll)
          /\ f.clock = g.clock /\ f.delayed = g.delayed
      BY <1>1, <2>2, <2>3, ShootFields
    <2> HIDE DEF f
    <2>5. /\ (h.timerEnd <=> f.timerEnd) /\ (h.start <=> f.start) /\ ~h.timer /\ ~h.touch
          /\ (h.foll <=> f.foll) /\ h.clock = f.clock /\ h.delayed = f.delayed
      BY <2>4 DEF Gun
    <2>6. h \in Gun
      BY <2>4 DEF Gun
    <2> HIDE DEF h
    <2>7. g.delayed = 0 /\ reports[p] = {} /\ h.clock <= Limit + 1 /\ (starts[p] = 0 => ~h.foll)
      BY <1>1, <2>3, <2>4, <2>5 DEF Scores, Reporting, Clocked
    <2>8. s \in Int /\ Reported(s) <= Limit
      BY <1>1, <2>4, <2>5, <2>7 DEF Reported
    <2>9. ~RanOut(p)
      BY <2>3 DEF RanOut
    <2> HIDE DEF s
    <2> QED BY <2>3, <2>4, <2>5, <2>6, <2>7, <2>8, <2>9, SendScores
  <1>5. CASE FollSend(p)
    <2> DEFINE h == [g EXCEPT !.delayed = @ - 1]
               s == -g.clock
    <2>1. SendShotTime(p, s, h) /\ starts' = starts /\ g.delayed > 0
      BY <1>5 DEF FollSend
    <2>2. h \in Gun
      <3>1. g.delayed - 1 \in Nat
        BY <1>1, <2>1
      <3> QED BY <1>1, <3>1, Zenon DEF Gun
    <2>3. /\ (h.timerEnd <=> g.timerEnd) /\ (h.start <=> g.start) /\ (h.timer <=> g.timer)
          /\ (h.touch <=> g.touch) /\ (h.foll <=> g.foll) /\ h.clock = g.clock
      BY <1>1 DEF Gun
    <2> HIDE DEF h
    <2>4. ~g.timer /\ ~g.touch /\ h.clock <= Limit + 1 /\ starts[p] = 1
      BY <1>1, <2>1, <2>3 DEF Scores, Reporting, Clocked
    <2>5. s \in Int /\ Reported(s) < 0 /\ ~(Reported(s) > 0)
      BY <1>1 DEF Reported
    <2>6. \A a \in reports[p] : ~(a > 0)
      BY <1>1, <2>1 DEF Scores, Reporting
    <2>7. ~RanOut(p)
      BY <2>1 DEF RanOut
    <2> HIDE DEF s
    <2> QED BY <2>1, <2>2, <2>3, <2>4, <2>5, <2>6, <2>7, SendScores
  <1> QED BY <1>3, <1>4, <1>5

\* The time limit scores for a phone that has scored nothing, reported nothing and heard
\* of no foul.
LEMMA LimitKeepsScore ==
  ASSUME TypeOK, ExchangeInv, HandshakeInv, ScoreInv, NEW p \in Phone, DuelTimerEnd(p)
  PROVE  ScoreInv'
  <1> DEFINE q == Other(p)
             g == gun[p]
             k == Ticked(p)
             h == Stopped(k)
             o == opShotTime[p]
  <1>1. q \in Phone /\ q # p /\ Other(q) = p /\ \A r \in Phone : r = p \/ r = q
    BY OtherPhone DEF Phone, Other
  <1>2. /\ g \in Gun /\ g.clock \in Nat /\ Scores(p) /\ Scores(q)
        /\ Limit \in Nat /\ FireTime \in Nat /\ FireTime < Limit
    BY <1>1, GunFields, RoundAssumption DEF TypeOK, ScoreInv
  <1>3. /\ g.timer /\ TimedOut(k)
        /\ gun' = [gun EXCEPT ![p] = h]
        /\ tally' = [tally EXCEPT ![p] = ScoreRound(@, carShotTime[p], o)]
        /\ screen' = [screen EXCEPT ![p] = "leaving"]
        /\ UNCHANGED <<net, starts, carShotTime, opShotTime, endDuel, reports>>
    BY DEF DuelTimerEnd
  <1>4. /\ k \in Gun /\ (k.timerEnd <=> g.timerEnd) /\ (k.running <=> g.running)
        /\ (k.foll <=> g.foll) /\ (k.touch <=> g.touch)
        /\ k.clock = g.clock + 1 /\ k.delayed = g.delayed
        /\ k.clock >= FireTime /\ ~g.foll /\ screen[p] = "duel" => k.start
    BY <1>2, TickedFields
  <1> HIDE DEF k
  <1>5. /\ h.timerEnd /\ ~h.timer /\ (h.start <=> k.start) /\ (h.foll <=> k.foll)
        /\ h.clock = k.clock /\ h.delayed = k.delayed
    BY <1>4, StoppedFields
  <1> HIDE DEF h
  <1>6. /\ gun'[p] = h /\ gun'[q] = gun[q] /\ screen'[p] = "leaving" /\ screen'[q] = screen[q]
        /\ tally'[p] = ScoreRound(tally[p], carShotTime[p], o) /\ tally'[q] = tally[q]
    BY <1>1, <1>3 DEF TypeOK
  <1>7. /\ starts[p] = 1 /\ ~g.foll /\ g.clock <= Limit /\ reports[p] = {} /\ g.delayed = 0
        /\ ~Waits(p)
    <2>1. starts[p] = 1 /\ ~g.foll /\ g.clock <= Limit
      BY <1>2, <1>3 DEF Scores, Clocked
    <2>2. reports[p] = {} /\ ~(g.delayed > 0)
      BY <1>2, <1>3 DEF Scores, Reporting
    <2> QED BY <1>2, <2>1, <2>2, GunFields, WaitsUnstarted
  <1>8. k.clock >= Limit /\ ~g.timerEnd
    BY <1>3, <1>4 DEF TimedOut
  <1>9. Unscored(p) /\ screen[p] = "duel"
    <2>1. Unscored(p)
      BY <1>2, <1>8 DEF Scores, RanOut, Judged
    <2>2. screen[p] \in Screen
      BY DEF TypeOK
    <2> QED BY <1>2, <1>7, <1>8, <2>1, <2>2 DEF Scores, Shown, Screen
  <1>10. h.start
    BY <1>2, <1>4, <1>5, <1>7, <1>8, <1>9
  <1>11. carShotTime[p] = 0 /\ o \in reports[q] \union {0} /\ o >= 0
    <2>1. carShotTime[p] = 0 /\ o \in reports[q] \union {0}
      BY <1>7, <1>9 DEF ExchangeInv, OwnTime, Unscored
    <2> QED BY <1>2, <1>9, <2>1 DEF Scores, Unscored
  <1>12. o \in Int /\ o <= Limit
    <2>1. o \in Int /\ (o > 0 => o <= Limit)
      BY <1>11, HeardTimes
    <2> QED BY <1>2, <1>11, <2>1
  <1> HIDE DEF g, o
  <1>13. \/ tally'[p] = NoRounds
         \/ tally'[p] = LoseRound(NoRounds) /\ \E b \in reports'[q] : b > 0
    <2>1. tally'[p] = IF o > 0 THEN LoseRound(NoRounds) ELSE NoRounds
      BY <1>6, <1>9, <1>11, <1>12, LimitScores DEF Unscored
    <2>2. o > 0 => o \in reports'[q]
      BY <1>3, <1>11
    <2> QED BY <2>1, <2>2
  <1>14. ~Waits(p)' /\ (Waits(q)' <=> Waits(q))
    BY <1>3, <1>7 DEF Waits
  <1>15. Scores(q)'
    BY <1>1, <1>2, <1>3, <1>6, <1>14, OthersScore
  <1>16. Scores(p)'
    <2>1. Reporting(p)'
      BY <1>3, <1>4, <1>5, <1>6, <1>7 DEF Reporting
    <2>2. Clocked(p)'
      BY <1>2, <1>3, <1>4, <1>5, <1>6, <1>7 DEF Clocked
    <2>3. Shown(p)'
      BY <1>5, <1>6, <1>14 DEF Shown
    <2>4. RanOut(p)'
      BY <1>3, <1>4, <1>5, <1>6, <1>7, <1>9, <1>10, <1>13 DEF RanOut, Unscored
    <2>5. ~endDuel'[p] /\ carShotTime'[p] = 0 => opShotTime'[p] >= 0
      BY <1>3, <1>11 DEF o
    <2> QED BY <1>14, <2>1, <2>2, <2>3, <2>4, <2>5 DEF Scores
  <1> QED BY <1>1, <1>15, <1>16 DEF ScoreInv

\* Leaving the duel's screen changes no score.
LEMMA LeavingScores ==
  ASSUME TypeOK, ScoreInv, NEW p \in Phone, DidDisappear(p)
  PROVE  ScoreInv'
  <1>1. /\ screen[p] = "leaving" /\ screen' = [screen EXCEPT ![p] = "final"]
        /\ UNCHANGED <<gun, net, starts, carShotTime, opShotTime, endDuel, tally, reports>>
    BY DEF DidDisappear, exchangeVars
  <1>2. screen'[p] = "final" /\ \A r \in Phone : r # p => screen'[r] = screen[r]
    BY <1>1 DEF TypeOK
  <1>3. \A r \in Phone : (Waits(r)' <=> Waits(r)) /\ Scores(r)
    BY <1>1 DEF Waits, ScoreInv
  <1>4. ASSUME NEW r \in Phone, r # p PROVE Scores(r)'
    BY <1>1, <1>2, <1>3, <1>4, OthersScore
  <1>5. Scores(p)'
    <2>1. Reporting(p)' /\ Clocked(p)' /\ Shown(p)'
      BY <1>1, <1>2, <1>3 DEF Scores, Reporting, Clocked, Shown
    <2>2. (Unscored(p) => Unscored(p)') /\ (RanOut(p) => RanOut(p)') /\ (Judged(p) => Judged(p)')
      BY <1>1, <1>2 DEF Unscored, RanOut, Judged
    <2> QED BY <1>1, <1>3, <2>1, <2>2 DEF Scores
  <1> QED BY <1>4, <1>5 DEF ScoreInv

\* The permission for the duel shows the duel and scores nothing.
LEMMA StartDuelTrueScores ==
  ASSUME TypeOK, HandshakeInv, ScoreInv, NobodyFiresEarly, NEW p \in Phone,
         ReceiveStartDuelTrue(p)
  PROVE  ScoreInv'
  <1> DEFINE q == Other(p)
  <1>1. q \in Phone /\ q # p /\ Other(q) = p /\ \A r \in Phone : r = p \/ r = q
    BY OtherPhone DEF Phone, Other
  <1>2. /\ Waits(p) /\ net' = [net EXCEPT ![p] = Tail(@)]
        /\ \/ screen[p] = "duel" /\ UNCHANGED <<gun, screen>>
           \/ gun' = [gun EXCEPT ![p] = NewGun] /\ screen' = [screen EXCEPT ![p] = "duel"]
        /\ UNCHANGED <<starts, carShotTime, opShotTime, endDuel, tally, reports>>
    BY DEF ReceiveStartDuelTrue, Receives, Consume, Waits, exchangeVars
  <1>3. /\ gun'[q] = gun[q] /\ screen'[q] = screen[q] /\ net'[q] = net[q]
        /\ net'[p] = Tail(net[p]) /\ screen'[p] = "duel"
        /\ gun'[p] = gun[p] \/ gun'[p] = NewGun
    BY <1>1, <1>2 DEF TypeOK
  <1>4. Scores(p) /\ Scores(q) /\ (Waits(q)' <=> Waits(q))
    BY <1>1, <1>3 DEF ScoreInv, Waits
  <1>5. ~Waits(p)'
    BY <1>2, <1>3, WaitsNoMore DEF Waits
  <1>6. starts[p] = 0 /\ reports[p] = {} /\ Unscored(p)
    BY <1>2, <1>4, WaitsUnstarted DEF NobodyFiresEarly, Scores
  <1>7. Scores(q)'
    BY <1>1, <1>2, <1>3, <1>4, OthersScore
  <1>8. /\ NewGun.delayed = 0 /\ NewGun.clock = 0 /\ ~NewGun.foll /\ ~NewGun.timer
        /\ ~NewGun.timerEnd
    BY DEF NewGun
  <1>9. Reporting(p)'
    BY <1>2, <1>3, <1>4, <1>6, <1>8 DEF Scores, Reporting
  <1>10. Clocked(p)'
    BY <1>2, <1>3, <1>4, <1>8, RoundAssumption DEF Scores, Clocked
  <1>11. Shown(p)' /\ Unscored(p)'
    BY <1>2, <1>3, <1>5, <1>6, <1>8 DEF Shown, Unscored
  <1> QED BY <1>1, <1>2, <1>4, <1>5, <1>7, <1>9, <1>10, <1>11 DEF ScoreInv, Scores

\* What the handshake's start makes of a gun as it was dealt.
LEMMA StartedFields ==
  ASSUME NEW g \in Gun, ~g.follViewShow
  PROVE  LET f == Started(g) IN
         /\ f.timer /\ f.running /\ f.clock = 0
         /\ (f.foll <=> g.foll) /\ (f.timerEnd <=> g.timerEnd) /\ f.delayed = g.delayed
  BY DEF Started, Gun

\* Starting the clock, or not, scores nothing: no time was reported before.
LEMMA AccelStatesScore ==
  ASSUME TypeOK, HandshakeInv, ScoreInv, NobodyFiresEarly, HandshakeInv', NEW p \in Phone,
         ReceiveAccelState(p) \/ ReceiveAccelStateTrue(p)
  PROVE  ScoreInv'
  <1> DEFINE q == Other(p)
             m == Signal("ACCEL_STATE_TRUE")
             g == gun[p]
  <1>1. q \in Phone /\ q # p /\ Other(q) = p /\ \A r \in Phone : r = p \/ r = q
    BY OtherPhone DEF Phone, Other
  <1>2. m \in Packet /\ m.id # "START_DUEL_TRUE"
    BY PacketTypes DEF PacketID, Signal
  <1>3. /\ net[p] # << >> /\ Head(net[p]).id # "START_DUEL_TRUE"
        /\ \/ net' = [net EXCEPT ![p] = Tail(@)]
           \/ net' = [net EXCEPT ![p] = Tail(@), ![q] = Append(@, m)]
        /\ UNCHANGED <<gun, starts>> \/ StartGun(p)
        /\ UNCHANGED <<screen, carShotTime, opShotTime, endDuel, tally, reports>>
    BY DEF ReceiveAccelState, ReceiveAccelStateTrue, Receives, Consume, ConsumeAndSend, exchangeVars
  <1> HIDE DEF m
  <1>4. net'[p] = Tail(net[p]) /\ (net'[q] = net[q] \/ net'[q] = Append(net[q], m))
    BY <1>1, <1>3 DEF TypeOK
  <1>5. ~Waits(p) /\ ~Waits(p)' /\ (Waits(q)' <=> Waits(q))
    <2>1. ~Waits(p)
      BY <1>3 DEF Waits
    <2>2. ~Waits(p)'
      BY <1>3, <1>4, WaitsNoMore
    <2>3. Waits(q)' <=> Waits(q)
      BY <1>1, <1>2, <1>4, WaitsKept
    <2> QED BY <2>1, <2>2, <2>3
  <1>6. Scores(p) /\ Scores(q) /\ g \in Gun
    BY <1>1 DEF ScoreInv, TypeOK
  <1>7. CASE UNCHANGED <<gun, starts>>
    <2>1. Scores(q)'
      BY <1>1, <1>3, <1>5, <1>6, <1>7, OthersScore
    <2>2. Reporting(p)' /\ Clocked(p)' /\ Shown(p)'
      BY <1>3, <1>5, <1>6, <1>7 DEF Scores, Reporting, Clocked, Shown
    <2>3. (Unscored(p) => Unscored(p)') /\ (RanOut(p) => RanOut(p)') /\ (Judged(p) => Judged(p)')
      BY <1>3, <1>7 DEF Unscored, RanOut, Judged
    <2>4. Scores(p)'
      BY <1>3, <1>5, <1>6, <2>2, <2>3 DEF Scores
    <2> QED BY <1>1, <2>1, <2>4 DEF ScoreInv
  <1>8. CASE StartGun(p)
    <2>1. /\ gun'[p] = Started(g) /\ gun'[q] = gun[q] /\ starts'[q] = starts[q]
          /\ starts'[p] = IF g.follViewShow THEN starts[p] ELSE starts[p] + 1
      BY <1>1, <1>8 DEF StartGun, TypeOK
    <2>2. Scores(q)'
      BY <1>1, <1>3, <1>5, <1>6, <2>1, OthersScore
    <2>3. CASE g.follViewShow
      <3>1. gun'[p] = g /\ starts'[p] = starts[p]
        BY <2>1, <2>3 DEF Started
      <3>2. Reporting(p)' /\ Clocked(p)' /\ Shown(p)'
        BY <1>3, <1>5, <1>6, <3>1 DEF Scores, Reporting, Clocked, Shown
      <3>3. (Unscored(p) => Unscored(p)') /\ (RanOut(p) => RanOut(p)') /\ (Judged(p) => Judged(p)')
        BY <1>3, <3>1 DEF Unscored, RanOut, Judged
      <3>4. Scores(p)'
        BY <1>3, <1>5, <1>6, <3>2, <3>3 DEF Scores
      <3> QED BY <1>1, <2>2, <3>4 DEF ScoreInv
    <2>4. CASE ~g.follViewShow
      <3>1. starts[p] = 0 /\ starts'[p] = 1
        <4>1. starts'[p] \in {0, 1} /\ starts'[p] = starts[p] + 1 /\ starts[p] \in {0, 1}
          BY <2>1, <2>4 DEF HandshakeInv, ForGood
        <4> QED BY <4>1
      <3>2. /\ gun'[p].timer /\ gun'[p].running /\ gun'[p].clock = 0
            /\ (gun'[p].foll <=> g.foll) /\ (gun'[p].timerEnd <=> g.timerEnd)
            /\ gun'[p].delayed = g.delayed
        BY <1>6, <2>1, <2>4, StartedFields
      <3>3. reports[p] = {} /\ g.delayed = 0 /\ ~g.foll
        <4>1. reports[p] = {} /\ ~(g.delayed > 0) /\ ~g.foll
          BY <1>6, <3>1 DEF NobodyFiresEarly, Scores, Reporting, Clocked
        <4> QED BY <1>6, <4>1, GunFields
      <3>4. Reporting(p)'
        BY <1>3, <3>1, <3>2, <3>3 DEF Reporting
      <3>5. Clocked(p)'
        BY <3>1, <3>2, <3>3, RoundAssumption DEF Clocked
      <3>6. Shown(p)'
        BY <1>3, <1>5, <1>6, <3>2 DEF Scores, Shown
      <3>7. (Unscored(p) => Unscored(p)') /\ ~RanOut(p) /\ (Judged(p) => Judged(p)')
        BY <1>3, <3>1, <3>2 DEF Unscored, RanOut, Judged
      <3>8. Scores(p)'
        BY <1>3, <1>5, <1>6, <3>4, <3>5, <3>6, <3>7 DEF Scores
      <3> QED BY <1>1, <2>2, <3>8 DEF ScoreInv
    <2> QED BY <2>3, <2>4
  <1> QED BY <1>3, <1>7, <1>8

\* A time received scores the round unless the exchange has been judged; a foul that
\* arrives after the time limit finds no defeat scored.
LEMMA ShotTimeScores ==
  ASSUME TypeOK, ExchangeInv, HandshakeInv, ScoreInv, NEW p \in Phone, ReceiveShotTime(p)
  PROVE  ScoreInv'
  <1> DEFINE q == Other(p)
             c == carShotTime[p]
             o == Head(net[p]).time
             j == JudgeOnReceive(c, o)
             g == gun[p]
  <1>1. q \in Phone /\ q # p /\ Other(q) = p /\ \A r \in Phone : r = p \/ r = q
    BY OtherPhone DEF Phone, Other
  <1>2. UNCHANGED <<carShotTime, reports, starts>>
    BY Zenon DEF ReceiveShotTime
  <1>3. /\ net[p] # << >> /\ net[p] \in Seq(Packet) /\ Head(net[p]) \in Packet
        /\ Head(net[p]).id = "SEND_SHOT_TIME"
    BY QueueTypes DEF ReceiveShotTime, Receives, TypeOK
  <1>4. Scores(p) /\ Scores(q) /\ g \in Gun /\ ~Waits(p) /\ screen[p] # "wait"
    BY <1>1, <1>3 DEF ScoreInv, TypeOK, Waits, Scores, Shown
  <1>5. o \in reports[q] \union {0}
    <2>1. InFlight(p) /\ 1 \in DOMAIN net[p] /\ Head(net[p]) = net[p][1]
      BY <1>3, QueueElements DEF ExchangeInv
    <2> QED BY <1>3, <2>1 DEF InFlight, Honest
  <1>6. c \in Int /\ o \in Int /\ j \in Judgement /\ ShotTime(c) \in Packet
        /\ ShotTime(c).id # "START_DUEL_TRUE"
    <2>1. c \in Int /\ o \in Int
      BY <1>3 DEF TypeOK, Packet
    <2> QED BY <2>1, JudgeTypes, PacketTypes DEF ShotTime
  <1>7. CASE endDuel[p]
    <2>1. Consume(p) /\ UNCHANGED <<gun, screen, opShotTime, endDuel, tally>>
      BY <1>7, Zenon DEF ReceiveShotTime
    <2>2. net'[p] = Tail(net[p]) /\ net'[q] = net[q]
      BY <1>1, <2>1 DEF Consume, TypeOK
    <2>3. ~Waits(p)' /\ (Waits(q)' <=> Waits(q))
      BY <1>3, <2>2, WaitsNoMore DEF Waits
    <2>4. Scores(q)'
      BY <1>1, <1>2, <1>4, <2>1, <2>3, OthersScore
    <2>5. Reporting(p)' /\ Clocked(p)' /\ Shown(p)'
      BY <1>2, <1>4, <2>1, <2>3 DEF Scores, Reporting, Clocked, Shown
    <2>6. Judged(p)'
      BY <1>4, <1>7, <2>1 DEF Scores, Unscored, RanOut, Judged
    <2>7. Scores(p)'
      BY <1>7, <2>1, <2>3, <2>5, <2>6 DEF Scores
    <2> QED BY <1>1, <2>4, <2>7 DEF ScoreInv
  <1>8. CASE ~endDuel[p]
    <2>1. /\ opShotTime' = [opShotTime EXCEPT ![p] = o]
          /\ IF j = "exclusive" THEN ConsumeAndSend(p, ShotTime(c)) ELSE Consume(p)
          /\ \/ j = "open" /\ UNCHANGED <<gun, screen, endDuel, tally>>
             \/ j # "open" /\ EndExchange(p, j, c, o, g)
      BY <1>8, Zenon DEF ReceiveShotTime
    <2>2. /\ j = "shots" => c > 0 /\ o > 0
          /\ j = "follMe" => c < 0 /\ c < o
          /\ j = "follOpponent" => o < 0 /\ c > o /\ c # 0
          /\ j = "exclusive" => c = 0 /\ o < 0
      BY <1>6, JudgementMeans
    <2>3. j = "open" /\ c = 0 => o >= 0
      BY <1>6 DEF JudgeOnReceive
    <2>4. c \in reports[p] \/ (c = 0 /\ reports[p] = {})
      BY <1>8 DEF ExchangeInv, OwnTime
    <2> HIDE DEF j
    <2>5. net'[p] = Tail(net[p]) /\ (net'[q] = net[q] \/ net'[q] = Append(net[q], ShotTime(c)))
      <3>1. CASE j = "exclusive"
        BY <1>1, <2>1, <3>1 DEF ConsumeAndSend, TypeOK
      <3>2. CASE j # "exclusive"
        BY <1>1, <2>1, <3>2 DEF Consume, TypeOK
      <3> QED BY <3>1, <3>2
    <2>6. ~Waits(p)' /\ (Waits(q)' <=> Waits(q))
      <3>1. ~Waits(p)'
        BY <1>3, <2>5, WaitsNoMore
      <3>2. Waits(q)' <=> Waits(q)
        BY <1>1, <1>6, <2>5, WaitsKept
      <3> QED BY <3>1, <3>2
    <2> HIDE DEF c, o
    <2>7. opShotTime'[p] = o /\ opShotTime'[q] = opShotTime[q]
      BY <1>1, <2>1 DEF TypeOK
    <2>8. CASE j = "open" /\ UNCHANGED <<gun, screen, endDuel, tally>>
      <3>1. Scores(q)'
        BY <1>1, <1>2, <1>4, <2>6, <2>7, <2>8, OthersScore
      <3>2. Reporting(p)' /\ Clocked(p)' /\ Shown(p)'
        BY <1>2, <1>4, <2>6, <2>8 DEF Scores, Reporting, Clocked, Shown
      <3>3. (Unscored(p) => Unscored(p)') /\ (RanOut(p) => RanOut(p)') /\ ~Judged(p)
        BY <1>2, <1>8, <2>8 DEF Unscored, RanOut, Judged
      <3>4. carShotTime'[p] = 0 => opShotTime'[p] >= 0
        BY <1>2, <2>3, <2>7, <2>8 DEF c
      <3>5. Scores(p)'
        BY <1>4, <2>6, <3>2, <3>3, <3>4 DEF Scores
      <3> QED BY <1>1, <3>1, <3>5 DEF ScoreInv
    <2>9. CASE j # "open" /\ EndExchange(p, j, c, o, g)
      <3>1. j = "shots" => c > 0 /\ o > 0 /\ c <= Limit /\ o <= Limit
        <4>1. c > 0 => c <= Limit
          BY <1>4, <1>6, <2>4 DEF Scores, Reporting
        <4> QED BY <1>5, <2>2, <4>1, HeardTimes
      <3>2. tally[p] = NoRounds
        <4>1. CASE Unscored(p)
          BY <4>1 DEF Unscored
        <4>2. CASE RanOut(p)
          <5>1. c = 0
            BY <2>4, <4>2 DEF RanOut
          <5>2. o < 0
            BY <1>6, <2>2, <2>9, <5>1 DEF Judgement
          <5>3. o \in reports[q]
            BY <1>5, <1>6, <5>2
          <5>4. ~\E b \in reports[q] : b > 0
            <6>1. ~(o > 0)
              BY <1>6, <5>2
            <6> QED BY <1>4, <5>3, <6>1 DEF Scores, Reporting
          <5> QED BY <4>2, <5>4 DEF RanOut
        <4> QED BY <1>4, <1>8, <4>1, <4>2 DEF Scores, Judged
      <3>3. j \in Judgement \ {"open"}
        BY <1>6, <2>9
      <3>4. /\ Judged(p)' /\ screen'[p] # "wait" /\ gun'[p] = Stopped(g)
            /\ gun'[q] = gun[q] /\ screen'[q] = screen[q]
            /\ (endDuel'[q] <=> endDuel[q]) /\ tally'[q] = tally[q]
        BY <1>1, <1>4, <1>6, <2>9, <3>1, <3>2, <3>3, JudgingScores
      <3>5. Scores(q)'
        BY <1>1, <1>2, <1>4, <2>6, <2>7, <3>4, OthersScore
      <3>6. /\ gun'[p].timerEnd /\ ~gun'[p].timer /\ (gun'[p].start <=> g.start)
            /\ (gun'[p].foll <=> g.foll) /\ (gun'[p].touch <=> g.touch)
            /\ gun'[p].clock = g.clock /\ gun'[p].delayed = g.delayed
        BY <1>4, <3>4, StoppedFields
      <3>7. Reporting(p)'
        BY <1>2, <1>4, <3>6 DEF Scores, Reporting
      <3>8. Clocked(p)' /\ Shown(p)'
        BY <1>2, <1>4, <2>6, <3>4, <3>6 DEF Scores, Clocked, Shown
      <3>9. Scores(p)'
        BY <2>6, <3>4, <3>7, <3>8 DEF Scores, Judged
      <3> QED BY <1>1, <3>5, <3>9 DEF ScoreInv
    <2> QED BY <2>1, <2>8, <2>9
  <1> QED BY <1>7, <1>8

\* Nothing is scored when a round opens.
LEMMA InitScores == Init => ScoreInv
  <1> SUFFICES ASSUME Init, NEW p \in Phone PROVE Scores(p)
    BY DEF ScoreInv
  <1>1. /\ gun[p] = NewGun /\ starts[p] = 0 /\ reports[p] = {} /\ ~endDuel[p]
        /\ tally[p] = NoRounds /\ opShotTime[p] = 0
    BY DEF Init
  <1>2. screen[p] \in {"wait", "duel"} /\ (screen[p] = "wait" => Waits(p))
    BY DEF Init, OneWaits, BothShow, Waits, Signal
  <1>3. /\ NewGun.delayed = 0 /\ NewGun.clock = 0 /\ ~NewGun.foll /\ ~NewGun.timer
        /\ ~NewGun.timerEnd
    BY DEF NewGun
  <1>4. Unscored(p)
    BY <1>1, <1>3 DEF Unscored
  <1>5. Reporting(p) /\ Clocked(p) /\ Shown(p)
    BY <1>1, <1>2, <1>3, RoundAssumption DEF Reporting, Clocked, Shown
  <1> QED BY <1>1, <1>4, <1>5 DEF Scores

\* Every step keeps the score.
LEMMA StepScores ==
  ASSUME TypeOK, ExchangeInv, HandshakeInv, HandshakeInv', ScoreInv,
         NobodyFiresEarly, NobodyFiresEarly', [Next]_vars
  PROVE  ScoreInv'
  <1>1. CASE UNCHANGED vars
    <2>1. \A r \in Phone : Scores(r)
      BY DEF ScoreInv
    <2>2. \A r \in Phone : Waits(r)' <=> Waits(r)
      BY <1>1 DEF vars, Waits
    <2>3. \A r \in Phone : Scores(r)'
      BY <1>1, <2>1, <2>2, OthersScore DEF vars, exchangeVars
    <2> QED BY <2>3 DEF ScoreInv
  <1>2. ASSUME NEW p \in Phone, Player(p) \/ Clock(p) \/ Receive(p) PROVE ScoreInv'
    BY <1>2, MovesScore, ReportsScore, LimitKeepsScore, LeavingScores, StartDuelTrueScores,
       AccelStatesScore, ShotTimeScores DEF Player, Clock, Receive
  <1> QED BY <1>1, <1>2 DEF Next

\* The exchange and the 30 second limit, which both lead to the result screen
\* (duelTimerEnd, sendShotTime and receiveData of GameCenterViewController), between them
\* score the round at most once and for one winner, for any fire time, limit below the
\* number that stands for a foul, magazine and delay, as long as nobody reports a time
\* before its clock has started.
THEOREM ScoredOnceHolds == Spec /\ []NobodyFiresEarly => []ScoredOnce
  <1>1. ScoreInv => ScoredOnce
    <2>1. \A t \in OneRound : t.number <= 1 /\ t.win + t.lose = t.number
      <3>1. /\ NoRounds.number = 0 /\ NoRounds.win = 0 /\ NoRounds.lose = 0
            /\ NoRounds \in Tally
        BY DEF NoRounds, Tally
      <3>2. /\ WinRound(NoRounds).number = 1 /\ WinRound(NoRounds).win = 1
            /\ WinRound(NoRounds).lose = 0
        BY <3>1 DEF WinRound, Tally
      <3>3. /\ LoseRound(NoRounds).number = 1 /\ LoseRound(NoRounds).win = 0
            /\ LoseRound(NoRounds).lose = 1
        BY <3>1 DEF LoseRound, Tally
      <3> HIDE DEF NoRounds
      <3> QED BY <3>1, <3>2, <3>3 DEF OneRound
    <2>2. ASSUME ScoreInv, NEW p \in Phone PROVE tally[p] \in OneRound
      BY <2>2 DEF ScoreInv, Scores, Unscored, RanOut, Judged, OneRound
    <2> HIDE DEF OneRound
    <2> QED BY <2>1, <2>2 DEF ScoredOnce
  <1>2. /\ TypeOK /\ ExchangeInv /\ HandshakeInv /\ HandshakeInv' /\ ScoreInv
        /\ NobodyFiresEarly /\ NobodyFiresEarly' /\ [Next]_vars
        => ScoreInv'
    BY StepScores
  <1> QED BY <1>1, <1>2, InitScores, ExchangeInvariant, HandshakeInvariant, PTL DEF Spec

-----------------------------------------------------------------------------
(***************************************************************************)
(* The agreement of the two phones survives the link: packets lost,        *)
(* repeated, reordered and restated cannot make them disagree, unless a    *)
(* phone takes a time after it has judged the exchange.                    *)
(***************************************************************************)

-----------------------------------------------------------------------------
(***************************************************************************)
(* What the link does to a queue.                                          *)
(***************************************************************************)

\* A queue that lost a packet holds what is left of it.
LEMMA RemoveAtElements ==
  ASSUME NEW s \in Seq(Packet), NEW i \in DOMAIN s
  PROVE  /\ RemoveAt(s, i) \in Seq(Packet)
         /\ \A k \in DOMAIN RemoveAt(s, i) : \E l \in DOMAIN s : RemoveAt(s, i)[k] = s[l]
  <1> DEFINE a == SubSeq(s, 1, i - 1)
             b == SubSeq(s, i + 1, Len(s))
  <1>1. i \in 1 .. Len(s) /\ Len(s) \in Nat
    OBVIOUS
  <1>2. a \in Seq(Packet) /\ Len(a) = i - 1 /\ \A k \in 1 .. i - 1 : a[k] = s[k]
    BY <1>1
  <1>3. /\ b \in Seq(Packet) /\ Len(b) = Len(s) - i
        /\ \A k \in 1 .. Len(s) - i : b[k] = s[i + k]
    BY <1>1
  <1>4. RemoveAt(s, i) = a \o b
    BY DEF RemoveAt
  <1> HIDE DEF a, b
  <1>5. a \o b \in Seq(Packet) /\ DOMAIN (a \o b) = 1 .. Len(s) - 1
    BY <1>1, <1>2, <1>3
  <1>6. ASSUME NEW k \in 1 .. Len(s) - 1
        PROVE  \E l \in DOMAIN s : (a \o b)[k] = s[l]
    <2>1. CASE k <= i - 1
      <3>1. (a \o b)[k] = a[k]
        BY <1>1, <1>2, <1>3, <2>1
      <3>2. k \in 1 .. i - 1 /\ k \in DOMAIN s
        BY <1>1, <2>1
      <3> QED BY <1>2, <3>1, <3>2
    <2>2. CASE k > i - 1
      <3>0. k \in 1 .. Len(a) + Len(b) /\ ~(k <= Len(a))
        BY <1>1, <1>2, <1>3, <2>2
      <3>1. (a \o b)[k] = b[k - Len(a)]
        BY <1>2, <1>3, <3>0, ConcatProperties
      <3>1b. k - Len(a) = k - (i - 1)
        BY <1>2
      <3>2. k - (i - 1) \in 1 .. Len(s) - i /\ i + (k - (i - 1)) \in DOMAIN s
        BY <1>1, <2>2
      <3> QED BY <1>3, <3>1, <3>1b, <3>2
    <2>3. k <= i - 1 \/ k > i - 1
      BY <1>1
    <2> QED BY <2>1, <2>2, <2>3
  <1> QED BY <1>4, <1>5, <1>6

\* After a fault a queue holds packets it held before, and restated shot times.
LEMMA FaultElements ==
  ASSUME TypeOK, NEW p \in Phone, Lose(p) \/ Repeat(p) \/ Overtake(p) \/ Restate(p)
  PROVE  /\ net' \in [Phone -> Seq(Packet)] /\ lag' \in [Phone -> Nat]
         /\ \A r \in Phone : \A k \in DOMAIN net'[r] :
              \/ \E l \in DOMAIN net[r] : net'[r][k] = net[r][l]
              \/ /\ net'[r][k] = ShotTime(carShotTime[Other(r)])
                 /\ \E l \in DOMAIN net[r] : net[r][l].id = "SEND_SHOT_TIME"
  <1>1. net[p] \in Seq(Packet) /\ \A l \in DOMAIN net[p] : net[p][l] \in Packet
    BY DEF TypeOK
  <1>2. ASSUME NEW s \in Seq(Packet), net' = [net EXCEPT ![p] = s],
               \A k \in DOMAIN s :
                 \/ \E l \in DOMAIN net[p] : s[k] = net[p][l]
                 \/ /\ s[k] = ShotTime(carShotTime[Other(p)])
                    /\ \E l \in DOMAIN net[p] : net[p][l].id = "SEND_SHOT_TIME"
        PROVE  /\ net' \in [Phone -> Seq(Packet)]
               /\ \A r \in Phone : \A k \in DOMAIN net'[r] :
                    \/ \E l \in DOMAIN net[r] : net'[r][k] = net[r][l]
                    \/ /\ net'[r][k] = ShotTime(carShotTime[Other(r)])
                       /\ \E l \in DOMAIN net[r] : net[r][l].id = "SEND_SHOT_TIME"
    <2>1. net'[p] = s /\ \A r \in Phone : r # p => net'[r] = net[r]
      BY <1>2 DEF TypeOK
    <2>2. net' \in [Phone -> Seq(Packet)]
      BY <1>2 DEF TypeOK
    <2> QED BY <1>2, <2>1, <2>2
  <1>3. CASE Lose(p)
    <2>1. PICK i \in DOMAIN net[p] :
            net' = [net EXCEPT ![p] = RemoveAt(@, i)] /\ lag' = [lag EXCEPT ![p] = 0]
      BY <1>3 DEF Lose
    <2>2. lag' \in [Phone -> Nat]
      BY <2>1 DEF TypeOK
    <2> DEFINE s == RemoveAt(net[p], i)
    <2>3. s \in Seq(Packet) /\ \A k \in DOMAIN s : \E l \in DOMAIN net[p] : s[k] = net[p][l]
      BY <1>1, RemoveAtElements
    <2>4. net' = [net EXCEPT ![p] = s]
      BY <2>1
    <2> HIDE DEF s
    <2> QED BY <1>2, <2>2, <2>3, <2>4
  <1>4. CASE Repeat(p)
    <2>1. PICK i \in DOMAIN net[p] :
            net' = [net EXCEPT ![p] = Append(net[p], net[p][i])] /\ lag' = lag
      BY <1>4 DEF Repeat
    <2>2. /\ Append(net[p], net[p][i]) \in Seq(Packet)
          /\ \A k \in DOMAIN Append(net[p], net[p][i]) :
               \E l \in DOMAIN net[p] : Append(net[p], net[p][i])[k] = net[p][l]
      BY <1>1, QueueElements, QueueTypes
    <2> QED BY <1>2, <2>1, <2>2 DEF TypeOK
  <1>5. CASE Overtake(p)
    <2>1. PICK i \in DOMAIN net[p] \ {1} :
            /\ net' = [net EXCEPT ![p][i - 1] = net[p][i], ![p][i] = net[p][i - 1]]
            /\ lag' = lag
      BY <1>5 DEF Overtake
    <2> DEFINE n == Len(net[p])
               s == [net[p] EXCEPT ![i - 1] = net[p][i], ![i] = net[p][i - 1]]
    <2>2. net' = [net EXCEPT ![p] = s]
      BY <2>1 DEF TypeOK
    <2>3. n \in Nat /\ net[p] \in [1 .. n -> Packet] /\ i \in 1 .. n /\ i - 1 \in 1 .. n
      BY <1>1, <2>1
    <2>4. DOMAIN s = 1 .. n /\ DOMAIN net[p] = 1 .. n
      BY <2>3
    <2>5. ASSUME NEW k \in 1 .. n PROVE s[k] \in Packet /\ \E l \in 1 .. n : s[k] = net[p][l]
      <3> HIDE DEF n
      <3>1. s[k] = net[p][i] \/ s[k] = net[p][i - 1] \/ s[k] = net[p][k]
        BY <2>3
      <3> HIDE DEF s
      <3> QED BY <2>3, <3>1
    <2>6. s \in [1 .. n -> Packet]
      <3> HIDE DEF n
      <3> QED BY <2>3, <2>5
    <2>7. s \in Seq(Packet)
      <3> HIDE DEF n, s
      <3> QED BY <2>3, <2>6, SeqDef
    <2> HIDE DEF s, n
    <2>8. \A k \in DOMAIN s : \E l \in DOMAIN net[p] : s[k] = net[p][l]
      BY <2>4, <2>5
    <2>9. lag' \in [Phone -> Nat]
      BY <2>1 DEF TypeOK
    <2> QED BY <1>2, <2>2, <2>7, <2>8, <2>9
  <1>6. CASE Restate(p)
    <2> DEFINE m == ShotTime(carShotTime[Other(p)])
    <2>1. PICK i \in DOMAIN net[p] :
            /\ net[p][i].id = "SEND_SHOT_TIME"
            /\ net' = [net EXCEPT ![p][i] = m]
            /\ lag' = lag
      BY <1>6 DEF Restate
    <2> DEFINE n == Len(net[p])
               s == [net[p] EXCEPT ![i] = m]
    <2>2. net' = [net EXCEPT ![p] = s]
      BY <2>1 DEF TypeOK
    <2>3. n \in Nat /\ net[p] \in [1 .. n -> Packet] /\ i \in 1 .. n
      BY <1>1, <2>1
    <2>4. m \in Packet
      BY PacketTypes, OtherPhone DEF TypeOK
    <2>5. DOMAIN s = 1 .. n /\ DOMAIN net[p] = 1 .. n
      BY <2>3
    <2> HIDE DEF m, n
    <2>6. \A k \in 1 .. n : s[k] = m \/ s[k] = net[p][k]
      BY <2>3
    <2>7. s \in [1 .. n -> Packet]
      BY <2>3, <2>4
    <2> HIDE DEF s
    <2>8. s \in Seq(Packet)
      BY <2>3, <2>7, SeqDef
    <2>9. \A k \in DOMAIN s : s[k] = m \/ \E l \in DOMAIN net[p] : s[k] = net[p][l]
      BY <2>5, <2>6
    <2>10. lag' \in [Phone -> Nat]
      BY <2>1 DEF TypeOK
    <2> QED BY <1>2, <2>1, <2>2, <2>8, <2>9, <2>10 DEF m
  <1> QED BY <1>3, <1>4, <1>5, <1>6
-----------------------------------------------------------------------------
(***************************************************************************)
(* What a step of the round does to the times a phone has taken.           *)
(***************************************************************************)

\* It takes none, takes and reports one, or takes one too late to report it.
TakesTime(p) ==
  \/ /\ carShotTime'[p] = carShotTime[p] /\ reports'[p] = reports[p]
     /\ endDuel[p] => endDuel'[p]
  \/ /\ carShotTime'[p] \in Int \ {0}
     /\ \/ ~endDuel[p] /\ reports'[p] = reports[p] \union {carShotTime'[p]}
        \/ endDuel[p] /\ endDuel'[p] /\ reports'[p] = reports[p]

\* sendShotTime does.
LEMMA SendTakesTime ==
  ASSUME TypeOK, NEW p \in Phone, NEW t \in Int, NEW g, SendShotTime(p, t, g)
  PROVE  \A r \in Phone : TakesTime(r)
  <1> DEFINE c == Reported(t)
  <1>1. c \in Int /\ c # 0
    BY DEF Reported
  <1>2. carShotTime' = [carShotTime EXCEPT ![p] = c]
    BY Zenon DEF SendShotTime
  <1>3. CASE endDuel[p]
    <2>1. UNCHANGED <<endDuel, reports>>
      BY <1>3, Zenon DEF SendShotTime
    <2> HIDE DEF c
    <2> QED BY <1>1, <1>2, <1>3, <2>1 DEF TakesTime, TypeOK
  <1>4. CASE ~endDuel[p]
    <2>1. /\ reports' = [reports EXCEPT ![p] = @ \union {c}]
          /\ endDuel' = endDuel \/ endDuel' = [endDuel EXCEPT ![p] = TRUE]
      BY <1>4, Zenon DEF SendShotTime, EndExchange
    <2> HIDE DEF c
    <2> QED BY <1>1, <1>2, <1>4, <2>1 DEF TakesTime, TypeOK
  <1> QED BY <1>3, <1>4

\* Every step does.
LEMMA StepTakesTime ==
  ASSUME TypeOK, Next
  PROVE  \A r \in Phone : TakesTime(r)
  <1> USE DEF exchangeVars
  <1>1. ASSUME UNCHANGED <<carShotTime, reports>>,
               \A r \in Phone : endDuel[r] => endDuel'[r]
        PROVE  \A r \in Phone : TakesTime(r)
    BY <1>1 DEF TakesTime
  <1>2. ASSUME NEW p \in Phone, Player(p) PROVE \A r \in Phone : TakesTime(r)
    <2>1. CASE LowerGun(p) \/ RaiseGun(p) \/ Trick(p) \/ ShootOn(p) \/ ShootTooEarly(p)
      <3>1. UNCHANGED <<carShotTime, reports, endDuel>>
        BY <2>1, Zenon DEF LowerGun, RaiseGun, Trick, ShootOn, ShootTooEarly
      <3> QED BY <1>1, <3>1
    <2>2. CASE RaiseTooEarly(p)
      <3> DEFINE g == Reading(gun[p], FALSE)
      <3>1. -g.clock \in Int
        <4>1. g \in Gun
          BY ReadingType DEF TypeOK
        <4>2. g.clock \in Nat
          BY <4>1, GunFields, Zenon
        <4> HIDE DEF g
        <4> QED BY <4>2
      <3>2. \E h : SendShotTime(p, -g.clock, h)
        BY <2>2, Zenon DEF RaiseTooEarly
      <3> HIDE DEF g
      <3> QED BY <3>1, <3>2, SendTakesTime
    <2>3. CASE Kill(p)
      <3>1. PICK now \in Now(p) :
              \E h : SendShotTime(p, Shoot(gun[p], now).clock - FireTime, h)
        BY <2>3, Zenon DEF Kill
      <3>2. now \in Nat
        BY GunFields, RoundAssumption DEF Now, TypeOK
      <3> DEFINE g == Shoot(gun[p], now)
      <3>3. g.clock - FireTime \in Int
        <4>1. g \in Gun
          BY <3>2, ShootType DEF TypeOK
        <4>2. g.clock \in Nat
          BY <4>1, GunFields, Zenon
        <4> HIDE DEF g
        <4> QED BY <4>2, RoundAssumption
      <3> QED BY <3>1, <3>3, SendTakesTime
    <2> QED BY <1>2, <2>1, <2>2, <2>3 DEF Player
  <1>3. ASSUME NEW p \in Phone, Clock(p) PROVE \A r \in Phone : TakesTime(r)
    <2>1. CASE Tick(p) \/ DuelTimerEnd(p) \/ DidDisappear(p)
      <3>1. UNCHANGED <<carShotTime, reports, endDuel>>
        BY <2>1, Zenon DEF Tick, DuelTimerEnd, DidDisappear
      <3> QED BY <1>1, <3>1
    <2>2. CASE FollSend(p)
      <3>1. \E h : SendShotTime(p, -gun[p].clock, h)
        BY <2>2, Zenon DEF FollSend
      <3>2. -gun[p].clock \in Int
        BY GunFields DEF TypeOK
      <3> QED BY <3>1, <3>2, SendTakesTime
    <2> QED BY <1>3, <2>1, <2>2 DEF Clock
  <1>4. ASSUME NEW p \in Phone, Receive(p) PROVE \A r \in Phone : TakesTime(r)
    <2>1. CASE ReceiveStartDuelTrue(p) \/ ReceiveAccelState(p) \/ ReceiveAccelStateTrue(p)
      <3>1. UNCHANGED <<carShotTime, reports, endDuel>>
        BY <2>1, Zenon DEF ReceiveStartDuelTrue, ReceiveAccelState, ReceiveAccelStateTrue
      <3> QED BY <1>1, <3>1
    <2>2. CASE ReceiveShotTime(p)
      <3>1. /\ UNCHANGED <<carShotTime, reports>>
            /\ endDuel' = endDuel \/ endDuel' = [endDuel EXCEPT ![p] = TRUE]
        BY <2>2, Zenon DEF ReceiveShotTime, EndExchange
      <3> QED BY <1>1, <3>1 DEF TypeOK
    <2> QED BY <1>4, <2>1, <2>2 DEF Receive
  <1> QED BY <1>2, <1>3, <1>4 DEF Next

-----------------------------------------------------------------------------
(***************************************************************************)
(* OverLinkInv is inductive.                                               *)
(***************************************************************************)
OverTypes == TypeOK /\ faults \in Nat /\ spoken \in [Phone -> SUBSET Int]

\* At first nothing was sent over the link.
LEMMA InitOverLink == OverInit => OverTypes /\ OverLinkInv
  <1> SUFFICES ASSUME OverInit PROVE OverTypes /\ OverLinkInv
    OBVIOUS
  <1>1. TypeOK /\ ExchangeInv
    BY InitTypes, InitExchange DEF OverInit
  <1>2. \A p \in Phone : Spoken(p)
    BY DEF OverInit, Init, Spoken
  <1> QED BY <1>1, <1>2 DEF OverInit, OverTypes, OverLinkInv

\* A step of the round keeps what is spoken reportable, and what is in flight
\* honest.
LEMMA PlayOverLink ==
  ASSUME OverTypes, OverLinkInv, Play
  PROVE  OverTypes' /\ OverLinkInv'
  <1>1. TypeOK' /\ carShotTime' \in [Phone -> Int]
    BY StepTypes DEF OverTypes, Play, TypeOK
  <1>2. /\ \A p \in Phone : spoken'[p] = spoken[p] \union ({carShotTime'[p]} \ {0})
        /\ faults' = faults
    BY DEF Play, OverTypes
  <1>3. OverTypes'
    <2>1. spoken' \in [Phone -> SUBSET Int]
      BY <1>1 DEF Play, OverTypes
    <2> QED BY <1>1, <1>2, <2>1 DEF OverTypes
  <1>4. \A p \in Phone : TakesTime(p)
    BY StepTakesTime DEF OverTypes, Play
  <1>5. ASSUME NEW p \in Phone PROVE Spoken(p)'
    <2>1. Spoken(p) /\ TakesTime(p) /\ spoken'[p] = spoken[p] \union ({carShotTime'[p]} \ {0})
      BY <1>2, <1>4 DEF OverLinkInv
    <2>2. CASE /\ carShotTime'[p] = carShotTime[p] /\ reports'[p] = reports[p]
               /\ endDuel[p] => endDuel'[p]
      <3>1. spoken'[p] = spoken[p]
        BY <2>1, <2>2 DEF Spoken
      <3> QED BY <2>1, <2>2, <3>1 DEF Spoken
    <2>3. CASE carShotTime'[p] # 0 /\ ~endDuel[p]
               /\ reports'[p] = reports[p] \union {carShotTime'[p]}
      <3>1. spoken'[p] = reports'[p]
        BY <2>1, <2>3 DEF Spoken
      <3> QED BY <2>3, <3>1 DEF Spoken
    <2>4. CASE carShotTime'[p] # 0 /\ endDuel[p] /\ endDuel'[p] /\ reports'[p] = reports[p]
      BY <2>1, <2>4 DEF Spoken
    <2> QED BY <2>1, <2>2, <2>3, <2>4 DEF TakesTime
  <1>6. ASSUME OnTime' PROVE OnTime
    BY <1>2, <1>4, <1>6 DEF OverLinkInv, Spoken, TakesTime, OnTime
  <1>7. OnTime' => ExchangeInv'
    BY <1>6, StepExchange DEF OverLinkInv, OverTypes, Play
  <1> QED BY <1>3, <1>5, <1>7 DEF OverLinkInv

\* What the link does to the packets keeps them honest.
LEMMA FaultOverLink ==
  ASSUME OverTypes, OverLinkInv, NEW p \in Phone, Fault(p)
  PROVE  OverTypes' /\ OverLinkInv'
  <1> USE DEF exceptNet, exchangeVars
  <1>1. /\ net' \in [Phone -> Seq(Packet)] /\ lag' \in [Phone -> Nat]
        /\ \A r \in Phone : \A k \in DOMAIN net'[r] :
              \/ \E l \in DOMAIN net[r] : net'[r][k] = net[r][l]
              \/ /\ net'[r][k] = ShotTime(carShotTime[Other(r)])
                 /\ \E l \in DOMAIN net[r] : net[r][l].id = "SEND_SHOT_TIME"
    BY FaultElements DEF Fault, OverTypes
  <1>2. /\ UNCHANGED <<gun, screen, accelState, btnStartClick, starts, spoken>>
        /\ UNCHANGED <<carShotTime, opShotTime, endDuel, tally, judged, reports>>
        /\ faults' = faults + 1
    BY DEF Fault
  <1>3. OverTypes'
    BY <1>1, <1>2 DEF OverTypes, TypeOK
  <1>4. \A r \in Phone : Spoken(r)'
    BY <1>2 DEF OverLinkInv, Spoken
  <1>5. ASSUME OnTime' PROVE ExchangeInv'
    <2>1. OnTime /\ ExchangeInv
      BY <1>2, <1>5 DEF OverLinkInv, OnTime
    <2>2. ASSUME NEW r \in Phone PROVE InFlight(r)'
      <3> DEFINE q == Other(r)
      <3>1. q \in Phone
        BY OtherPhone
      <3>2. InFlight(r)
        BY <2>1 DEF ExchangeInv
      <3>3. \A m : Honest(r, m) => Honest(r, m)'
        BY <1>2 DEF Honest
      <3>4. ASSUME NEW k \in DOMAIN net'[r], NEW m, m = net'[r][k] PROVE Honest(r, m)'
        <4>1. CASE \E l \in DOMAIN net[r] : net'[r][k] = net[r][l]
          BY <3>2, <3>3, <3>4, <4>1 DEF InFlight
        <4>2. CASE /\ net'[r][k] = ShotTime(carShotTime[q])
                   /\ \E l \in DOMAIN net[r] : net[r][l].id = "SEND_SHOT_TIME"
          <5>1. PICK l \in DOMAIN net[r] : net[r][l].id = "SEND_SHOT_TIME"
            BY <4>2
          <5>2. \/ net[r][l].time \in reports[q]
                \/ net[r][l].time = 0 /\ judged[q][1] = "exclusive"
            BY <3>2, <5>1 DEF InFlight, Honest
          <5>3. Spoken(q) /\ spoken[q] \subseteq reports[q]
            BY <2>1, <3>1 DEF OverLinkInv, OnTime
          <5>4. carShotTime[q] \in reports[q] \/ (carShotTime[q] = 0 /\ judged[q][1] = "exclusive")
            BY <5>2, <5>3 DEF Spoken
          <5>5. Honest(r, ShotTime(carShotTime[q]))
            BY <5>4 DEF Honest, ShotTime
          <5> QED BY <3>3, <3>4, <4>2, <5>5
        <4> QED BY <1>1, <4>1, <4>2
      <3> QED BY <3>4 DEF InFlight, Honest
    <2>3. ASSUME NEW r \in Phone
          PROVE  /\ 0 \notin reports'[r] /\ opShotTime'[r] \in reports'[Other(r)] \union {0}
                 /\ OwnTime(r)' /\ Witnessed(r)'
      BY <1>2, <2>1 DEF ExchangeInv, OwnTime, Witnessed
    <2> QED BY <2>2, <2>3 DEF ExchangeInv
  <1> QED BY <1>3, <1>4, <1>5 DEF OverLinkInv

\* The invariant holds throughout.
THEOREM OverLinkInvariant == OverSpec => [](OverTypes /\ OverLinkInv)
  <1>1. OverTypes /\ OverLinkInv /\ [OverNext]_<<vars, faults, spoken>>
          => (OverTypes /\ OverLinkInv)'
    <2> SUFFICES ASSUME OverTypes, OverLinkInv, [OverNext]_<<vars, faults, spoken>>
                 PROVE  (OverTypes /\ OverLinkInv)'
      OBVIOUS
    <2>1. CASE UNCHANGED <<vars, faults, spoken>>
      <3> USE <2>1 DEF vars, exchangeVars
      <3>1. OverTypes'
        BY DEF OverTypes, TypeOK
      <3>2. (\A p \in Phone : Spoken(p))' /\ OnTime' = OnTime
        BY DEF OverLinkInv, Spoken, OnTime
      <3>3. ExchangeInv => ExchangeInv'
        BY DEF ExchangeInv, OwnTime, InFlight, Honest, Witnessed
      <3> QED BY <3>1, <3>2, <3>3 DEF OverLinkInv
    <2>2. CASE Play
      BY <2>2, PlayOverLink
    <2>3. CASE \E p \in Phone : Fault(p)
      BY <2>3, FaultOverLink
    <2> QED BY <2>1, <2>2, <2>3 DEF OverNext
  <1> QED BY <1>1, InitOverLink, PTL DEF OverSpec

-----------------------------------------------------------------------------
(***************************************************************************)
(* However the link treats the packets, two phones that settled a round on *)
(* one report each, with no time taken afterwards, agree on its result     *)
(* (startCycle, receivePacket under receiveData).                          *)
(***************************************************************************)
THEOREM AgreementOverLinkHolds == OverSpec => []AgreementOverLink
  <1>1. OverTypes /\ OverLinkInv => AgreementOverLink
    BY AgreementFromInv DEF OverTypes, OverLinkInv, AgreementOverLink
  <1> QED BY <1>1, OverLinkInvariant, PTL

(***************************************************************************)
(* Under the same condition the winner is the right one.                   *)
(***************************************************************************)
THEOREM RightWinnerOverLinkHolds == OverSpec => []RightWinnerOverLink
  <1>1. OverTypes /\ OverLinkInv => RightWinnerOverLink
    BY RightWinnerFromInv DEF OverTypes, OverLinkInv, RightWinnerOverLink
  <1> QED BY <1>1, OverLinkInvariant, PTL

\* Both, of every round the two phones play over the link.
THEOREM JudgedOverLinkHolds == OverSpec => []JudgedOverLink
  <1>1. AgreementOverLink /\ RightWinnerOverLink => JudgedOverLink
    BY DEF JudgedOverLink
  <1> QED BY <1>1, AgreementOverLinkHolds, RightWinnerOverLinkHolds, PTL
==============================================================================
