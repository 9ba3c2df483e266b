------------------------------ MODULE DuelMatch ------------------------------
(***************************************************************************)
(* What holds of the two phones of a match and of the packets between      *)
(* them at every moment: the inductive invariant behind the properties of  *)
(* DuelSession.                                                            *)
(*                                                                         *)
(* Everything is said of one phone g, of the other one h, of the kinds U   *)
(* of the packets under way to g and V of those under way to h, and of the *)
(* results R that the shot times among the former carry.                   *)
(***************************************************************************)
EXTENDS DuelSession

\* On the result screen of a round that did not end the duel; or of one that did,
\* or back on the main screen after it.
Undecided(g) == g.view = "final" /\ ~g.lastDuel
Decided(g)   == g.view \in {"final", "list"} /\ g.lastDuel
Level(g)     == g.view \in {"start", "duel"} \/ Undecided(g)

\* The books of one player.
Books(g) ==
  /\ g.copies \in {0, 1} /\ (g.copies = 1 => g.lastDuel)
  /\ g.money >= 0
  /\ g.booked + g.copies * g.amount = g.money - Money

\* The duel as one phone has it.
Verdict(g) ==
  /\ g.won + g.lost <= 1
  /\ g.won + g.lost > 0 => g.lastDuel /\ g.view \in {"final", "list"} /\ ~g.tried
  /\ g.tally.win <= 2 /\ g.tally.lose <= 2 /\ g.tally.number = g.tally.win + g.tally.lose
  /\ (g.tally.win = 2 => g.won = 1) /\ (g.tally.lose = 2 => g.lost = 1)
  /\ g.view = "start" \/ g.tried => g.tally.win = 0 /\ g.tally.lose = 0

\* Its screens.
Screens(g) ==
  /\ g.open \/ g.view = "list"
  /\ g.view = "final" => g.hasFinal
  /\ g.view \in {"start", "duel"} \/ g.waiting \/ g.tried => ~g.endDuel
  /\ g.view = "start" => (g.btnStartClick <=> g.server) /\ (g.server => g.waiting \/ ~g.mayStart)
  /\ g.tried => ~g.btnStartClick /\ g.view # "duel" /\ (g.view = "start" \/ g.waiting \/ ~g.open)
  /\ Undecided(g) /\ g.waiting => g.btnStartClick

Sound(g) == Books(g) /\ Verdict(g) /\ Screens(g)

\* What a packet under way to g says of the two phones.
Arriving(g, h, U, V) ==
  /\ "TIME" \in U =>
       /\ g.view = "list" /\ ~g.lastDuel /\ V = {} /\ ~h.lastDuel
       /\ h.view = "list" \/ (h.view = "start" /\ ~h.btnStartClick /\ ~h.waiting)
  /\ "OPONTYPE_RESPONSE" \in U =>
       g.view = "start" /\ ~g.tried /\ ~g.mayStart /\ ~g.btnStartClick /\ ~g.waiting
  /\ "OPONTYPE_RESPONSE_TRY" \in U =>
       /\ g.tried /\ h.lastDuel /\ (h.view \in {"start", "duel"} \/ ~h.open)
       /\ g.view = "final" => V = {}
  /\ "TIME_TRY" \in U =>
       /\ g.view # "start" /\ (Undecided(g) => "RUN_AWAY" \in U)
       /\ h.tried /\ h.lastDuel /\ (h.view \in {"start", "final"} \/ ~h.open)
       /\ "OPONTYPE_RESPONSE_TRY" \notin V
  /\ "DUEL_CANSEL" \in U =>
       /\ g.view # "start" /\ (Undecided(g) => "RUN_AWAY" \in U)
       /\ h.lastDuel /\ h.view \in {"list", "start"}
  /\ "RUN_AWAY" \in U => (Undecided(g) \/ "SEND_SHOT_TIME" \in U) /\ h.lastDuel /\ h.won = 0
  /\ "SEND_SHOT_TIME" \in U => g.view = "duel" /\ V = {} /\ h.view \in {"final", "list"}
  /\ "START_DUEL_TRUE" \in U =>
       /\ g.tried => "OPONTYPE_RESPONSE_TRY" \in U
       /\ h.view = "duel" \/ "SEND_SHOT_TIME" \in U \/ ~h.open
       /\ \/ g.view = "duel"
          \/ /\ g.waiting \/ g.view = "start"
             /\ U \subseteq {"START_DUEL", "OPONTYPE_RESPONSE_TRY", "START_DUEL_TRUE", "START_DUEL_FALSE"}
       /\ ~(Decided(g) /\ ~g.tried)
  /\ "START_DUEL" \in U =>
       /\ Decided(g) \/ (Undecided(g) /\ ~g.waiting) => ~g.btnStartClick
       /\ g.view = "start" \/ g.tried =>
            g.btnStartClick \/ "OPONTYPE_RESPONSE" \in U \/ "OPONTYPE_RESPONSE_TRY" \in U
       /\ h.view = "start" \/ Undecided(h) => h.waiting
  /\ "START_DUEL_FALSE" \in U => ~h.open
  /\ g.view = "duel" /\ U \intersect {"START_DUEL", "TIME_TRY", "DUEL_CANSEL"} # {}
       => "SEND_SHOT_TIME" \in U

\* Where g is, and where h is then.
Together(g, h, U, V) ==
  /\ (g.won = 0 \/ h.won = 0) /\ (g.lost = 0 \/ h.lost = 0)
  /\ Undecided(h) /\ (g.lost > 0 \/ (Decided(g) /\ g.open)) => "RUN_AWAY" \in V
  /\ Undecided(g) /\ ~g.waiting /\ g.btnStartClick /\ h.open => Undecided(h) /\ h.waiting
  /\ g.tried /\ g.open /\ h.open => "TIME_TRY" \in V \/ "OPONTYPE_RESPONSE_TRY" \in U
  /\ g.view = "start" /\ h.open =>
       h.view \in {"start", "duel"} \/ (h.view = "final" /\ h.tried) \/ "TIME" \in V
  /\ g.view = "list" /\ ~g.lastDuel /\ g.open => "TIME" \in U
  /\ g.view = "duel" /\ h.open /\ h.view \in {"final", "list"} =>
       "SEND_SHOT_TIME" \in U \/ (Undecided(h) /\ h.waiting /\ "START_DUEL_TRUE" \in V)
  /\ h.view = "start" /\ ~h.server /\ ~h.waiting /\ h.mayStart /\ g.open =>
       (g.view = "start" /\ g.server) \/ "OPONTYPE_RESPONSE" \in U \/ "OPONTYPE_RESPONSE_TRY" \in U

Win(g, r)  == g.tally.win + (IF r = "won" THEN 1 ELSE 0)
Lose(g, r) == g.tally.lose + (IF r = "lost" THEN 1 ELSE 0)

\* A result on its way to g fits what h has made of it; and the two agree on the
\* rounds they have had.
Scored(g, h, U, V, R) ==
  /\ "none" \notin R
  /\ "SEND_SHOT_TIME" \notin U => R = {}
  /\ \A r \in R :
       /\ (Win(g, r) = 2 \/ Lose(g, r) = 2) <=> (h.lastDuel /\ "RUN_AWAY" \notin U)
       /\ Win(g, r) = 2 => h.won = 0
       /\ Lose(g, r) = 2 => h.lost = 0
       /\ Undecided(h) => Win(g, r) = h.tally.lose /\ Lose(g, r) = h.tally.win
  /\ Level(g) /\ Level(h) /\ (U \union V) \intersect {"SEND_SHOT_TIME", "RUN_AWAY", "TIME_TRY"} = {}
       => g.tally.win = h.tally.lose /\ g.tally.lose = h.tally.win

Toward(g, h, U, V, R) ==
  /\ g.open \/ U = {}
  /\ Arriving(g, h, U, V) /\ Together(g, h, U, V) /\ Scored(g, h, U, V, R)

Match(g, h, U, V, R, Q) ==
  Sound(g) /\ Sound(h) /\ Toward(g, h, U, V, R) /\ Toward(h, g, V, U, Q)

\* A packet x may be under way ahead of a packet y.
Ahead(x, y) ==
  \/ y = "SEND_SHOT_TIME" /\ x = "START_DUEL_TRUE"
  \/ y = "RUN_AWAY" /\ x \in {"START_DUEL_TRUE", "SEND_SHOT_TIME"}
  \/ y = "START_DUEL_TRUE" /\ x \in {"START_DUEL", "OPONTYPE_RESPONSE_TRY"}
  \/ y = "OPONTYPE_RESPONSE_TRY" /\ x \in {"DUEL_CANSEL", "TIME_TRY"}
  \/ y = "START_DUEL" /\ x \in {"START_DUEL_TRUE", "SEND_SHOT_TIME", "OPONTYPE_RESPONSE_TRY",
                                "DUEL_CANSEL", "TIME_TRY", "OPONTYPE_RESPONSE"}
  \/ y \in {"TIME_TRY", "DUEL_CANSEL"} /\
       x \in {"START_DUEL", "START_DUEL_TRUE", "SEND_SHOT_TIME", "RUN_AWAY"}
  \/ y = "START_DUEL_FALSE" /\ x # y

\* START_DUEL overtakes START_DUEL_TRUE or TIME_TRY only with another packet.
Between(x, y, U) ==
  /\ x = "START_DUEL_TRUE" /\ y = "START_DUEL" => "SEND_SHOT_TIME" \in U
  /\ x = "TIME_TRY" /\ y = "START_DUEL" => "OPONTYPE_RESPONSE_TRY" \in U

Kinds(q) == {q[i].id : i \in DOMAIN q}
Results(q) == {q[i].result : i \in {j \in DOMAIN q : q[j].id = "SEND_SHOT_TIME"}}

InOrder(q) ==
  \A i, j \in DOMAIN q : i < j => Ahead(q[i].id, q[j].id) /\ Between(q[i].id, q[j].id, Kinds(q))

\* TIME and OPONTYPE_RESPONSE are the first packets to reach a phone, if they do, and
\* no clock has started before.
Opening ==
  \A p \in Phone :
    LET o == Other(p) IN
    /\ \A i \in DOMAIN net[p] : net[p][i].id \in {"TIME", "OPONTYPE_RESPONSE"} => i = 1
    /\ "TIME" \in Kinds(net[p]) =>
         /\ ph[p].view = "list" /\ net[o] = << >>
         /\ ph[o].open => ph[o].view = "start" /\ ~ph[o].mayStart
    /\ "OPONTYPE_RESPONSE" \in Kinds(net[p]) => ph[p].view = "start" /\ ~ph[p].mayStart
    /\ clock[p] =>
         /\ Kinds(net[p]) \intersect {"TIME", "OPONTYPE_RESPONSE"} = {}
         /\ "TIME" \notin Kinds(net[o])

MatchInv ==
  \A p \in Phone :
    LET o == Other(p) IN
    /\ InOrder(net[p])
    /\ Sound(ph[p])
    /\ Toward(ph[p], ph[o], Kinds(net[p]), Kinds(net[o]), Results(net[p]))

\* The crossings that MatchInv does not survive.
NoCrossing == Without({"bothRanAway", "limitAlone", "lateStart"})
MatchHolds == NoCrossing => MatchInv
-----------------------------------------------------------------------------
(***************************************************************************)
(* The players' money.  U, V, R and Q are as above; N is what the packets  *)
(* under way to g that introduce h say of h's money, T of the round's      *)
(* delay.                                                                  *)
(***************************************************************************)
Introducing == {"TIME", "OPONTYPE_RESPONSE", "TIME_TRY", "OPONTYPE_RESPONSE_TRY"}
Asking == {"TIME", "TIME_TRY"}
Monies(q) == {q[i].money : i \in {j \in DOMAIN q : q[j].id \in Introducing}}
Times(q) == {q[i].randomTime : i \in {j \in DOMAIN q : q[j].id \in Asking}}

\* What is under way to g decides the duel for g, or against it.
Owed(g, U, R) == "RUN_AWAY" \in U \/ \E r \in R : Win(g, r) = 2
Owes(g, R)    == \E r \in R : Lose(g, r) = 2

Told(h, N) == \A m \in N : m = h.money

\* g knows what h owns.
Knows(g, h, U, V, R) ==
  /\ Level(g) /\ h.open /\ "TIME" \notin V /\ "OPONTYPE_RESPONSE" \notin U
  /\ ~Owed(g, U, R) /\ ~Owes(g, R)
  => g.opMoney = h.money

Purse(g, h, U, V, R, N) ==
  Told(h, N) /\ Knows(g, h, U, V, R) /\ (Undecided(h) => g.won = 0)

\* What is under way to g will bring it.
Due(g, U, R) ==
  IF Owed(g, U, R) THEN Tenth(g.opMoney)
  ELSE IF Owes(g, R) THEN -Tenth(g.money) ELSE 0

\* The match was cut off before g was told how the duel ended.
CutOff(g) == ~g.open /\ g.won = 0 /\ g.lost = 0

Balance(g, h, U, V, R, Q) ==
  CutOff(g) \/ CutOff(h) \/ g.money + h.money + Due(g, U, R) + Due(h, V, Q) = 2 * Money

Purses ==
  \A p \in Phone :
    LET o == Other(p) IN
    Purse(ph[p], ph[o], Kinds(net[p]), Kinds(net[o]), Results(net[p]), Monies(net[p]))
Balanced ==
  \A p \in Phone :
    LET o == Other(p) IN
    Balance(ph[p], ph[o], Kinds(net[p]), Kinds(net[o]), Results(net[p]), Results(net[o]))

(***************************************************************************)
(* The moment of "FIRE!": the asked phone takes over the delay that the    *)
(* asking one chose.                                                       *)
(***************************************************************************)
Alike(g, h, U, V, T) ==
  /\ \A t \in T : t = h.randomTime
  /\ "OPONTYPE_RESPONSE_TRY" \in U => g.randomTime = h.randomTime
  /\ "TIME_TRY" \in U => "OPONTYPE_RESPONSE_TRY" \notin U /\ h.view # "start"
  /\ Level(h) /\ (Level(g) \/ g.tried) /\ (U \union V) \intersect Asking = {}
       => g.randomTime = h.randomTime
AllAlike ==
  \A p \in Phone :
    LET o == Other(p) IN
    Alike(ph[p], ph[o], Kinds(net[p]), Kinds(net[o]), Times(net[p]))

PursesHold == NoCrossing => Purses
AlikeHolds == NoCrossing /\ Without({"twoTries"}) => AllAlike
=============================================================================
