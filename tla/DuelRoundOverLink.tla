--------------------------- MODULE DuelRoundOverLink ---------------------------
(***************************************************************************)
(* A round over the link as it really is.  DuelRound lets packets travel in*)
(* order, each once and as it was sent.  The link (MultiplayerServer- and  *)
(* MultiplayerClientViewController) keeps one packet at a time, repeats it *)
(* until any acknowledgement comes, copying gameStat anew each time, and   *)
(* recognises a repetition by the packet's number alone.                   *)
(***************************************************************************)
EXTENDS DuelRound, SequencesExt

CONSTANT MaxFaults   \* bound on how often the link does one of the things below

ASSUME FaultAssumption == MaxFaults \in Nat

VARIABLES
  faults,   \* how often it has
  spoken    \* history: the times each phone has taken, judged or not

exceptNet == <<gun, screen, accelState, btnStartClick, starts, exchangeVars>>

\* The next packet took its place in the link before it arrived, a late
\* acknowledgement of the one before ended its repetition, or it was taken for a
\* repetition of a packet with its number.
Lose(p) ==
  \E i \in DOMAIN net[p] :
    /\ net' = [net EXCEPT ![p] = RemoveAt(@, i)]
    /\ lag' = [lag EXCEPT ![p] = 0]

\* It is repeated after a packet with another number; an ACCEL_STATE is never
\* taken for a repetition.
Repeat(p) ==
  \E i \in DOMAIN net[p] :
    /\ net[p][i].id # Last(net[p]).id \/ net[p][i].id = "ACCEL_STATE"
    /\ net' = [net EXCEPT ![p] = Append(@, net[p][i])]
    /\ UNCHANGED lag

\* A later packet arrives first.
Overtake(p) ==
  \E i \in DOMAIN net[p] \ {1} :
    /\ net' = [net EXCEPT ![p][i - 1] = net[p][i], ![p][i] = net[p][i - 1]]
    /\ UNCHANGED lag

\* A shot time is lost and its repetition arrives, with the time the sender has
\* by then: sendShotTime writes gameStat even when it sends nothing.
Restate(p) ==
  \E i \in DOMAIN net[p] :
    /\ net[p][i].id = "SEND_SHOT_TIME"
    /\ net' = [net EXCEPT ![p][i] = ShotTime(carShotTime[Other(p)])]
    /\ UNCHANGED lag

Fault(p) ==
  /\ faults < MaxFaults
  /\ faults' = faults + 1
  /\ Lose(p) \/ Repeat(p) \/ Overtake(p) \/ Restate(p)
  /\ UNCHANGED <<exceptNet, spoken>>

\* A step of the round.
Play ==
  /\ Next
  /\ spoken' = [p \in Phone |-> spoken[p] \union ({carShotTime'[p]} \ {0})]
  /\ UNCHANGED faults

OverInit == Init /\ faults = 0 /\ spoken = [p \in Phone |-> {}]
OverNext == Play \/ \E p \in Phone : Fault(p)
OverSpec == OverInit /\ [][OverNext]_<<vars, faults, spoken>>
-----------------------------------------------------------------------------
\* No phone took a time once it had judged the exchange.
OnTime == \A p \in Phone : spoken[p] \subseteq reports[p]

(***************************************************************************)
(* Lost, repeated, reordered and restated packets do not make the phones   *)
(* disagree, unless a foul is noticed after the round was judged (follSend,*)
(* two seconds late) and slips into a repetition.                          *)
(***************************************************************************)
AgreementOverLink == OnTime => Agreement

\* Nor do they make the wrong player win.
RightWinnerOverLink == OnTime => RightWinner

\* The two phones' judgements, as far as the link leaves them right.
JudgedOverLink == AgreementOverLink /\ RightWinnerOverLink

(***************************************************************************)
(* Why: what a phone can still send is what it has reported, or 0 if it    *)
(* never shot; so every packet stays honest.                               *)
(***************************************************************************)
Spoken(p) ==
  /\ reports[p] \subseteq spoken[p]
  /\ ~endDuel[p] => spoken[p] = reports[p]
  /\ IF carShotTime[p] = 0 THEN spoken[p] = {} ELSE carShotTime[p] \in spoken[p]

OverLinkInv ==
  /\ \A p \in Phone : Spoken(p)
  /\ OnTime => ExchangeInv
=============================================================================
