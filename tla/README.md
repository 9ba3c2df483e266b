# Cowboy Duel: TLA+ models and proofs

Cowboy Duel is an iPhone game. Two players find each other over the network, hold their
phones down like holstered guns and, on "FIRE!", raise them and shoot; the faster one wins
the round, the better of three rounds wins the duel and a tenth of the opponent's money.
This directory models the program's own logic (Objective-C under `src/Cowboy Duel/`) and the
parts of the GameSpy SDK it stands on (C, same directory) in TLA+, checks the models with TLC
on small instances, and proves the properties that matter most with TLAPS for every value of
the constants.

## 1. The system

| Part | Source (`src/Cowboy Duel/`) | State it keeps | Operations |
|---|---|---|---|
| The gun | `DuelViewController.m`, `DuelViewControllerWithXib.m` | sensor state, clock (`shotTime`), bullets and shots, foul flags | accelerometer callback, 10 ms `shotTimer`, trigger (`buttonClick`), delayed `follSend`, `startDuel` |
| The duel's exchange | `GameCenterViewController.m` | own and opponent's shot time, `endDuel`, `accelState`, the match's tallies, who asked for what (`btnStartClick`, `server`, `isTryAgain`, `userEndMatch`, `opponentEndMatch`) | `receiveData` (one case per packet), `sendShotTime`, `duelTimerEnd`, `startDuel`, `nextDuelStart`, `matchStarted`, `matchStartedTry`, `matchCanseled`, `lostConnection` |
| The result screen | `FinalViewController.m`, `DuelRewardLogicController.m` | what the round and the duel came to; money, points, level | scoring in `initWithUserTime:`, `winScene`, `loseScene`, `lastScene`, `runAway`, the buttons |
| The start screen | `DuelStartViewController.m` | 7 s waiting timer | start, cancel, time out |
| The link | `MultiplayerServerViewController.m`, `MultiplayerClientViewController.m` | one packet being sent, last packet received, ping time | `sendDataData`, `receivePacket`, `startCycle` (retry), `pingTime` |
| The server and the search | the same two files | `isRunServer`, `neadRestart`, the phases of the search | `createServer`, `shutDownServer`, `createBrouser` |
| The account | `AccountDataSource.m`, `StartViewController.m`, `CDTransaction.m`, `CDDuel.m` | money, transactions and duels not yet reported, a copy of each on disk | append, save, send to the server, answer |
| NAT negotiation | `natneg/natneg.c`, `natneg/NATify.c` | a negotiator per attempt: state, retries, what was heard; flags of a detection | begin, cancel, think, one handler per packet |
| gt2 | `gt2/*.c` | serial numbers, messages sent and held, state of a connection, frames inside callbacks | connect, accept, send, close, think, one handler per message |
| Query and reporting | `qr2/qr2.c` | ages of the last heartbeats, recent client messages, challenges | think, state changed, one handler per query |
| Server browsing | `serverbrowsing/*.c` | the list's stream, two queues of queries, the server list | update, think, one handler per message and reply |
| Lists, practice, login, shop, screens | `ListOfItemsViewController.m`, `TeachingViewController.m` and others | | not modelled (section 5) |

The callbacks of one phone all run on its main run loop, one after another; the two phones
interleave freely, and everything they know of each other arrives in packets. A packet
carries the whole `gameInfo` record; `receiveData` looks at its number and at a few fields.
The link sends one packet at a time and repeats it until it is acknowledged; its threads share
one static buffer and one receive buffer with the main thread, without a lock.

### What is hard

* **Two phones, one decision.** Each phone judges the round by itself, by tests that differ
  between sending and receiving, with reports crossing on the way.
* **Callbacks in any order.** The sensor, the trigger, the 10 ms timer, a `follSend` scheduled
  two seconds ago and a packet compete for the same flags.
* **Requests that cross.** NEXT, RUN AWAY, TRY AGAIN and BACK are pressed on both phones while
  the other's packet is under way, and packets carry no round.
* **Money** that is moved on two phones separately, kept in memory, on disk and on a server.
* **Threads** of the link and of the server that race with the main thread.
* **Time limits** that race with answers: 30 s for a round, 7 s for an answer, ten tries of half
  a second for a packet, the retries of natneg, gt2 and the query engine.
* **Callbacks of a library** that call back into it and free what its functions go on using.

The hazards are listed one by one, at their lines, in `PROJECT.json`.

## 2. Modules

| Module | What it models |
|---|---|
| `Phones`, `RoundScore` | the two phones and the results of a round; the result screen's tallies (pure) |
| `DuelRound` | one round on two phones: gun, readiness handshake, exchange of shot times, scoring |
| `RoundContract` | what a round promises the match around it; abstract |
| `DuelRoundOverLink` | the same round when the link loses, repeats, reorders or restates packets |
| `DuelSession` | the match around the rounds: start screen, next round, run away, try again, back, the money |
| `DuelMatch` | what holds at every moment of a match: the inductive invariants behind the properties of `DuelSession` |
| `PacketLink`, `LinkContract` | the link with its threads; the unreliable channel it promises, abstract |
| `LinkOrder` | what holds at every moment of the link unless threads cross: the inductive invariant (`OrderInv`) behind `NotTwice` and `AckedMeansTaken` |
| `ServerLifecycle` | the server on which a player can be found: its thread against the main thread |
| `AccountLedger` | money, transactions and duels in memory, on disk and at the server |
| `NatNegotiation`, `NatDetection` | two clients negotiating through a matchup server; finding out the kind of NAT device |
| `Gt2Reliable`, `Gt2Connection`, `Gt2Sockets` | serial numbers and resends; the life of a connection; what callbacks may call |
| `Qr2`, `Qr2Reply` | heartbeats, client messages, challenges; replies split over several packets |
| `ServerBrowsing`, `SbList`, `ClientSearch` | the query engine and the list; the list's stream; the search for one host |
| `MCDuelRound`, `MCDuelRoundOverLink`, `MCDuelSession`, `MCPacketLink`, `MCClientSearch` | instances of one module for TLC |
| `MCServices`, `MCNat`, `MCGt2`, `MCBrowsing` | instances of several that share nothing: `part` says which of them a behaviour is about, the variables of the others do not move |
| `DuelRoundProofs` | theorems about a round, alone and over the link |
| `MatchSteps`, `DuelSessionProofs` | theorems about a match |
| `PacketLinkProofs` | theorems about the link |
| `ServicesProofs` | theorems about the game server and the account |
| `NatProofs` | theorems about a negotiation and a detection |
| `Gt2Proofs` | theorems about reliable messages, connections and callbacks |
| `BrowsingProofs` | theorems about a host that reports itself, its replies, the list and the browser |

`DuelRoundOverLink` extends `DuelRound` by faults of the link, and `PacketLink` implements the
channel (`LinkContract`) whose faults those are. `DuelRound` instantiates
`RoundContract` and implements it (`KeepsContract`); `DuelSession` takes its rounds from that
contract, so that the match can be explored without exploring every shot of every round.

### 2.1 `DuelRound` and the code

| State | Code |
|---|---|
| `gun[p]` | the ivars of `DuelViewController` and its base class, field by field (see the comment above `Gun`); times are in abstract units, `clock` counts `shotTimer`'s ticks |
| `screen[p]` | what is on top: waiting for the duel screen, the duel screen, the duel screen while the result screen slides over it (`leaving`), the result screen |
| `accelState`, `carShotTime`, `opShotTime`, `endDuel`, `btnStartClick` | the ivars of `GameCenterViewController` of those names |
| `tally[p]` | `mutchNumber`, `mutchNumberWin`, `mutchNumberLose` |
| `net[p]`, `lag[p]` | packets on their way to phone `p`, and how long the oldest has been waiting |
| `judged`, `reports`, `starts` | history variables; no code |

An action is one callback of the main run loop, whole: the accelerometer
(`LowerGun`, `RaiseGun`, `RaiseTooEarly`, `Trick`), the trigger (`Kill`, `ShootOn`,
`ShootTooEarly`), the 10 ms timer (`Tick`), the 30 s limit (`DuelTimerEnd`), the `follSend`
scheduled two seconds ahead (`FollSend`), the end of a screen change (`DidDisappear`) and one
action per packet of `receiveData`. `SendShotTime` is `sendShotTime` with everything it calls:
it is part of each action that calls it. The two orders of judging are two operators,
`JudgeOnSend` and `JudgeOnReceive`, because the code has two different lists of tests.

### 2.2 `DuelSession` and the code

One record per phone (`ph[p]`) holds the screen on top, whether an activity indicator covers it,
and the ivars of `GameCenterViewController`, `DuelStartViewController` and the last
`FinalViewController` that decide what happens next; the comment above `Local` names each field.
`StartButton`, `CancelButton`, `NextButton`, `RunAwayButton`, `BackButton`, `TryButton` and `DuelBackButton` are the
buttons with all they call (`BackButton` is the BACK of the result screen, `DuelBackButton` that of the duel screen), `WaitTimer` is `waitTimerTick`,
`ReceiveX` is the case of `receiveData` for packet X. `ClockStarts`, `Hit`, `FirstToSettle`, `NobodyShot`, `LimitAlone` and
`ReceiveShotTime` are a round as `RoundContract` allows it: the clocks start, the first phone gets some result,
the other the opposite one when the shot time arrives, or the 30 s end. `clock[p]` is the `shotTimer` of the phone's last duel screen;
it is no field of `ph[p]` because it lives on when the screen is left, and ends on whatever is on top then.

Some crossings of the players' buttons lead the code astray. `mishaps` records which have
happened, and a property that fails after one of them says so in its formula:

| Mishap | What the code does |
|---|---|
| `bothRanAway` | both press RUN AWAY: each pays, and then wins on the other's RUN_AWAY (run `match_winner_takes`) |
| `twoTries` | both press TRY AGAIN: each takes the other's `randomTime`, so that they get different times for FIRE, and both become `server`; the 7 s timer is started twice, and the first, forgotten, ends the duel when it fires |
| `lateStart` | NEXT crosses with RUN AWAY or TRY AGAIN: START_DUEL carries no round and is taken as consent to another duel |
| `limitAlone` | the 30 s of a round end on one phone only: the other has hit, or one of the two has left the duel screen with its clock running. A result screen comes up, also over the main screen and with the connection closed (section 3.2) |
| `leftDuel` | a player leaves the duel screen with its BACK: `lostConnection`, and no packet. Only `NextRoundStarts` makes this an exception |
| `calledBack` | a player on the main screen is asked for another duel: `userEndMatch` stays set, and the new start screen has no timer |

`MoneyMoves` asks more than that both have settled alike: a forgotten 7 s timer that fires
between two packets cuts the match off before the loser is told, who then never pays. Such a
match does not count unless the duel was won on one of the phones.

### 2.3 The link and what lies under it

In `DuelRound` and `DuelSession` packets arrive in order and once. `DuelRoundOverLink` gives that up for a round.
Its faults are what `LinkContract` allows, and `PacketLink` implements that contract: a packet
that arrives has the number of one that was sent, with contents at least as new; it may be lost, repeated, overtaken.
`PacketLink` splits `sendDataData`, `startCycle`, `sendCycle` and `receivePacket` where another
thread can run: the slot of the packet to repeat, the header in the static buffer, the hand-over of the
receive buffer to the main thread.
A packet sent just before a phone closes the connection is delivered in `DuelSession`; if it is lost,
`LinkLost` (the link's own notice, `messageShow`) has the same result a little later.

### 2.4 Outside a match

`ServerLifecycle` has the main thread (`shutDownServer`, `startServer`, the player's calls) and one thread per
`createServer`; `query` is qr2's one record, `crossed` what overlapped. `AccountLedger` has the
three places a transaction can be in, one buffer per address, and a restart.

The GameSpy modules follow the C files handler by handler. Where a peer is not in the repository
(the matchup server, the master server, a NAT device) it may do whatever the protocol lets it, and the network
loses, repeats and delays. `Gt2Sockets` puts the functions' frames on a stack, one step of the top frame
being one action, so that a callback may call the library again; `may` says what the program calls there and whether the network fails, `Conn` which connections there are. In `Gt2Connection` `may` says who closes, and how, and bounds what happens.
`Qr2` keeps ages, of which only the order counts; `Qr2Reply` and `SbList` keep the sizes of what is cut, and what is
taken for what, and leave out the bytes.

## 3. What is checked

Each run explores everything its instance can do: the callbacks of the two phones, the packets and the
threads in every order. "Seeded faults" in the modules (operators whose comment says so) are plausible bugs;
replacing the mapped definition by the faulty one must break the property named with it in `PROJECT.json` under
`mutants`. They belong to no specification.

| Run | Bounds | Shows |
|---|---|---|
| `round_safety` | FIRE at 3, limit 6, 2 bullets, lag 2 | `Agreement`, `RightWinner`: the phones' separate judgements are opposite and right; `StartOnce`, `ScoredOnce`: no clock starts twice and no round is scored twice; `KeepsContract`: a round implements `RoundContract` |
| `round_liveness` | FIRE at 2, limit 4, 1 bullet | `FoulSettles`, `HitsSettle`: a foul, and two hits, end in a judgement on both phones |
| `over_link` | FIRE at 2, limit 4, 1 fault of the link | `JudgedOverLink`: both judgements still opposite and right, unless a time is taken after judging |
| `match_safety` | $100 each, 2 random times, 1 further duel | `SettledOnce`: a duel is won or lost once and by one player, and booked once; `MoneyMoves`: money is moved, not made; `FairRound`: both phones begin a round with the same scores and the same FIRE; `MatchHolds`: the inductive invariant of section 4 |
| `match_tries` | 1 random time, 3 further duels, players who leave the duel screen | `NextRoundStarts`: two who press NEXT both get their duel screen, unless one leaves it first; `EndTakesBoth`, `NotBothLockedOut` |
| `match_winner_takes` | 1 duel | violates `WinnerTakesFromLoser` (finding) |
| `link` | the guest sends twice, the host once, 1 repetition each | `LinkHolds`: the types and the inductive invariants of section 4; `NotTwice`, `AckedMeansTaken`, `RepeatersEnd`; `KeepsLinkContract`: the link implements `LinkContract` |
| `services` | 4 calls and 3 threads of the server; 2 payments, 3 requests, 1 restart | `ServersApart`, `HostNoticesLoss`, `FoundAgain`; `TransactionsKept`, `MoneyAgrees`; `ServicesHold`: a caller is not listed, and the types and inductive invariants of both |
| `nat` | a negotiation with 1 packet lost, repeated or late, one with the matchup server's queue; 2 detections with 1 answer lost | `SuccessMeansBothHeard`, `CompletedOnce`; `NeverMisled`: no device is taken for more open than it is and no client is told that its partner is missing when the partner succeeds, with the inductive invariants of section 4; `FirstFindsDevice` |
| `gt2` | 5 messages over serial numbers 6, 7, 0, 1, 2 of 8; a connection of 3 messages that the server closes softly, two after each other of 2 with an end that disappears once, one of 2 that both ends close as they like; callbacks 8 frames deep on 2 connections, for a program that closes only what it was called for and for one that does anything | `InOrderOnce`, `AllConfirmed`; `ReliableHolds`: a message called confirmed has been handed on, with the inductive invariant; `SoftCloseLosesNothing`, with the inductive invariant `ConnectionInv`; `NothingUsedAfterFree`: the first program uses nothing that was freed; under both, what a callback needs stays, a close asked for is done and told once; with the inductive invariant `SocketsInv` |
| `browsing` | 2 challenges or 7 client messages; replies in several packets that come in any order, again or not at all; 2 or 3 servers, 2 updates | `HostAnswersOnce`; `ArrivesWhole`: a complete reply has left the browser every value whole (a cut value that came late, and empty values, excepted), a list is read once and for what it is; `QueuesSound`, `NobodyWaitsForEver` |
| `search_waits` | 2 servers, 1 update | violates `KeysCome` (finding) |

**Why the bounds are enough.** A unit of the clock stands for any span. Two units before FIRE
give two different fouls; two units between FIRE and the limit give a hit (a kill at 0 is
reported as -1 and the limit's own unit is too late), three two hits that differ, in `round_safety`.
`MaxLag = 2` lets both phones fire, foul or lower their guns while a packet is under way.
`QueueBound` keeps a player from filling the queue by swinging the arm; it bounds only the
actions that add packets at will. One further duel lets every request cross with every button and settles
money twice, with unequal purses the second time. Random times `{0, 1}` tell same from different. `match_tries` needs three: the
shortest lock-out goes back once, is called back, and then crosses requests; its constraint `Explored` cuts behaviours
in which, after the first duel, a round is won or a mishap happens other than crossed requests, a call back and a BACK on the duel screen; `match_safety` explores these. With
$100 nobody falls under $10, where the winner is paid at least $1 even by an opponent with nothing.
On the link, two sends of the guest and one of the host overwrite the slot, cross in the static packet and confuse
acknowledgements in each way that two threads can; a third adds a repetition of these.
A natneg client keeps only what it heard last, so one mishap reaches every combination of what the two know; the NAT flags
need a second detection to outlive the first. Eight serial numbers wrap as 65536 do: three unconfirmed messages and two
held ones stay below half of them. Three servers, two at a time, are the least that make a query wait.

**Deadlock** is not checked: a round, a match, a connection and an update end.

### 3.1 Findings

Two runs expect a violation; each states what a text of the repository says:

| Run | Says | What happens |
|---|---|---|
| `match_winner_takes` | "The winner takes away 10 % of the opponent's money." (`Localizable.strings:123`) | When both press RUN AWAY on the same result screen, each pays, and each wins on the other's RUN_AWAY: from $100 each both go to $90 and then to $101 |
| `search_waits` | "done once the server object has full keys" (`MultiplayerClientViewController.m:477`) | When the reply with the keys is lost the loop thinks for ever |

### 3.2 Observations

The models also show the following. No text of the repository promises otherwise, so these are exceptions in the
formulas, comments in the modules and hazards in `PROJECT.json`, not findings.

*A round.* After a trick between two shots the count of shots may pass the size of the magazine without ever being
equal to it: the magazine is empty with neither a kill nor a foul (`DuelViewController.m:94`). Readiness packets that cross
a raised arm leave one clock running and the other never started (`GameCenterViewController.m:727`). Two fouls at
the same millisecond meet no test (:753). When one phone's 30 s end, the other is not told (:404): a shooter whose
opponent never shoots is scored only as the opponent's loss. Over the link, a late foul can get into a repeated packet, and both phones win (:332).

*A match.* Crossing requests swap the random times, so that the phones fire at different times (:610). A player
who goes back and is called to another duel can be locked out with the other, and is thrown off by the other's later leaving (:622, 893). Both players may run away (`FinalViewController.m:341`).
The winner's tenth is at least $1, also from an opponent who has nothing (:432). A
forgotten 7 s timer may cut the match off before the loser is told. The duel screen's BACK calls `lostConnection` and sends nothing
(`DuelViewControllerWithXib.m:376`); it does not stop `shotTimer`, whose invalidation is commented out (:208), and neither does a lost
connection. So at 30 s `DuelViewController.m:167` still calls `duelTimerEnd`, which tests neither the connection nor the screen and pushes a result screen
over the main screen (`GameCenterViewController.m:392-411`). Its RUN AWAY charges the player a tenth, and the opponent is not told; two players who both leave may
both lose the same duel there. NEXT on such a screen waits for an answer that cannot come, and there is no timer. Finished duels are archived into the transactions' array, and the array saved as duels stays empty (:682).

*Servers.* A restart on one thread is undone by the end of the loop on another (`MultiplayerServerViewController.m:661`).

*natneg.* Late pings keep the reports from being sent again (`natneg.c:951`); one side may succeed alone (:932);
a preinit acknowledgement starts the preinit again (:968); the flags of a detection are never cleared (`NATify.c:196`).

*gt2.* Soft closes that cross lose what is under way (`gt2Message.c:411`); the Accept of an earlier connection is taken
for that of the present one (:356); an early close tells only the closed callback (`gt2Connection.c:298`); a peer
that vanishes is never noticed (:158); with callbacks that close sockets while sending fails, memory is used after
it was freed (`gt2Connection.c:287`, `gt2Socket.c:465`).

*Browsing.* `numDuplicates > QR2_IPVERIFY_MAXDUPLICATES` lets six of an address through where the comment allows five
(`qr2.h:679`); a lost heartbeat about a change of state is not repeated; a query that times out clears its bits in
`flags` instead of `state` (`sb_queryengine.c:663`); an engine whose query list is empty does not look at its pending
list; replies are not matched to requests, so a late one answers the next query; asking for a server that is not
listed fails and leaves `dontUpdate` set. In a split reply the value that does not fit is sent twice, its beginning with a NUL at the end of one packet
(`qr2.c:664-672`) and all of it in the next; the browser keeps what came last (`sb_server.c:713-751`), so when the two packets are exchanged on their way
the reply is complete and the value is cut. An empty value of a player or team ends the key's list for the browser (`sb_server.c:739`), which takes the
values after it for keys.

### 3.3 Fairness

The liveness properties assume that what is due is served, as `NSRunLoop`, the threads and the think functions do
while the application runs:

* a phone's timers (`Clock`, `WaitTimer`), packets that have arrived (`Receive`), and the link's notice that the other side
  is gone (`LinkLost`); nobody is assumed ever to move a phone or press a button;
* on the link, the guest's main thread and repeaters go on, and what happens again and again (a packet got through,
  a packet lost, a buffer looked at) happens some time (strong fairness: the network may lose packets, but not every one for ever);
* a server's threads end when told to and the server appears on the list;
* `qr2_think`, `SBThink` and gt2's think are called, and the first unconfirmed message gets through some time.

## 4. What is proved

The theorems hold for all values of the constants that meet the assumptions named in the modules: `RoundAssumption` (a FIRE time
before the limit, at least one bullet; bounds and lag arbitrary), `TimesAreNoFouls` (the limit, 30000, is below the 999999 that stands for a foul), `FaultAssumption` (any number of faults), `LinkAssumption` (any number of packets and
tries; the -1 with which `lastReceivedPacket` begins is no packet's number),
`SessionAssumption` (any money, random times and number of duels), `NatAssumption` and
`DetectionAssumption` (any ports, retries, mishaps, detections and lost answers), `LifecycleAssumption` and
`LedgerAssumption` (any number of calls, threads, items, requests and restarts), `ReliableAssumption` (an even number of serial
numbers, and an outgoing buffer for fewer messages than half of it: in the code 65536, and at most 9362), `SocketsAssumption` (finitely many connections, calls of any depth), `Qr2Assumption` (limits of time no longer than HB_TIME, a ring of at least twice the window less one),
`PartsAssumption` (the same of the host, any sizes of a reply, any servers and limits of the browser, streams of the protocol's layout).

| Theorem | Module | States |
|---|---|---|
| `TypeCorrect` | `DuelRoundProofs` | `Spec => []TypeOK` |
| `ExchangeInvariant` | `DuelRoundProofs` | `Spec => []ExchangeInv`, the inductive invariant |
| `AgreementHolds`, `RightWinnerHolds` | `DuelRoundProofs` | `Spec => []Agreement`, `Spec => []RightWinner` |
| `HandshakeInvariant`, `StartOnceHolds` | `DuelRoundProofs` | `Spec => []StartOnce`: a gun's clock starts once; through `Spec => []HandshakeInv`, the inductive invariant |
| `ScoredOnceHolds` | `DuelRoundProofs` | `Spec /\ []NobodyFiresEarly => []ScoredOnce`: exchange and time limit score the round once, for one player, whatever the lag |
| `KeepsContractHolds` | `DuelRoundProofs` | `Spec => KeepsContract`: a round implements `RoundContract` |
| `OverLinkInvariant` | `DuelRoundProofs` | `OverSpec => []OverLinkInv`, the inductive invariant |
| `AgreementOverLinkHolds`, `RightWinnerOverLinkHolds`, `JudgedOverLinkHolds` | `DuelRoundProofs` | `OverSpec => []AgreementOverLink`, `OverSpec => []RightWinnerOverLink`, and both together |
| `LinkTypes`, `CopiesStayHonest` | `PacketLinkProofs` | types; `Spec => []LinkInv`: every copy names a packet that was sent, with contents at least as new |
| `LinkImplementsContract` | `PacketLinkProofs` | the link with its threads implements `LinkContract` |
| `OrderInvariant` | `PacketLinkProofs` | `Spec => []OrderInv`, the inductive invariant |
| `NotTwiceHolds`, `AckedMeansTakenHolds` | `PacketLinkProofs` | `Spec => []NotTwice`, `Spec => []AckedMeansTaken` |
| `LinkHoldsAlways` | `PacketLinkProofs` | `Spec => []LinkHolds`: what the run `link` checks at every moment |
| `SuccessMeansBothHeardHolds` | `NatProofs` | `Spec => [](TypeOK /\ SuccessMeansBothHeard)`: who succeeds has heard and been heard |
| `CompletedOnceHolds`, `FailedPartnerTriedPingsHolds` | `NatProofs` | `Spec /\ ~useQueue => []CompletedOnce`, the same for `FailedPartnerTriedPings` |
| `NeverMisledHolds` | `NatProofs` | `NatSpec => []NeverMisled`: nor does a detection take a device for more open than it is |
| `FirstFindsDeviceHolds` | `NatProofs` | `NatSpec => FirstFindsDevice`: a first detection that hears all answers is right |
| `SessionTypeCorrect` | `MatchSteps` | `Spec => []TypeOK /\ []Opening` |
| `MatchInvariant` | `DuelSessionProofs` | `Spec => []MatchHolds`, the inductive invariant |
| `SettledOnceHolds` | `DuelSessionProofs` | `Spec => []SettledOnce`: every duel is settled once, for one player, and booked |
| `PursesInvariant` | `DuelSessionProofs` | `Spec => []PursesHold`: what a phone is told of the opponent's money is true |
| `MoneyMovesHolds` | `DuelSessionProofs` | `Spec /\ []Solvent => []MoneyMoves` |
| `AlikeInvariant` | `DuelSessionProofs` | `Spec => []AlikeHolds`: the asked phone takes over the asking one's delay |
| `FairRoundHolds` | `DuelSessionProofs` | `Spec => [](NoCrossing => FairRound)` |
| `LifecycleInvariant` | `ServicesProofs` | `Spec => []TypeOK /\ []LifecycleInv`, the inductive invariant |
| `ServersApartHolds`, `CallerNotListedHolds`, `HostNoticesLossHolds` | `ServicesProofs` | `Spec => []ServersApart`, `Spec => []CallerNotListed`, `Spec => []HostNoticesLoss` |
| `LedgerInvariant` | `ServicesProofs` | `LedgerSpec => []LedgerTypeOK /\ []LedgerInv`, the inductive invariant |
| `TransactionsKeptHolds`, `MoneyAgreesHolds` | `ServicesProofs` | `LedgerSpec => []TransactionsKept`, `LedgerSpec => []MoneyAgrees` |
| `ServicesHoldAlways` | `ServicesProofs` | `Services => []ServicesHold`: the two side by side |
| `ReliableHoldsAlways` | `Gt2Proofs` | `Spec => []ReliableHolds`, with the inductive invariant |
| `InOrderOnceHolds` | `Gt2Proofs` | `Spec => []InOrderOnce`: once each and in order, past any wrap |
| `NothingUsedAfterFreeHolds` | `Gt2Proofs` | `FairSpec => []NothingUsedAfterFree`, with the inductive invariant, for any set of programs |
| `SoftCloseLosesNothingHolds` | `Gt2Proofs` | `FairSpec => []SoftCloseLosesNothing`, with the inductive invariant, for any bounds and closers |
| `HostInvariant` | `BrowsingProofs` | `Spec => []HostInv`, the inductive invariant |
| `HostAnswersOnceHolds` | `BrowsingProofs` | `Spec => []HostAnswersOnce`: a message is handled once, a challenge answers one query, an error is told once |
| `QueuesSoundHolds` | `BrowsingProofs` | `BrowsingSpec => []QueuesSound`: no server is queued twice or forgotten, for any servers, limit and setup |
| `ArrivesWholeHolds` | `BrowsingProofs` | `BrowsingSpec => []ArrivesWhole`: a complete reply is whole and each item of the list taken for what it is, for any sizes, any stream and any cuts |

**A round.** `Agreement` is not inductive: it speaks of two judgements, and says
nothing of what the phones know when they make them. `ExchangeInv` adds that. What a phone has
been told was reported by the other, or is the 0 of a phone that judged before it shot
(`InFlight`, and the bound on `opShotTime`); what it holds as its own time it has
reported (`OwnTime`); and each judgement is witnessed by times that were reported (`Witnessed`). If
each phone reported one time, both judgements are witnessed by the same pair, and the two
lists of tests, different as they are, give opposite results on one pair. A step preserves
`ExchangeInv` because only `SendShotTime` and `ReceiveShotTime` touch the exchange; every other action
leaves it and adds only packets without a time (`OtherSteps`).
The refinement theorem is the same fact as an action property: a result is set once
(`StepJudgesOnce`), and at the moment the second is set, `Agreement` holds in the new state.

*The handshake.* Two flags and a timer decide whether a clock starts, and three kinds of packet change them. `HandshakeInv` says what
a gun can be: not started, with its flags as dealt or as the handshake has set them; running for good, with no permission and no readiness
of its own left that could start it again; or started by the other's answer, and then the other runs for good and nothing of the handshake is under way.

*The score.* Two things score a round, the exchange and the 30 s limit, and the limit does so without judging. `ScoreInv` tells three states of a
phone's score apart: nothing scored; run out of time (`RanOut`); judged. A clock that still goes belongs to a phone that has reported nothing, and one
that has not judged knows of no foul; so the limit scores nothing, or a defeat by an opponent who hit. Such an opponent reported nothing before
and reports nothing after (`Reporting`), so no foul can follow that would judge the exchange and score again; and a phone that ran out of time does not fire any more.
The theorem assumes that nobody reports a time before the own clock starts: a gun raised on the duel's screen can be fired then, and its clock starts none the less.

**Over the link** the packets under way may be reordered, repeated and lost at will: `InFlight`
speaks of each packet separately, so it survives. A restated packet carries the sender's present
time, which may be one it never reported: `spoken` collects the times a phone has taken, and
`OnTime` says that it took none after judging. Under `OnTime` the restated time is a
reported one, or 0 from a phone that has judged `exclusive`. Without it the property is false.

**The link** implements its contract with one mapping: a packet is under way in the contract if some copy of it is left
anywhere (slot, static buffer, air, receive buffer). `LinkInv` says that every copy is of a packet that was sent, and no
newer than its sender. A thread's step moves or drops copies, or makes one with the contents of the moment, and the
contract allows all three.

*Once, in order, before the answer.* Neither `NotTwice` nor `AckedMeansTaken` is inductive: between a phone's `sendDataData` and
the other's `receiveData` a packet passes four places, and three kinds of threads touch them. `OrderInv` (module `LinkOrder`) has
three parts, each under the crossings that break it. *The receiver*: one reader at a time holds the receive buffer, and
`lastReceivedPacket` is the number of what the game was given last, or is being given (`OneHolder`, `LastKept`). *The sender*: what
stands in the static buffer between building and `sendto` is what was built (`Building`), so that each packet is in one place at a time
-- unsent, on the net, in the buffer, with the game (`OnePlace`). *Both*: of packets sent one after the other all but
perhaps the last are with the other game, `neadSend` stays while the last is not, and of the packet and its answer
at most one is under way (`InOrder`). Reading, examining and giving to the game move the one or the other along; each is a lemma.

**A negotiation.** `HeardInv`: a ping under way says of its sender what is still so, since whoever has heard the partner does
not forget it; so a client that is told "I have heard you" is right to succeed. `ForwardInv`: without the queue no client goes back to an
earlier state, so the four states in which it waits for a result are left once. `VerdictInv`: the matchup server has one verdict,
pings are sent only after a good one, and a client is told that its partner is missing only before it has heard a ping. With the queue
the last two are false: a preinit acknowledgement starts a negotiation again.

**A detection.** What one detection leaves behind misleads the next, so little is true of every detection: that the answers it still waits for,
and what it calls allowed, are such as its device lets through (`HeardFromDevice`). This is enough, since a device is only called open when
both reachability tests have come (`OpenWhenReached`). Of the first, `FirstInv` says that it knows what it has heard and nothing else; when
nothing was lost it has heard what the device lets through, which tells the devices apart (`AllAnswersTell`).

**A match.** `SettledOnce` says that a phone neither wins nor loses twice; whether it does depends on the other
phone's screen and on the packets between the two. `MatchInv` (module `DuelMatch`) says what fits together, of a phone g, the other
phone h, and the kinds U and V of the packets under way to them: the books and the verdict of one phone (`Books`, `Verdict`), what its screens
exclude (`Screens`), what a packet under way tells of both phones (`Arriving`), where the other phone can be (`Together`), that a result
under way and the scores agree (`Scored`), and which kinds of packets can be behind which (`InOrder`). Each action
touches one phone, takes the head of its queue or adds to the other's queue, so each case of the
induction step is a lemma about g, h, U and V without phones or sequences (`MatchSteps`), and
`DuelSessionProofs` brings them together. The invariant does not survive three of the mishaps (`bothRanAway`, `limitAlone`, `lateStart`), which is why it is
`NoCrossing => MatchInv`; `SettledOnce` makes the same exceptions. It does survive a BACK on the duel screen: what is under way to the other phone then, and
what that phone can show, is as when the link is lost.
`TypeOK` is not inductive by itself either: OPONTYPE_RESPONSE starts the 7 s timer whatever is on the screen, and only
`Opening`, that it comes before anything else, makes that the start screen.

**The money.** `MoneyMoves` looks only at matches in which nothing is under way; what makes it true is what is still due.
`Due` says what the packets under way to a phone will bring it: a tenth of what it believes the opponent owns, if they
say that it has won, and minus a tenth of its own, if they say that it has lost. `Balanced` says that the two purses and the two
dues always add up to what the players brought. A phone that is about to win takes a tenth of `opMoney`, the other one pays a tenth
of `money`; that these are equal is `Purse`: introductions under way tell the truth (`Told`), and a phone whose screen belongs to the
present duel has been told and not yet been told the end of it (`Knows`). `PursesHold` is inductive beside `MatchHolds`, and each action
is either a step that moves no money (`Idly`) or one of the few that settle a duel. `MoneyMovesHolds` assumes `[]Solvent`, that both players
always have something: the code takes $1 from an opponent who has nothing, who does not pay it (section 3.2).

**The start of a round.** Same scores come from `MatchInv`, the same idea of the money from `PursesHold`. The same delay needs `Alike`:
a TIME or TIME_TRY carries the present delay of its sender, the answer to TIME_TRY comes only from a phone that has taken that delay over,
and without requests under way two phones of one duel have the same. Two requests that cross exchange the delays, so it
stands under `Without({"twoTries"})`, as does `FairRound`. What `FairRound` says of a match in which both have run away, or in which
the 30 s have ended on one phone only, is only model-checked: there `MatchInv` fails.

**The game server.** Whether two threads of `createServer` can be in the loop at once is decided by who sets `isRunServer` and when. `MainInv` holds in every
behaviour: what the main thread works on is the present server, and a restart is asked for only while it shuts that one down. As long as no start
met the end of another (`Alone`), there is one thread, and the query is open only between its `qr2_init` and its `qr2_shutdown` (`OneServer`); a call leaves no thread
that could list the caller (`Called`); and nothing touches the server of a host in a match (`Hosting`), so that its notice of a loss works.

**The account.** `NothingForgotten` needs that a request under way reports all that its answer will clear (`KeptInv`), which is so while nothing is
booked during a request. `CountedOnce` needs that what is still to be served is counted nowhere and reported by one request (`Fresh`), and that a buffer
belongs to the one request that is under way (`OneAnswer`). `MoneyAgrees` compares sums: without a mishap the server lacks exactly what is
pending (`Reported`), by cardinality, since every transaction is worth one.

**Reliable messages.** gt2 compares serial numbers by the sign of a 16-bit difference, and never sees the numbers themselves. In the model a message keeps its true
number n, and only SN(n) is compared. `ReliableInv` says that whatever is compared lies less than half of all serial numbers apart: what is held is
beyond what is expected and has been sent, what is expected lies between what is unconfirmed and what has been sent, and what is on its way
is young. Lemmas show that there SN decides as the numbers do, so each handler does what it would do without a wrap; that
the messages held that follow without a gap are an interval, so handing them on keeps the order; and that the first message an acknowledgement leaves
is one the other end has not had. That no packet is on its way longer than it takes to send half of the numbers is a guard of the model
(`PacketsAreYoung`): gt2 relies on it, and nothing in it enforces it.

**A connection.** What a program may hope for depends on who closes, so the bounds and the closers are the variable `may`, chosen at the start, and
`ConnectionInv` says of each choice what it allows. `AuthInv` holds for all: a challenge or response about the present server object is about the client object that it
answers, which tells the objects at one address apart, whoever came back. `ToldInv` holds when only the server closes, and softly: what an end has been told follows
from its state. For the first connection of two such ends `OrderInv` puts the messages in order (what an end has had or holds is what the other sent; nothing but keep-alives follows a
Close; a client is connected only after the Accept), and `EndInv` says that the client is still there with no Closed message on its way, or failed, or has had all data. Its hard step is the acknowledgement of the
Close: the server goes only when the client has had everything up to it, and the Closed message leaves after that. Two soft closes that cross break it (section 3).

**Callbacks.** That nothing is used after it was freed is a statement about every frame below the top of the stack: the function will go on when what it called
returns. `LevelInv` says that the levels of the socket and of a connection are the numbers of callbacks about them on the stack, so what a callback was called with
stays; `TableInv` that the table holds the connections that are not Closed, once each, and what was given back is Closed; `ToldInv` that who sets
Closed tells, or has a frame that will. These hold for every program. `OwnInv` holds while the program closes only what it was called for and the network
does not fail: all frames are about one connection, none of them is freed, and a walk over the table has passed at most what is left of it, so that its
index does not leave the bucket. The proof shows first that every step does one of few things to the stack (`StackMoves`: push, replace the top, pop) and
to the table (`TableMoves`), and then needs one case for each of these.

**A host that reports itself.** The ring holds the last client messages by the order of arrival, not of their numbers. `RingInv` keeps the order of writing: what
was written after a message is at most `Window` older, since the master server repeats no message older than that; and what the ring has forgotten
was written before all it holds. A message that is under way, has been handled and is not in the ring would have all slots filled with distinct
numbers less than `Window` from its own, itself excepted, and there are at most 2 * Window - 2 of those (`NotYetHandled`, by the pigeonhole theorem).
A challenge has a number of its own, and one that has answered stands in no slot (`VerifyInv`); the first tries, and the listing after an error, end for good (`ErrorInv`).

**A browser.** What the program sets up (`game`) is the same throughout, so one lemma per step serves every setup. `QueuesSound` is inductive once two things are
said of a step in the middle: that every queue is sound for all servers but one (`SoundBut`), since a reply or a request takes a server out before it puts it in again, and that an update
is only asked for a server in no queue -- which the code decides from the `PENDING` bits, so the bits and the queues must agree. The lemmas under it speak of sequences: a
server occurs once in two queues joined, in a queue cut at its front, and in one it was taken out of.

**A reply and a list.** The builder of a reply walks types, keys and players in order, and a value that may have been cut comes again; so whatever is before its place stands
whole in some packet, the last that has anything of it (`NoneSkipped`, `LastWhole`), and the final packet is sent at the last place (`FinalIsLast`). `Coming` says what the browser has: as long as no
packet with a cut value came after a later one and no list is ended by an empty value, an entry that came whole is stored whole, since its cut copy is
in an earlier packet. A browser that has all bits has all packets, since only the last
stands for more than itself. The parser of a list relies on counts it has read: `Place` says that what it expects and what it has counted are the stream's own numbers, and how many items it has
taken in each state; `Clear`, which bytes have been decrypted; and `Waits`, that it waits only when no whole item is there. The stream is any that has the layout of the protocol, with
items that fit in the buffer.

**Only model-checked**: everything under fairness (out of the prover's reach); `ScoredOnce` when somebody fires before the clock starts, which needs the bound on
the lag (who fires early and times out before the answer comes may count two rounds).

## 5. What is not modelled

Points and levels; the practice duel; lists; login, purchases, advertising, Game Center; older transports and
vendored libraries (HTTP, XML, encryption, containers, JSON, Facebook). `PROJECT.json` lists each with its
reason. Inside the modelled parts: sounds, texts and layout; the recognition of a trick (it
is an event that may happen when the code lets it); the name and level in an introduction; the
START_DUEL_FALSE sent when the application is closed; a second foul report that
arrives when the next round has begun (rounds in `DuelSession` report one time each); the bytes of the GameSpy
packets; gt2's filters and qr2's version 1 keys. Also left out, part by part:

* *A round and a match*: another match begun within 30 s of leaving a duel screen, while its clock still runs. The resets in the duel screen's
  `viewDidAppear`, after the push animation (`DuelViewControllerWithXib.m:187-203`), are one step with the push, though the accelerometer is on from
  `viewWillAppear` (`DuelViewController.m:64`).
* *The account*: the server's refusal (`err_code` -1, `AccountDataSource.m:273-278`); the test of `modifierName` and the $100 for an iPad before the
  transactions are sent after a login (`StartViewController.m:1099-1120`).
* *natneg*: unknown finish codes (`natneg.c:893-908`); a detection that is started while one is active (:486-528), and the mapping scheme that a failed detection keeps from the
  one before (`NATify.c:308-318`).
* *gt2*: a second soft close of a connection that is closing already, which the code would send again (`gt2Connection.c:295-302`); a socket that was told to
  stop listening; the messages an earlier object of an address still has under way when a
  new one connects; in `Gt2Sockets`, failing sends inside the think functions.
* *qr2*: replies to queries that are not split; the packet number and header of a reply.
* *The browser*: a list with the default port 0xFFFF (`sb_serverlist.c:1211-1228`), a keep-alive that cannot be sent (:1557-1559), a callback of the list's messages that
  disconnects (:1572-1573), failing allocations. A query that times out also clears bits of `flags` (`sb_queryengine.c:662-664`); the model has only what
  becomes of `state`. A reply without a body while a challenge is pending (:429-441, 477-480).

## 6. Plan

1. `ScoredOnce` from the bound on the lag alone, without the assumption that nobody fires early.
2. The rounds of `DuelSession` as a refinement of `RoundContract`.
3. The HTTP requests under the account (`ghttp`), the practice duel, the lists.
