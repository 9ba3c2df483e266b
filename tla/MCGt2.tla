-------------------------------- MODULE MCGt2 --------------------------------
(***************************************************************************)
(* gt2 for TLC: the reliable messages of a connection past the wrap of     *)
(* their numbers; a connection from its attempt to its end, and two after  *)
(* each other at the same addresses; and what a program calls in           *)
(* callbacks.  part says which of them a behaviour is about; the messages  *)
(* then stay as they begin, and the variables of the others are 0.         *)
(***************************************************************************)
EXTENDS Gt2Reliable, TLC
CONSTANTS
  Conn, MaxDepth,  \* of Gt2Sockets
  Programs,        \* what programs and networks may do there: see may
  Lives            \* the same of Gt2Connection

VARIABLES
  part,
  may, state, told,                                                        \* of the next two
  up, id, partner, sentBy, acked, got, held, received, closedMsg, accepted, crashes,  \* Gt2Connection
  socket, close, error, level, bucket, freed, clevel, stack, ret, fault, shut         \* Gt2Sockets

connection == <<up, id, partner, sentBy, acked, got, held, received, closedMsg, accepted, crashes>>
sockets == <<socket, close, error, level, bucket, freed, clevel, stack, ret, fault, shut>>
gt2 == <<part, may, state, told, vars, connection, sockets>>

\* Five messages one way: with the numbers of MCGt2.cfg the third of them has number 0.
FiveOneWay == 0 :> 5 @@ 1 :> 0

Life == INSTANCE Gt2Connection
Sockets == INSTANCE Gt2Sockets WITH closed <- shut

\* A connection that the server closes softly; two after each other, an end of which may disappear;
\* one that both ends close as they like.
ThreeLives ==
  {[objects |-> 1, sent |-> 3, crashes |-> 0, closers |-> {"server"}, hard |-> FALSE],
   [objects |-> 2, sent |-> 2, crashes |-> 1, closers |-> {}, hard |-> FALSE],
   [objects |-> 1, sent |-> 2, crashes |-> 0, closers |-> {"client", "server"}, hard |-> TRUE]}

\* A program that only closes what it was called for over a network that works, and one that does
\* whatever it likes over one that fails.
TwoPrograms ==
  {[nested |-> {"CloseHard"}, errors |-> FALSE],
   [nested |-> {"Think", "CloseHard", "CloseOther", "CloseSocket"}, errors |-> TRUE]}

ASSUME ReliableAssumption /\ Sockets!SocketsAssumption

NoConnection ==
  /\ up = 0 /\ id = 0 /\ partner = 0 /\ sentBy = 0 /\ acked = 0 /\ got = 0 /\ held = 0
  /\ received = 0 /\ closedMsg = 0 /\ accepted = 0 /\ crashes = 0
NoSockets ==
  /\ socket = 0 /\ close = 0 /\ error = 0 /\ level = 0 /\ bucket = 0
  /\ freed = 0 /\ clevel = 0 /\ stack = 0 /\ ret = 0 /\ fault = 0 /\ shut = 0

Begins ==
  /\ Init
  /\ \/ part = "messages" /\ may = 0 /\ state = 0 /\ told = 0 /\ NoConnection /\ NoSockets
     \/ part = "life" /\ may \in Lives /\ Life!Init /\ NoSockets
     \/ part = "callbacks" /\ may \in Programs /\ Sockets!Init /\ NoConnection

OfMessages(A) == part = "messages" /\ A /\ UNCHANGED <<part, may, state, told, connection, sockets>>
OfConnection(A) == part = "life" /\ A /\ UNCHANGED <<part, vars, sockets>>
OfSockets(A) == part = "callbacks" /\ A /\ UNCHANGED <<part, vars, connection>>

Moves ==
  \/ OfMessages(Next)
  \/ OfConnection(Life!Next) \/ OfSockets(Sockets!Next)

\* The fairness of Gt2Reliable, for the first message that is not confirmed.
FairSpec ==
  /\ Begins /\ [][Moves]_gt2
  /\ WF_gt2(OfMessages(CheckPendingAck(1)))
  /\ SF_gt2(OfMessages(\E m \in net : HandleAck(0, m)))
  /\ WF_gt2(OfMessages(SendRetries(0, out[0])))
  /\ SF_gt2(OfMessages(Arrives(1, out[0])))
-----------------------------------------------------------------------------
\* A message is confirmed in the end, unless an end closes.
AllConfirmed == part = "messages" /\ sent[0] > out[0] ~> out[0] = sent[0] \/ closed[0] \/ closed[1]

\* What the other two must keep, each on its part: see the modules.
SoftCloseLosesNothing ==
  part = "life" =>
    /\ Life!TypeOK /\ Life!SoftCloseLosesNothing /\ Life!ToldInOrder /\ Life!ChallengeAnswered
    /\ Life!ConnectionInv
NothingUsedAfterFree ==
  part = "callbacks" =>
    /\ Sockets!TypeOK /\ Sockets!NothingUsedAfterFree /\ Sockets!KeptInCallback
    /\ Sockets!CloseIsDone /\ Sockets!ToldOnce /\ Sockets!SocketsInv
=============================================================================
