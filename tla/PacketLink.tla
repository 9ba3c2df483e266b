------------------------------ MODULE PacketLink ------------------------------
(***************************************************************************)
(* The link of a running match: MultiplayerServerViewController on phone   *)
(* Host, MultiplayerClientViewController on the other.                     *)
(*                                                                         *)
(* Each side keeps one packet to repeat (packetIDGlobal, with whatever     *)
(* gameStat holds by then) until any NETWORK_RESPONSE arrives.  Each send  *)
(* starts a thread of its own that repeats, and reads the socket; the      *)
(* thread of createServer or createBrouser reads it too.  Who reads a      *)
(* packet puts it into the one receive buffer and waits until the main     *)
(* thread has run receivePacket.  sendCycle builds every packet in one     *)
(* static buffer.  None of this is locked, so the steps below are the      *)
(* pieces of those functions between which another thread can run.         *)
(*                                                                         *)
(* Datagrams are lost and overtake each other.  Pings and their answers    *)
(* are built in the same static buffer; they can be read whenever the      *)
(* other side is up, and their counting is in ServerLifecycle.             *)
(***************************************************************************)
EXTENDS Phones, Sequences, SequencesExt, FiniteSets

CONSTANTS
  Number,    \* the numbers of game packets, packetCodes
  AccelState,\* NETWORK_ACCEL_STATE, never taken for a repetition
  MaxSends,  \* MaxSends[p]: bound on the packets phone p sends
  Pings,     \* whether pings and their answers get through
  MaxTries   \* copies sent before the connection is given up (10 in the code)

\* "none" stands for lastReceivedPacket = -1 (init), which is no packet's code.
ASSUME LinkAssumption ==
  /\ AccelState \in Number /\ "none" \notin Number
  /\ MaxSends \in [Phone -> Nat]
  /\ Pings \in BOOLEAN
  /\ MaxTries \in Nat \ {0}

Host == 0    \* the phone that runs MultiplayerServerViewController

VARIABLES
  link,      \* the ivars and static buffers of each phone
  main,      \* where its main thread is in sendDataData or receivePacket
  thread,    \* its threads that read the socket: 0 the loop, k the repeater of the k-th send
  net,       \* datagrams on their way to each phone
  sent,      \* history: the numbers each phone sent
  taken,     \* history: the packets given to each phone's receiveData
  mishaps    \* history: the crossings that have happened on each phone

vars == <<link, main, thread, net, sent, taken, mishaps>>

Loop == 0
Readers(p) == 0..MaxSends[p]
Repeaters(p) == 1..MaxSends[p]

-----------------------------------------------------------------------------
\* A datagram.  A game packet is the k-th one its sender sent, with gameStat as it
\* was when the sender had sent stat of them.
Game(k, stat) == [kind |-> "game", k |-> k, stat |-> stat]
Response == [kind |-> "response", k |-> 0, stat |-> 0]
Ping == [kind |-> "ping", k |-> 0, stat |-> 0]

\* The number of a game packet that phone p received.
NumberOf(p, packet) == sent[Other(p)][packet.k]

Init ==
  /\ link = [p \in Phone |-> [up |-> TRUE, neadSend |-> FALSE, slot |-> 0, header |-> 0,
                              buffer |-> Ping, gotData |-> FALSE, last |-> "none"]]
  /\ main = [p \in Phone |-> [at |-> "idle", reader |-> Loop]]
  /\ thread = [p \in Phone |-> [r \in Readers(p) |->
                 [at |-> IF r = Loop THEN "read" ELSE "none", tries |-> 0]]]
  /\ net = [p \in Phone |-> {}]
  /\ sent = [p \in Phone |-> <<>>]
  /\ taken = [p \in Phone |-> <<>>]
  /\ mishaps = [p \in Phone |-> {}]

Becomes(p, r, place) == thread' = [thread EXCEPT ![p][r] = [at |-> place, tries |-> @.tries]]
MainAt(p, place) == main[p].at = place
Note(p, what) == mishaps' = [mishaps EXCEPT ![p] = @ \union what]
If(name, condition) == IF condition THEN {name} ELSE {}

\* Seeded fault: gameStat as it was before the game's last change.
StaleDatagram(p) == Game(link[p].header, Len(sent[p]) - 1)

\* What the static buffer holds, with gameStat as it is now.
Datagram(p) == Game(link[p].header, Len(sent[p]))
PutOnNet(p, packet) == net' = [net EXCEPT ![Other(p)] = @ \union {packet}]

\* sendto.  Header 0 is a ping's, or its answer's.
PingHeader == 0
Transmit(p) == IF link[p].header = PingHeader THEN UNCHANGED net ELSE PutOnNet(p, Datagram(p))

\* Between building in the static buffer and sendto.
BuildsPing(p) == thread[p][Loop].at = "ping" \/ MainAt(p, "answering")
BuildsPacket(p) == MainAt(p, "sending") \/ \E r \in Repeaters(p) : thread[p][r].at = "send"
-----------------------------------------------------------------------------
(***************************************************************************)
(* sendDataData on the main thread: the game has changed gameStat; the     *)
(* packet is built, sent, put into the slot, and its repeater is started.  *)
(***************************************************************************)
\* Seeded fault: nothing says that the packet has to be repeated.
SendOnce(p) ==
  \E n \in Number :
    /\ MainAt(p, "idle") /\ link[p].up /\ Len(sent[p]) < MaxSends[p]
    /\ sent' = [sent EXCEPT ![p] = Append(@, n)]
    /\ link' = [link EXCEPT ![p].header = Len(sent[p]) + 1]
    /\ main' = [main EXCEPT ![p].at = "sending"]
    /\ UNCHANGED <<thread, net, taken, mishaps>>

Send(p) ==
  \E n \in Number :
    /\ MainAt(p, "idle") /\ link[p].up /\ Len(sent[p]) < MaxSends[p]
    /\ sent' = [sent EXCEPT ![p] = Append(@, n)]
    /\ link' = [link EXCEPT ![p].neadSend = TRUE, ![p].header = Len(sent[p]) + 1]
    /\ main' = [main EXCEPT ![p].at = "sending"]
    /\ Note(p, If("overlap", link[p].neadSend)
               \union If("sameNumber", sent[p] # <<>> /\ Last(sent[p]) = n)
               \union If("crossed", BuildsPing(p)))
    /\ UNCHANGED <<thread, net, taken>>

SendCopy(p) ==
  /\ MainAt(p, "sending")
  /\ Transmit(p)
  /\ main' = [main EXCEPT ![p].at = "posting"]
  /\ UNCHANGED <<link, thread, sent, taken, mishaps>>

\* Seeded fault: the repeater is started and the slot is filled by nobody.
PostNothing(p) ==
  /\ MainAt(p, "posting")
  /\ thread' = [thread EXCEPT ![p][Len(sent[p])] = [at |-> "check", tries |-> 1]]
  /\ main' = [main EXCEPT ![p].at = "idle"]
  /\ UNCHANGED <<link, net, sent, taken, mishaps>>

Post(p) ==
  /\ MainAt(p, "posting")
  /\ link' = [link EXCEPT ![p].slot = Len(sent[p])]
  /\ thread' = [thread EXCEPT ![p][Len(sent[p])] = [at |-> "check", tries |-> 1]]
  /\ main' = [main EXCEPT ![p].at = "idle"]
  /\ UNCHANGED <<net, sent, taken, mishaps>>
-----------------------------------------------------------------------------
(***************************************************************************)
(* startCycle: while neadSend, repeat what is in the slot each half second,*)
(* then read the socket.                                                   *)
(***************************************************************************)
Finish(p, r) ==
  /\ thread[p][r].at = "check" /\ ~link[p].neadSend
  /\ thread' = [thread EXCEPT ![p][r] = [at |-> "done", tries |-> 0]]
  /\ UNCHANGED <<link, main, net, sent, taken, mishaps>>

NotYet(p, r) ==
  /\ thread[p][r].at = "check" /\ link[p].neadSend
  /\ Becomes(p, r, "read")
  /\ UNCHANGED <<link, main, net, sent, taken, mishaps>>

Repeat(p, r) ==
  /\ thread[p][r].at = "check" /\ link[p].neadSend
  /\ link' = [link EXCEPT ![p].header = link[p].slot]
  /\ thread' = [thread EXCEPT ![p][r] = [at |-> "send", tries |-> @.tries + 1]]
  /\ Note(p, {"repeated"} \union If("crossed", BuildsPing(p)))
  /\ UNCHANGED <<main, net, sent, taken>>

RepeatCopy(p, r) ==
  /\ thread[p][r].at = "send"
  /\ Transmit(p)
  /\ Becomes(p, r, IF thread[p][r].tries > MaxTries THEN "lost" ELSE "read")
  /\ UNCHANGED <<link, main, sent, taken, mishaps>>

\* messageShow on the main thread, lostConnection, shutDownServer.
Lost(p, r) ==
  /\ thread[p][r].at = "lost" /\ MainAt(p, "idle")
  /\ link' = [link EXCEPT ![p].up = FALSE, ![p].neadSend = @ /\ p # Host]
  /\ thread' = [thread EXCEPT ![p][r] = [at |-> "done", tries |-> 0]]
  /\ UNCHANGED <<main, net, sent, taken, mishaps>>
-----------------------------------------------------------------------------
(***************************************************************************)
(* createBrouser's loop pings the host every two seconds.                  *)
(***************************************************************************)
BuildPing(p) ==
  /\ p # Host /\ Pings /\ link[p].up /\ thread[p][Loop].at = "read"
  /\ link' = [link EXCEPT ![p].header = PingHeader]
  /\ Becomes(p, Loop, "ping")
  /\ Note(p, If("crossed", BuildsPacket(p)))
  /\ UNCHANGED <<main, net, sent, taken>>

SendPing(p) ==
  /\ thread[p][Loop].at = "ping"
  /\ Transmit(p)
  /\ Becomes(p, Loop, "read")
  /\ UNCHANGED <<link, main, sent, taken, mishaps>>
-----------------------------------------------------------------------------
(***************************************************************************)
(* tryread.  The host's socket blocks until a datagram comes; the guest's  *)
(* is asked first.                                                         *)
(***************************************************************************)
Handed == {"handed", "handedAgain"}

Read(p, r) ==
  \E packet \in net[p] \union If(Ping, Pings /\ link[Other(p)].up) :
    /\ thread[p][r].at = "read" /\ link[p].up
    /\ net' = [net EXCEPT ![p] = @ \ {packet}]
    /\ link' = [link EXCEPT ![p].buffer = packet, ![p].gotData = TRUE]
    /\ Becomes(p, r, "handed")
    /\ Note(p, If("crowded", \E other \in Readers(p) \ {r} : thread[p][other].at \in Handed))
    /\ UNCHANGED <<main, sent, taken>>

\* Seeded fault: the guest reads without asking first whether there is something.
NothingToReadBlocks(p, r) ==
  /\ thread[p][r].at = "read" /\ r # Loop
  /\ ~link[p].up
  /\ link' = [link EXCEPT ![p].neadSend = @ /\ link[p].up]
  /\ Becomes(p, r, "check")
  /\ UNCHANGED <<main, net, sent, taken, mishaps>>

NothingToRead(p, r) ==
  /\ thread[p][r].at = "read" /\ r # Loop
  /\ p # Host \/ ~link[p].up
  /\ link' = [link EXCEPT ![p].neadSend = @ /\ link[p].up]
  /\ Becomes(p, r, "check")
  /\ UNCHANGED <<main, net, sent, taken, mishaps>>

\* The host's repeater looks at gotData once more.
Again(p, r) ==
  /\ thread[p][r].at = "again"
  /\ Becomes(p, r, IF link[p].gotData THEN "handedAgain" ELSE "check")
  /\ Note(p, If("crowded", link[p].gotData))
  /\ UNCHANGED <<link, main, net, sent, taken>>

\* The main thread is through with what reader r handed over.
GoesOn(p, r) ==
  Becomes(p, r, IF r = Loop THEN "read"
                ELSE IF p = Host /\ thread[p][r].at = "handed" THEN "again" ELSE "check")

(***************************************************************************)
(* receivePacket on the main thread: it looks at the number in the buffer, *)
(***************************************************************************)
\* Any answer ends the repetition, whatever it answers.
EndsRepetition(packet) == packet = Response

\* Seeded fault: the number is not compared.
NoRepetition(p, packet) == FALSE

Repetition(p, packet) ==
  /\ packet.kind = "game"
  /\ NumberOf(p, packet) = link[p].last
  /\ NumberOf(p, packet) # AccelState

Examine(p, r) ==
  LET packet == link[p].buffer
      repeated == Repetition(p, packet)
      answers == packet = Ping /\ p = Host
  IN
  /\ thread[p][r].at \in Handed /\ MainAt(p, "idle")
  /\ link' = [link EXCEPT
       ![p].gotData = FALSE,
       ![p].last = IF packet.kind = "game" THEN NumberOf(p, packet) ELSE @,
       ![p].neadSend = @ /\ ~EndsRepetition(packet),
       ![p].header = IF answers THEN PingHeader ELSE @]
  /\ IF repeated THEN PutOnNet(p, Response) ELSE UNCHANGED net
  /\ IF repeated
     THEN GoesOn(p, r) /\ UNCHANGED main
     ELSE /\ main' = [main EXCEPT ![p] = [at |-> IF answers THEN "answering" ELSE "taking", reader |-> r]]
          /\ UNCHANGED thread
  /\ Note(p, If("crossed", answers /\ BuildsPacket(p)))
  /\ UNCHANGED <<sent, taken>>

\* and gives the game what is in the buffer by then; receiveData acknowledges it.
Take(p) ==
  LET packet == link[p].buffer IN
  /\ MainAt(p, "taking")
  /\ IF packet.kind = "game"
     THEN /\ taken' = [taken EXCEPT ![p] = Append(@, [k |-> packet.k, stat |-> packet.stat])]
          /\ PutOnNet(p, Response)
     ELSE UNCHANGED <<taken, net>>
  /\ main' = [main EXCEPT ![p].at = "idle"]
  /\ GoesOn(p, main[p].reader)
  /\ UNCHANGED <<link, sent, mishaps>>

\* The host's answer to a ping.
AnswerPing(p) ==
  /\ MainAt(p, "answering")
  /\ Transmit(p)
  /\ main' = [main EXCEPT ![p].at = "idle"]
  /\ GoesOn(p, main[p].reader)
  /\ UNCHANGED <<link, sent, taken, mishaps>>
-----------------------------------------------------------------------------
MainStep(p) == SendCopy(p) \/ Post(p) \/ Take(p) \/ AnswerPing(p)
Reader(p, r) == Read(p, r) \/ NothingToRead(p, r) \/ Again(p, r) \/ Examine(p, r)
Repeater(p, r) == Finish(p, r) \/ NotYet(p, r) \/ RepeatCopy(p, r) \/ Lost(p, r)

Next ==
  \E p \in Phone :
    \/ Send(p) \/ MainStep(p) \/ BuildPing(p) \/ SendPing(p)
    \/ \E r \in Readers(p) : Reader(p, r)
    \/ \E r \in Repeaters(p) : Repeater(p, r) \/ Repeat(p, r)

Spec == Init /\ [][Next]_vars

(***************************************************************************)
(* The guest's threads sleep 10 ms and go on, its main run loop serves what*)
(* is handed to it, and half a second passes.  The host's threads may stay *)
(* in recvfrom for ever.                                                   *)
(***************************************************************************)
Guest == Other(Host)

LiveSpec ==
  /\ Spec
  /\ WF_vars(MainStep(Guest))
  /\ \A r \in Repeaters(Guest) : WF_vars(Repeater(Guest, r) \/ Read(Guest, r) \/ NothingToRead(Guest, r))
  /\ SF_vars(\E r \in Repeaters(Guest) : Repeat(Guest, r))
  /\ SF_vars(\E r \in Repeaters(Guest) : Lost(Guest, r))
  /\ SF_vars(\E r \in Repeaters(Guest) : Examine(Guest, r))
-----------------------------------------------------------------------------
Places == {"none", "check", "send", "read", "again", "ping", "lost", "done"} \union Handed
Mishaps == {"overlap", "sameNumber", "repeated", "crossed", "crowded"}

Packet == [kind : {"game", "response", "ping"}, k : Nat, stat : Nat]
Side == [up : BOOLEAN, neadSend : BOOLEAN, slot : Nat, header : Nat, buffer : Packet,
         gotData : BOOLEAN, last : Number \union {"none"}]
ThreadState == [at : Places, tries : Nat]

MainState == [at : {"idle", "sending", "posting", "taking", "answering"}, reader : Nat]

TypeOK ==
  /\ link \in [Phone -> Side]
  /\ main \in [Phone -> MainState]
  /\ DOMAIN thread = Phone
  /\ \A p \in Phone : thread[p] \in [Readers(p) -> ThreadState] /\ main[p].reader \in Readers(p)
  /\ net \in [Phone -> SUBSET Packet]
  /\ sent \in [Phone -> Seq(Number)] /\ \A p \in Phone : Len(sent[p]) <= MaxSends[p]
  /\ taken \in [Phone -> Seq([k : Nat, stat : Nat])]
  /\ mishaps \in [Phone -> SUBSET Mishaps]

(***************************************************************************)
(* What the game may rely on when the threads cross: a packet that reaches *)
(* receiveData is one the other phone sent, with contents at least as new. *)
(***************************************************************************)
Contract == INSTANCE LinkContract
KeepsLinkContract == Contract!LinkSpec

(***************************************************************************)
(* Why: every copy anywhere, and the buffer and slot copies are made from, *)
(* names a packet that was sent no later than its contents.                *)
(***************************************************************************)
Honest(p, packet) ==
  packet.kind = "game" => packet.stat \in 1..Len(sent[Other(p)]) /\ packet.k \in 1..packet.stat

HonestCopies(p) == \A packet \in net[p] \union {link[p].buffer} : Honest(p, packet)

Filled(p) ==
  /\ link[p].header \in 0..Len(sent[p])
  /\ \A r \in Repeaters(p) : thread[p][r].at # "none" => link[p].slot \in 1..Len(sent[p])
  /\ MainAt(p, "sending") \/ MainAt(p, "posting") => sent[p] # <<>>

Serving(p) == MainAt(p, "taking") \/ MainAt(p, "answering") => thread[p][main[p].reader].at \in Handed

LinkInv == \A p \in Phone : HonestCopies(p) /\ Filled(p) /\ Serving(p)

(***************************************************************************)
(* When the repetition ends (neadSend NO, and the connection stands), the  *)
(* last packet has reached the other phone's game; unless the game sent it *)
(* before the one before was acknowledged, or with the same number again,  *)
(* or a packet was sent twice, by a repeater or by a ping crossing it in   *)
(* the static buffer (its second acknowledgement is taken for the next     *)
(* packet's), or two readers shared the buffer.                            *)
(***************************************************************************)
Sequential(p) == mishaps[p] \intersect {"overlap", "sameNumber", "repeated", "crossed"} = {}
Orderly == \A p \in Phone : "crowded" \notin mishaps[p]

AckedMeansTaken ==
  \A p \in Phone :
    (Sequential(p) /\ Orderly /\ link[p].up /\ ~link[p].neadSend /\ sent[p] # <<>>)
      => \E i \in DOMAIN taken[Other(p)] : taken[Other(p)][i].k = Len(sent[p])

(***************************************************************************)
(* Nothing reaches the game twice unless a copy of it was sent again, by a *)
(* repeater or by a ping that found it in the static buffer, or two readers*)
(* shared the receive buffer.                                              *)
(***************************************************************************)
TakenOnce ==
  \A p \in Phone :
    (mishaps[Other(p)] \intersect {"repeated", "crossed"} = {} /\ "crowded" \notin mishaps[p])
      => \A i, j \in DOMAIN taken[p] : taken[p][i].k = taken[p][j].k => i = j

(***************************************************************************)
(* A repetition goes unnoticed by the game: two packets in a row never     *)
(* have the same number (ACCEL_STATE apart), unless a second reader put    *)
(* its packet into the buffer while the first one's was examined.          *)
(***************************************************************************)
RepetitionHidden ==
  \A p \in Phone :
    "crowded" \notin mishaps[p]
      => \A i \in DOMAIN taken[p] \ {1} :
           LET number == NumberOf(p, taken[p][i]) IN
           number = NumberOf(p, taken[p][i - 1]) => number = AccelState

\* Nothing reaches the game twice, or the game does not notice.
NotTwice == TakenOnce /\ RepetitionHidden

(***************************************************************************)
(* A repeater of the guest ends: by an answer, by giving the connection up *)
(* or because another one did.                                             *)
(***************************************************************************)
RepeatersEnd ==
  \A r \in Repeaters(Guest) : [](thread[Guest][r].at # "none" => <>(thread[Guest][r].at = "done"))
=============================================================================
