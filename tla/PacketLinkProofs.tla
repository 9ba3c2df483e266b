--------------------------- MODULE PacketLinkProofs ---------------------------
(***************************************************************************)
(* For any number of sends and tries: PacketLink implements LinkContract;  *)
(* nothing reaches the game twice unnoticed; and a packet whose repetition *)
(* has ended has reached the game.  The last two follow from OrderInv.     *)
(***************************************************************************)
EXTENDS LinkOrder, TLAPS

USE LinkAssumption DEF Phone, Other, Host, Loop, Readers, Repeaters

\* A thread given a new state.
LEMMA SetTypes ==
  ASSUME TypeOK, NEW p \in Phone, NEW r \in Readers(p), NEW t \in ThreadState,
         thread' = [thread EXCEPT ![p][r] = t]
  PROVE  DOMAIN thread' = Phone /\ \A q \in Phone : thread'[q] \in [Readers(q) -> ThreadState]
  <1>2. thread' = [thread EXCEPT ![p] = [thread[p] EXCEPT ![r] = t]]
    BY DEF TypeOK
  <1>3. [thread[p] EXCEPT ![r] = t] \in [Readers(p) -> ThreadState]
    BY DEF TypeOK
  <1> HIDE DEF Readers
  <1> QED
    BY <1>2, <1>3 DEF TypeOK

\* Moving one reading thread keeps the types.
LEMMA BecomesTypes ==
  ASSUME TypeOK, NEW p \in Phone, NEW r \in Readers(p), NEW place \in Places, Becomes(p, r, place)
  PROVE  DOMAIN thread' = Phone /\ \A q \in Phone : thread'[q] \in [Readers(q) -> ThreadState]
  <1>1. thread[p][r] \in ThreadState /\ thread[p][r].tries \in Nat
    BY DEF TypeOK, ThreadState
  <1>2. [at |-> place, tries |-> thread[p][r].tries] \in ThreadState
    BY <1>1 DEF ThreadState
  <1>3. thread' = [thread EXCEPT ![p][r] = [at |-> place, tries |-> thread[p][r].tries]]
    BY DEF Becomes
  <1> QED
    BY <1>2, <1>3, SetTypes

\* A packet put on the net.
LEMMA PutTypes ==
  ASSUME TypeOK, NEW p \in Phone, NEW packet \in Packet, PutOnNet(p, packet)
  PROVE  net' \in [Phone -> SUBSET Packet]
  <1>1. Other(p) \in Phone /\ net[Other(p)] \union {packet} \in SUBSET Packet
    BY DEF TypeOK
  <1> HIDE DEF Other
  <1> QED
    BY <1>1 DEF TypeOK, PutOnNet

\* Everything a phone may put on the net is a packet.
LEMMA DatagramType ==
  ASSUME TypeOK, NEW p \in Phone
  PROVE  Datagram(p) \in Packet /\ Response \in Packet /\ Ping \in Packet
  <1>1. link[p].header \in Nat /\ Len(sent[p]) \in Nat
    BY DEF TypeOK, Side
  <1> QED
    BY <1>1 DEF Datagram, Game, Response, Ping, Packet

\* sendto keeps the net well typed.
LEMMA TransmitTypes ==
  ASSUME TypeOK, NEW p \in Phone, Transmit(p)
  PROVE  net' \in [Phone -> SUBSET Packet]
  <1>1. CASE PutOnNet(p, Datagram(p))
    BY <1>1, PutTypes, DatagramType
  <1> QED
    BY <1>1 DEF Transmit, TypeOK

\* So does noting a mishap the mishaps.
LEMMA NoteTypes ==
  ASSUME TypeOK, NEW p \in Phone, NEW what \in SUBSET Mishaps, Note(p, what)
  PROVE  mishaps' \in [Phone -> SUBSET Mishaps]
  BY DEF TypeOK, Note

\* And the main thread turning to something else its state.
LEMMA MainAtTypes ==
  ASSUME TypeOK, NEW p \in Phone, NEW place \in {"idle", "sending", "posting", "taking", "answering"},
         main' = [main EXCEPT ![p].at = place]
  PROVE  main' \in [Phone -> MainState] /\ \A q \in Phone : main'[q].reader \in Readers(q)
  <1>1. main' = [main EXCEPT ![p] = [main[p] EXCEPT !.at = place]]
    BY DEF TypeOK
  <1>2. [main[p] EXCEPT !.at = place] \in MainState /\ [main[p] EXCEPT !.at = place].reader = main[p].reader
    <2>1. main[p] \in MainState
      BY DEF TypeOK
    <2> QED BY <2>1 DEF MainState
  <1> HIDE DEF Readers
  <1> QED
    BY <1>1, <1>2 DEF TypeOK, MainState

\* Typing: building a message (sendDataData).
LEMMA SendTypes ==
  ASSUME TypeOK, NEW p \in Phone, Send(p)
  PROVE  TypeOK'
  <1>1. PICK n \in Number : Send(p)!(n)
    BY DEF Send
  <1>2. link' \in [Phone -> Side]
    <2>1. link[p] \in Side /\ Len(sent[p]) + 1 \in Nat
      BY DEF TypeOK
    <2>2. [link[p] EXCEPT !.neadSend = TRUE, !.header = Len(sent[p]) + 1] \in Side
      BY <2>1 DEF Side
    <2>3. link' = [link EXCEPT ![p] = [link[p] EXCEPT !.neadSend = TRUE, !.header = Len(sent[p]) + 1]]
      BY <1>1 DEF TypeOK
    <2> QED
      BY <2>2, <2>3 DEF TypeOK
  <1>3. main' \in [Phone -> MainState] /\ \A q \in Phone : main'[q].reader \in Readers(q)
    BY <1>1, MainAtTypes
  <1>4. sent' \in [Phone -> Seq(Number)] /\ \A q \in Phone : Len(sent'[q]) <= MaxSends[q]
    BY <1>1 DEF TypeOK
  <1>5. mishaps' \in [Phone -> SUBSET Mishaps]
    BY <1>1, NoteTypes DEF If, Mishaps
  <1> QED
    BY <1>1, <1>2, <1>3, <1>4, <1>5 DEF TypeOK, MainState

\* Typing: sending it.
LEMMA SendCopyTypes ==
  ASSUME TypeOK, NEW p \in Phone, SendCopy(p)
  PROVE  TypeOK'
  <1>1. net' \in [Phone -> SUBSET Packet]
    BY TransmitTypes DEF SendCopy
  <1>2. main' \in [Phone -> MainState] /\ \A q \in Phone : main'[q].reader \in Readers(q)
    BY MainAtTypes DEF SendCopy
  <1> QED
    BY <1>1, <1>2 DEF TypeOK, SendCopy, MainState

\* Typing: putting the copy aside; the repeater is a thread because a packet was built.
LEMMA PostTypes ==
  ASSUME TypeOK, LinkInv, NEW p \in Phone, Post(p)
  PROVE  TypeOK'
  <1>1. link' \in [Phone -> Side]
    <2>0. link[p] \in Side /\ Len(sent[p]) \in Nat
      BY DEF TypeOK
    <2>1. [link[p] EXCEPT !.slot = Len(sent[p])] \in Side
      BY <2>0 DEF Side
    <2>2. link' = [link EXCEPT ![p] = [link[p] EXCEPT !.slot = Len(sent[p])]]
      BY DEF TypeOK, Post
    <2> QED
      BY <2>1, <2>2 DEF TypeOK
  <1>2. main' \in [Phone -> MainState] /\ \A q \in Phone : main'[q].reader \in Readers(q)
    BY MainAtTypes DEF Post
  <1>3. DOMAIN thread' = Phone /\ \A q \in Phone : thread'[q] \in [Readers(q) -> ThreadState]
    <2>1. Len(sent[p]) \in Readers(p)
      BY DEF TypeOK
    <2>2. [at |-> "check", tries |-> 1] \in ThreadState
      BY DEF ThreadState, Places
    <2> QED
      BY <2>1, <2>2, SetTypes DEF Post
  <1> QED
    BY <1>1, <1>2, <1>3 DEF TypeOK, Post, MainState

\* Typing: a reader goes on after its packet was dealt with.
LEMMA GoesOnTypes ==
  ASSUME TypeOK, NEW p \in Phone, NEW r \in Readers(p), GoesOn(p, r)
  PROVE  DOMAIN thread' = Phone /\ \A q \in Phone : thread'[q] \in [Readers(q) -> ThreadState]
  <1>1. PICK place \in Places : Becomes(p, r, place)
    BY DEF GoesOn, Places
  <1> QED
    BY <1>1, BecomesTypes

\* Typing: giving a packet to the game.
LEMMA TakeTypes ==
  ASSUME TypeOK, NEW p \in Phone, Take(p)
  PROVE  TypeOK'
  <1> DEFINE packet == link[p].buffer
  <1>1. packet \in Packet
    BY DEF TypeOK, Side
  <1>2. net' \in [Phone -> SUBSET Packet]
    BY PutTypes, DatagramType DEF Take, TypeOK
  <1>3. taken' \in [Phone -> Seq([k : Nat, stat : Nat])]
    <2>1. [k |-> packet.k, stat |-> packet.stat] \in [k : Nat, stat : Nat]
      BY <1>1 DEF Packet
    <2>2. taken' \in {taken, [taken EXCEPT ![p] = Append(@, [k |-> packet.k, stat |-> packet.stat])]}
      BY DEF Take
    <2>3. CASE taken' = taken
      BY <2>3 DEF TypeOK
    <2>4. CASE taken' = [taken EXCEPT ![p] = Append(@, [k |-> packet.k, stat |-> packet.stat])]
      BY <2>1, <2>4 DEF TypeOK
    <2> QED
      BY <2>2, <2>3, <2>4
  <1>4. main' \in [Phone -> MainState] /\ \A q \in Phone : main'[q].reader \in Readers(q)
    BY MainAtTypes DEF Take
  <1>5. DOMAIN thread' = Phone /\ \A q \in Phone : thread'[q] \in [Readers(q) -> ThreadState]
    BY GoesOnTypes DEF Take, TypeOK
  <1> QED
    BY <1>2, <1>3, <1>4, <1>5 DEF TypeOK, Take, MainState

\* Typing: the repeating thread.
LEMMA RepeaterTypes ==
  ASSUME TypeOK, NEW p \in Phone, NEW r \in Repeaters(p), Repeater(p, r)
  PROVE  TypeOK'
  <1>1. CASE Finish(p, r) \/ NotYet(p, r)
    <2>1. [at |-> "done", tries |-> 0] \in ThreadState /\ "read" \in Places /\ r \in Readers(p)
      BY DEF ThreadState, Places
    <2>2. DOMAIN thread' = Phone /\ \A q \in Phone : thread'[q] \in [Readers(q) -> ThreadState]
      BY <1>1, <2>1, SetTypes, BecomesTypes DEF Finish, NotYet
    <2> QED
      BY <1>1, <2>2 DEF TypeOK, Finish, NotYet
  <1>2. CASE RepeatCopy(p, r)
    <2>1. PICK place \in Places : Becomes(p, r, place)
      BY <1>2 DEF RepeatCopy, Places
    <2>2. DOMAIN thread' = Phone /\ \A q \in Phone : thread'[q] \in [Readers(q) -> ThreadState]
      BY <2>1, BecomesTypes
    <2>3. net' \in [Phone -> SUBSET Packet]
      BY <1>2, TransmitTypes DEF RepeatCopy
    <2> QED
      BY <1>2, <2>2, <2>3 DEF TypeOK, RepeatCopy
  <1>3. CASE Lost(p, r)
    <2>1. [at |-> "done", tries |-> 0] \in ThreadState /\ r \in Readers(p)
      BY DEF ThreadState, Places
    <2>2. DOMAIN thread' = Phone /\ \A q \in Phone : thread'[q] \in [Readers(q) -> ThreadState]
      BY <1>3, <2>1, SetTypes DEF Lost
    <2>3. link[p] \in Side
      BY DEF TypeOK
    <2>4. [link[p] EXCEPT !.up = FALSE, !.neadSend = @ /\ p # Host] \in Side
      BY <2>3 DEF Side
    <2>5. link' = [link EXCEPT ![p] = [link[p] EXCEPT !.up = FALSE, !.neadSend = @ /\ p # Host]]
      BY <1>3 DEF TypeOK, Lost
    <2>6. link' \in [Phone -> Side]
      BY <2>4, <2>5 DEF TypeOK
    <2> QED
      BY <1>3, <2>2, <2>6 DEF TypeOK, Lost
  <1> QED
    BY <1>1, <1>2, <1>3 DEF Repeater

\* Typing: the repeating thread rebuilds its message.
LEMMA RepeatTypes ==
  ASSUME TypeOK, NEW p \in Phone, NEW r \in Repeaters(p), Repeat(p, r)
  PROVE  TypeOK'
  <1>1. link[p] \in Side /\ link[p].slot \in Nat
    <2>1. link[p] \in Side
      BY DEF TypeOK
    <2> QED
      BY <2>1 DEF Side
  <1>2. [link[p] EXCEPT !.header = link[p].slot] \in Side
    BY <1>1 DEF Side
  <1>3. link' = [link EXCEPT ![p] = [link[p] EXCEPT !.header = link[p].slot]]
    BY DEF TypeOK, Repeat
  <1>4. link' \in [Phone -> Side]
    BY <1>2, <1>3 DEF TypeOK
  <1>5. r \in Readers(p) /\ thread[p][r].tries + 1 \in Nat
    <2>1. r \in Readers(p)
      OBVIOUS
    <2>2. thread[p][r] \in ThreadState
      BY <2>1 DEF TypeOK
    <2> QED
      BY <2>1, <2>2 DEF ThreadState
  <1>6. [at |-> "send", tries |-> thread[p][r].tries + 1] \in ThreadState
    BY <1>5 DEF ThreadState, Places
  <1>7. DOMAIN thread' = Phone /\ \A q \in Phone : thread'[q] \in [Readers(q) -> ThreadState]
    BY <1>5, <1>6, SetTypes DEF Repeat
  <1>8. mishaps' \in [Phone -> SUBSET Mishaps]
    BY NoteTypes DEF Repeat, If, Mishaps
  <1> QED
    BY <1>4, <1>7, <1>8 DEF TypeOK, Repeat

\* Typing: reading a datagram.
LEMMA ReadTypes ==
  ASSUME TypeOK, NEW p \in Phone, NEW r \in Readers(p), Read(p, r)
  PROVE  TypeOK'
  <1>1. PICK packet \in net[p] \union If(Ping, Pings /\ link[Other(p)].up) : Read(p, r)!(packet)
    BY DEF Read
  <1>2. packet \in Packet
    BY <1>1, DatagramType DEF TypeOK, If
  <1>3. net' \in [Phone -> SUBSET Packet]
    BY <1>1 DEF TypeOK
  <1>4. [link[p] EXCEPT !.buffer = packet, !.gotData = TRUE] \in Side
    <2>1. link[p] \in Side
      BY DEF TypeOK
    <2> QED
      BY <1>2, <2>1 DEF Side
  <1>5. link' = [link EXCEPT ![p] = [link[p] EXCEPT !.buffer = packet, !.gotData = TRUE]]
    BY <1>1 DEF TypeOK
  <1>6. link' \in [Phone -> Side]
    BY <1>4, <1>5 DEF TypeOK
  <1>7. DOMAIN thread' = Phone /\ \A q \in Phone : thread'[q] \in [Readers(q) -> ThreadState]
    BY <1>1, BecomesTypes DEF Places, Handed
  <1>8. mishaps' \in [Phone -> SUBSET Mishaps]
    BY <1>1, NoteTypes DEF If, Mishaps
  <1> QED
    BY <1>1, <1>3, <1>6, <1>7, <1>8 DEF TypeOK

\* Typing: nothing to read, and reading again.
LEMMA ReaderTypes ==
  ASSUME TypeOK, NEW p \in Phone, NEW r \in Readers(p), NothingToRead(p, r) \/ Again(p, r)
  PROVE  TypeOK'
  <1>1. CASE NothingToRead(p, r)
    <2>1. link[p] \in Side
      BY DEF TypeOK
    <2>2. [link[p] EXCEPT !.neadSend = @ /\ link[p].up] \in Side
      BY <2>1 DEF Side
    <2>3. link' = [link EXCEPT ![p] = [link[p] EXCEPT !.neadSend = @ /\ link[p].up]]
      BY <1>1 DEF TypeOK, NothingToRead
    <2>4. link' \in [Phone -> Side]
      BY <2>2, <2>3 DEF TypeOK
    <2>5. DOMAIN thread' = Phone /\ \A q \in Phone : thread'[q] \in [Readers(q) -> ThreadState]
      BY <1>1, BecomesTypes DEF NothingToRead, Places
    <2> QED
      BY <1>1, <2>4, <2>5 DEF TypeOK, NothingToRead
  <1>2. CASE Again(p, r)
    <2>1. PICK place \in Places : Becomes(p, r, place)
      BY <1>2 DEF Again, Places, Handed
    <2>2. DOMAIN thread' = Phone /\ \A q \in Phone : thread'[q] \in [Readers(q) -> ThreadState]
      BY <2>1, BecomesTypes
    <2>3. mishaps' \in [Phone -> SUBSET Mishaps]
      BY <1>2, NoteTypes DEF Again, If, Mishaps
    <2> QED
      BY <1>2, <2>2, <2>3 DEF TypeOK, Again
  <1> QED
    BY <1>1, <1>2

\* Typing: the loop builds and sends its ping.
LEMMA PingTypes ==
  ASSUME TypeOK, NEW p \in Phone, BuildPing(p) \/ SendPing(p)
  PROVE  TypeOK'
  <1>0. Loop \in Readers(p)
    BY DEF TypeOK
  <1>1. CASE BuildPing(p)
    <2>1. link[p] \in Side
      BY DEF TypeOK
    <2>2. [link[p] EXCEPT !.header = PingHeader] \in Side
      BY <2>1 DEF Side, PingHeader
    <2>3. link' = [link EXCEPT ![p] = [link[p] EXCEPT !.header = PingHeader]]
      BY <1>1 DEF TypeOK, BuildPing
    <2>4. link' \in [Phone -> Side]
      BY <2>2, <2>3 DEF TypeOK
    <2>5. DOMAIN thread' = Phone /\ \A q \in Phone : thread'[q] \in [Readers(q) -> ThreadState]
      BY <1>0, <1>1, BecomesTypes DEF BuildPing, Places
    <2>6. mishaps' \in [Phone -> SUBSET Mishaps]
      BY <1>1, NoteTypes DEF BuildPing, If, Mishaps
    <2> QED
      BY <1>1, <2>4, <2>5, <2>6 DEF TypeOK, BuildPing
  <1>2. CASE SendPing(p)
    <2>1. DOMAIN thread' = Phone /\ \A q \in Phone : thread'[q] \in [Readers(q) -> ThreadState]
      BY <1>0, <1>2, BecomesTypes DEF SendPing, Places
    <2>2. net' \in [Phone -> SUBSET Packet]
      BY <1>2, TransmitTypes DEF SendPing
    <2> QED
      BY <1>2, <2>1, <2>2 DEF TypeOK, SendPing
  <1> QED
    BY <1>1, <1>2

\* Typing: answering a ping.
LEMMA AnswerTypes ==
  ASSUME TypeOK, NEW p \in Phone, AnswerPing(p)
  PROVE  TypeOK'
  <1>1. net' \in [Phone -> SUBSET Packet]
    BY TransmitTypes DEF AnswerPing
  <1>2. main' \in [Phone -> MainState] /\ \A q \in Phone : main'[q].reader \in Readers(q)
    BY MainAtTypes DEF AnswerPing
  <1>3. DOMAIN thread' = Phone /\ \A q \in Phone : thread'[q] \in [Readers(q) -> ThreadState]
    BY GoesOnTypes DEF AnswerPing, TypeOK
  <1> QED
    BY <1>1, <1>2, <1>3 DEF TypeOK, AnswerPing, MainState

\* Typing: examining the buffer; the kept number is one that was sent.
LEMMA ExamineTypes ==
  ASSUME TypeOK, LinkInv, NEW p \in Phone, NEW r \in Readers(p), Examine(p, r)
  PROVE  TypeOK'
  <1> DEFINE packet == link[p].buffer
             last == IF packet.kind = "game" THEN NumberOf(p, packet) ELSE link[p].last
             header == IF packet = Ping /\ p = Host THEN PingHeader ELSE link[p].header
  <1>1. link[p] \in Side /\ packet \in Packet
    BY DEF TypeOK, Side
  <1>2. last \in Number \union {"none"}
    <2>1. CASE packet.kind = "game"
      <3>1. packet.k \in 1..Len(sent[Other(p)])
        BY <1>1, <2>1 DEF LinkInv, HonestCopies, Honest, TypeOK, Packet
      <3>2. Other(p) \in Phone /\ sent[Other(p)] \in Seq(Number)
        BY DEF TypeOK
      <3>3. sent[Other(p)][packet.k] \in Number
        <4> HIDE DEF packet
        <4> QED
          BY <3>1, <3>2
      <3> HIDE DEF Other
      <3> QED
        BY <2>1, <3>3 DEF NumberOf
    <2> QED
      BY <1>1, <2>1 DEF Side
  <1>3. [link[p] EXCEPT !.gotData = FALSE, !.last = last, !.neadSend = @ /\ ~EndsRepetition(packet),
                        !.header = header] \in Side
    <2>1. header \in Nat
      BY <1>1 DEF Side, PingHeader
    <2> HIDE DEF last, packet, header
    <2> QED
      BY <1>1, <1>2, <2>1 DEF Side
  <1>4. link' = [link EXCEPT ![p] = [link[p] EXCEPT !.gotData = FALSE, !.last = last, !.neadSend = @ /\ ~EndsRepetition(packet),
                                                   !.header = header]]
    BY DEF TypeOK, Examine
  <1>5. link' \in [Phone -> Side]
    BY <1>3, <1>4 DEF TypeOK
  <1>6. net' \in [Phone -> SUBSET Packet]
    BY PutTypes, DatagramType DEF Examine, TypeOK
  <1>7. DOMAIN thread' = Phone /\ \A q \in Phone : thread'[q] \in [Readers(q) -> ThreadState]
    BY GoesOnTypes DEF Examine, TypeOK
  <1>8. main' \in [Phone -> MainState] /\ \A q \in Phone : main'[q].reader \in Readers(q)
    <2>1. [at |-> "taking", reader |-> r] \in MainState /\ [at |-> "answering", reader |-> r] \in MainState
      BY DEF MainState, TypeOK
    <2>2. main' \in {main, [main EXCEPT ![p] = [at |-> "taking", reader |-> r]],
                           [main EXCEPT ![p] = [at |-> "answering", reader |-> r]]}
      BY DEF Examine
    <2> QED
      BY <2>1, <2>2 DEF TypeOK, MainState
  <1>9. mishaps' \in [Phone -> SUBSET Mishaps]
    BY NoteTypes DEF Examine, If, Mishaps
  <1> QED
    BY <1>5, <1>6, <1>7, <1>8, <1>9 DEF TypeOK, Examine, MainState

\* Every step keeps the types.
LEMMA StepTypes ==
  ASSUME TypeOK, LinkInv, [Next]_vars
  PROVE  TypeOK'
  <1>1. CASE UNCHANGED vars
    BY <1>1 DEF vars, TypeOK
  <1>2. CASE Next
    <2>1. PICK p \in Phone :
            \/ Send(p) \/ MainStep(p) \/ BuildPing(p) \/ SendPing(p)
            \/ \E r \in Readers(p) : Reader(p, r)
            \/ \E r \in Repeaters(p) : Repeater(p, r) \/ Repeat(p, r)
      BY <1>2 DEF Next
    <2> QED
      BY <2>1, SendTypes, SendCopyTypes, PostTypes, TakeTypes, AnswerTypes, PingTypes, ReadTypes, ReaderTypes, ExamineTypes,
         RepeaterTypes, RepeatTypes DEF MainStep, Reader
  <1> QED
    BY <1>1, <1>2

-----------------------------------------------------------------------------
\* A step that sends no packet and whose net and buffers hold honest packets keeps the copies honest.
LEMMA HonestCopiesKept ==
  ASSUME UNCHANGED sent,
         \A q \in Phone : \A packet \in net'[q] \union {link'[q].buffer} : Honest(q, packet)
  PROVE  \A q \in Phone : HonestCopies(q)'
  BY DEF HonestCopies, Honest

\* What is put on the net is honest.
LEMMA PutHonest ==
  ASSUME TypeOK, LinkInv, NEW p \in Phone, NEW packet \in Packet,
         Honest(Other(p), packet), PutOnNet(p, packet)
  PROVE  \A q \in Phone : \A c \in net'[q] : Honest(q, c)
  <1>1. Other(p) \in Phone
    OBVIOUS
  <1> HIDE DEF Other
  <1>2. \A q \in Phone : net'[q] \in {net[q], IF q = Other(p) THEN net[q] \union {packet} ELSE net[q]}
    BY <1>1 DEF TypeOK, PutOnNet
  <1> QED
    BY <1>1, <1>2 DEF LinkInv, HonestCopies

\* An answer and a ping claim nothing.
LEMMA ResponseHonest ==
  ASSUME NEW p \in Phone
  PROVE  Honest(p, Response) /\ Honest(p, Ping)
  BY DEF Honest, Response, Ping

\* A datagram made from a header that is set is honest.
LEMMA DatagramHonest ==
  ASSUME TypeOK, LinkInv, NEW p \in Phone, link[p].header # PingHeader
  PROVE  Honest(Other(p), Datagram(p))
  <1>1. Other(Other(p)) = p /\ Len(sent[p]) \in Nat /\ link[p].header \in 1..Len(sent[p])
    BY DEF TypeOK, LinkInv, Filled, PingHeader
  <1> HIDE DEF Other
  <1> QED
    BY <1>1 DEF Honest, Datagram, Game

\* What sendto puts on the net is honest.
LEMMA TransmitHonest ==
  ASSUME TypeOK, LinkInv, NEW p \in Phone, Transmit(p)
  PROVE  \A q \in Phone : \A c \in net'[q] : Honest(q, c)
  <1>1. CASE link[p].header = PingHeader
    BY <1>1 DEF Transmit, LinkInv, HonestCopies
  <1>2. CASE link[p].header # PingHeader
    BY <1>2, DatagramType, DatagramHonest, PutHonest DEF Transmit
  <1> QED
    BY <1>1, <1>2

\* What Filled says of the repeaters is kept by a thread that does not start.
Quiet == \A q \in Phone : \A t \in Repeaters(q) : thread'[q][t].at # "none" => thread[q][t].at # "none"

\* A thread that runs already does not start.
LEMMA SetQuiet ==
  ASSUME TypeOK, NEW p \in Phone, NEW r \in Readers(p), thread[p][r].at # "none",
         NEW new, thread' = [thread EXCEPT ![p][r] = new]
  PROVE  Quiet
  <1>1. \A q \in Phone : \A t \in Repeaters(q) : t \in Readers(q)
    OBVIOUS
  <1>2. thread' = [thread EXCEPT ![p] = [thread[p] EXCEPT ![r] = new]]
    BY DEF TypeOK
  <1>3. DOMAIN thread[p] = Readers(p) /\ DOMAIN thread = Phone
    BY DEF TypeOK
  <1> HIDE DEF Readers, Repeaters
  <1>4. ASSUME NEW q \in Phone, NEW t \in Repeaters(q)
        PROVE  thread'[q][t] = IF q = p /\ t = r THEN new ELSE thread[q][t]
    BY <1>1, <1>2, <1>3, <1>4
  <1> QED
    BY <1>4 DEF Quiet

\* Nor by going to another place.
LEMMA BecomesQuiet ==
  ASSUME TypeOK, NEW p \in Phone, NEW r \in Readers(p), thread[p][r].at # "none",
         NEW place, Becomes(p, r, place)
  PROVE  Quiet
  BY SetQuiet DEF Becomes

\* A step that starts no repeater and builds no packet keeps Filled.
LEMMA FilledKept ==
  ASSUME LinkInv, UNCHANGED sent, Quiet,
         \A q \in Phone : link'[q].slot = link[q].slot /\ link'[q].header \in {PingHeader, link[q].header},
         \A q \in Phone : main'[q].at \in {main[q].at, "idle", "taking", "answering"}
  PROVE  \A q \in Phone : Filled(q)'
  <1>1. \A q \in Phone : 0 \in 0..Len(sent[q])
    BY DEF LinkInv, Filled
  <1> QED
    BY <1>1 DEF LinkInv, Filled, Quiet, MainAt, PingHeader

\* A thread that the main thread is not serving leaves Serving as it is.
LEMMA SetServing ==
  ASSUME TypeOK, LinkInv, NEW p \in Phone, NEW r \in Readers(p), thread[p][r].at \notin Handed,
         NEW new, thread' = [thread EXCEPT ![p][r] = new], UNCHANGED main
  PROVE  \A q \in Phone : Serving(q)'
  <1>1. thread' = [thread EXCEPT ![p] = [thread[p] EXCEPT ![r] = new]]
    BY DEF TypeOK
  <1>2. \A q \in Phone : main[q].reader \in Readers(q) /\ Serving(q)
    BY DEF TypeOK, LinkInv
  <1> HIDE DEF Readers, Repeaters
  <1> QED
    BY <1>1, <1>2 DEF TypeOK, Serving, MainAt

\* A thread that holds no packet may go anywhere: the main thread does not serve it.
LEMMA BecomesServing ==
  ASSUME TypeOK, LinkInv, NEW p \in Phone, NEW r \in Readers(p), thread[p][r].at \notin Handed,
         NEW place, Becomes(p, r, place), UNCHANGED main
  PROVE  \A q \in Phone : Serving(q)'
  BY SetServing DEF Becomes

\* Neither does the main thread of phone p when it turns to something else.
LEMMA MainServing ==
  ASSUME TypeOK, LinkInv, NEW p \in Phone, main'[p].at \notin {"taking", "answering"},
         \A q \in Phone : q # p => main'[q] = main[q] /\ thread'[q] = thread[q]
  PROVE  \A q \in Phone : Serving(q)'
  BY DEF LinkInv, Serving, MainAt

\* LinkInv: building a message.
LEMMA SendKeeps ==
  ASSUME TypeOK, LinkInv, NEW p \in Phone, Send(p)
  PROVE  LinkInv'
  <1>1. PICK n \in Number : Send(p)!(n)
    BY DEF Send
  <1>2. /\ sent'[p] = Append(sent[p], n) /\ Len(sent'[p]) = Len(sent[p]) + 1 /\ Len(sent[p]) \in Nat
        /\ \A q \in Phone : q # p => sent'[q] = sent[q]
    BY <1>1 DEF TypeOK
  <1>3. \A q \in Phone : Len(sent[q]) \in Nat /\ Len(sent'[q]) >= Len(sent[q])
    BY <1>2 DEF TypeOK
  <1>4. /\ \A q \in Phone : link'[q].buffer = link[q].buffer /\ link'[q].slot = link[q].slot
        /\ \A q \in Phone : q # p => link'[q] = link[q] /\ main'[q] = main[q]
        /\ link'[p].header = Len(sent[p]) + 1
        /\ main'[p].at = "sending"
    <2>1. link[p] \in Side /\ main[p] \in MainState
      BY DEF TypeOK, MainState
    <2>2. link' = [link EXCEPT ![p] = [link[p] EXCEPT !.neadSend = TRUE, !.header = Len(sent[p]) + 1]]
      BY <1>1 DEF TypeOK
    <2>3. main' = [main EXCEPT ![p] = [main[p] EXCEPT !.at = "sending"]]
      BY <1>1 DEF TypeOK
    <2> QED
      BY <2>1, <2>2, <2>3 DEF TypeOK, Side, MainState
  <1>5. \A q \in Phone : HonestCopies(q)'
    <2> SUFFICES ASSUME NEW q \in Phone, NEW packet \in net[q] \union {link[q].buffer}
                 PROVE  Honest(q, packet)'
      BY <1>1, <1>4 DEF HonestCopies
    <2>1. Honest(q, packet) /\ packet \in Packet
      BY DEF LinkInv, HonestCopies, TypeOK, Side
    <2>2. Other(q) \in Phone
      OBVIOUS
    <2>3. Len(sent[Other(q)]) \in Nat /\ Len(sent'[Other(q)]) \in Nat /\ Len(sent'[Other(q)]) >= Len(sent[Other(q)])
      <3>1. Len(sent[Other(q)]) \in Nat /\ Len(sent'[Other(q)]) >= Len(sent[Other(q)])
        BY <1>3, <2>2
      <3>2. CASE Other(q) = p
        BY <1>2, <3>1, <3>2
      <3>3. CASE Other(q) # p
        BY <1>2, <2>2, <3>1, <3>3
      <3> QED BY <3>2, <3>3
    <2> QED
      BY <2>1, <2>3 DEF Honest, Packet
  <1>6. \A q \in Phone : link'[q].header \in 0..Len(sent'[q])
    <2>1. link'[p].header \in 0..Len(sent'[p])
      BY <1>2, <1>4
    <2>2. ASSUME NEW q \in Phone, q # p PROVE link'[q].header \in 0..Len(sent'[q])
      BY <1>2, <1>4, <2>2 DEF LinkInv, Filled
    <2> QED
      BY <2>1, <2>2
  <1>7. \A q \in Phone : Filled(q)'
    <2>1. ASSUME NEW q \in Phone, NEW r \in Repeaters(q), thread[q][r].at # "none"
          PROVE  link'[q].slot \in 1..Len(sent'[q])
      <3>1. link[q].slot \in 1..Len(sent[q]) /\ link'[q].slot = link[q].slot
        BY <1>4, <2>1 DEF LinkInv, Filled
      <3>2. Len(sent[q]) \in Nat /\ Len(sent'[q]) \in Nat /\ Len(sent'[q]) >= Len(sent[q])
        BY <1>2, <1>3, SMTT(60) DEF TypeOK
      <3> QED
        BY <3>1, <3>2
    <2>2. thread' = thread
      BY <1>1
    <2>3. \A q \in Phone : MainAt(q, "sending")' \/ MainAt(q, "posting")' => sent'[q] # <<>>
      <3>1. sent'[p] # <<>>
        <4>1. Len(sent'[p]) # 0
          BY <1>2
        <4> QED
          BY <4>1
      <3>2. ASSUME NEW q \in Phone, q # p PROVE main'[q] = main[q] /\ sent'[q] = sent[q]
        BY <1>2, <1>4, <3>2
      <3> QED
        BY <3>1, <3>2 DEF LinkInv, Filled, MainAt
    <2> HIDE DEF Repeaters
    <2> QED
      BY <1>6, <2>1, <2>2, <2>3 DEF Filled
  <1>8. \A q \in Phone : Serving(q)'
    BY <1>1, <1>4, MainServing
  <1> QED
    BY <1>5, <1>7, <1>8 DEF LinkInv

\* LinkInv: sending it.
LEMMA SendCopyKeeps ==
  ASSUME TypeOK, LinkInv, NEW p \in Phone, SendCopy(p)
  PROVE  LinkInv'
  <1>1. UNCHANGED <<link, sent, thread>>
    BY DEF SendCopy
  <1>2. \A q \in Phone : \A c \in net'[q] : Honest(q, c)
    BY TransmitHonest DEF SendCopy
  <1>3. \A q \in Phone : HonestCopies(q)'
    BY <1>1, <1>2, HonestCopiesKept DEF LinkInv, HonestCopies
  <1>4. sent[p] # <<>>
    BY DEF SendCopy, LinkInv, Filled
  <1>5. main' = [main EXCEPT ![p] = [main[p] EXCEPT !.at = "posting"]] /\ main[p] \in MainState
    BY DEF SendCopy, TypeOK, MainState
  <1>6. \A q \in Phone : main'[q].at = IF q = p THEN "posting" ELSE main[q].at
    BY <1>5 DEF MainState, TypeOK
  <1>7. \A q \in Phone : Filled(q)'
    BY <1>1, <1>4, <1>6 DEF LinkInv, Filled, MainAt
  <1>8. \A q \in Phone : Serving(q)'
    <2>1. \A q \in Phone : q # p => main'[q] = main[q]
      BY <1>5
    <2> QED
      BY <1>1, <1>6, <2>1, MainServing
  <1> QED
    BY <1>3, <1>7, <1>8 DEF LinkInv

\* LinkInv: putting the copy aside.
LEMMA PostKeeps ==
  ASSUME TypeOK, LinkInv, NEW p \in Phone, Post(p)
  PROVE  LinkInv'
  <1>1. sent[p] # <<>> /\ Len(sent[p]) \in 1..MaxSends[p] /\ UNCHANGED <<sent, net>>
    BY DEF Post, LinkInv, Filled, TypeOK
  <1>2. /\ \A q \in Phone : q # p => link'[q] = link[q] /\ thread'[q] = thread[q] /\ main'[q] = main[q]
        /\ link'[p].slot = Len(sent[p]) /\ link'[p].header = link[p].header
        /\ link'[p].buffer = link[p].buffer /\ main'[p].at = "idle"
    BY DEF Post, TypeOK, Side
  <1>3. thread' = [thread EXCEPT ![p] = [thread[p] EXCEPT ![Len(sent[p])] = [at |-> "check", tries |-> 1]]]
    BY DEF Post, TypeOK
  <1>4. \A q \in Phone : HonestCopies(q)'
    BY <1>1, <1>2, HonestCopiesKept DEF LinkInv, HonestCopies
  <1>6. Filled(p)'
    BY <1>1, <1>2 DEF LinkInv, Filled, MainAt
  <1>7. ASSUME NEW q \in Phone, q # p PROVE Filled(q)'
    BY <1>1, <1>2, <1>7 DEF LinkInv, Filled, MainAt
  <1>8. \A q \in Phone : Serving(q)'
    BY <1>2, MainServing
  <1> QED
    BY <1>4, <1>6, <1>7, <1>8 DEF LinkInv

\* A field of one side that copies are not made from may change.
LEMMA MainUnchanged ==
  ASSUME UNCHANGED main
  PROVE  \A q \in Phone : main'[q].at \in {main[q].at, "idle", "taking", "answering"}
  OBVIOUS

\* LinkInv: the repeating thread.
LEMMA RepeaterKeeps ==
  ASSUME TypeOK, LinkInv, NEW p \in Phone, NEW r \in Repeaters(p), Repeater(p, r)
  PROVE  LinkInv'
  <1>1. r \in Readers(p) /\ link[p] \in Side
    BY DEF TypeOK
  <1>2. \A q \in Phone : link'[q].slot = link[q].slot /\ link'[q].header = link[q].header
                       /\ link'[q].buffer = link[q].buffer
    <2>1. CASE UNCHANGED link
      BY <2>1
    <2>2. CASE Lost(p, r)
      <3>1. link' = [link EXCEPT ![p] = [link[p] EXCEPT !.up = FALSE, !.neadSend = @ /\ p # Host]]
        BY <2>2 DEF TypeOK, Lost
      <3> QED
        BY <1>1, <3>1 DEF TypeOK, Side
    <2> QED
      BY <2>1, <2>2 DEF Repeater, Finish, NotYet, RepeatCopy
  <1>3. Quiet
    BY <1>1, SetQuiet, BecomesQuiet, ZenonT(60) DEF Repeater, Finish, NotYet, RepeatCopy, Lost
  <1>4. UNCHANGED <<sent, main>>
    BY DEF Repeater, Finish, NotYet, RepeatCopy, Lost
  <1>5. \A q \in Phone : \A c \in net'[q] : Honest(q, c)
    <2>1. CASE RepeatCopy(p, r)
      BY <2>1, TransmitHonest DEF RepeatCopy
    <2>2. CASE UNCHANGED net
      BY <2>2 DEF LinkInv, HonestCopies
    <2> QED
      BY <2>1, <2>2 DEF Repeater, Finish, NotYet, Lost
  <1>6. \A q \in Phone : HonestCopies(q)'
    BY <1>2, <1>4, <1>5, HonestCopiesKept DEF LinkInv, HonestCopies
  <1>7. \A q \in Phone : Serving(q)'
    BY <1>1, <1>4, SetServing, BecomesServing, ZenonT(60) DEF Repeater, Finish, NotYet, RepeatCopy, Lost, Handed
  <1> QED
    BY <1>2, <1>3, <1>4, <1>6, <1>7, FilledKept, MainUnchanged DEF LinkInv

\* LinkInv: the repeating thread rebuilds its message from the slot.
LEMMA RepeatKeeps ==
  ASSUME TypeOK, LinkInv, NEW p \in Phone, NEW r \in Repeaters(p), Repeat(p, r)
  PROVE  LinkInv'
  <1>1. r \in Readers(p) /\ link[p] \in Side /\ UNCHANGED <<sent, main, net>>
    BY DEF TypeOK, Repeat
  <1>2. link[p].slot \in 1..Len(sent[p])
    BY DEF Repeat, LinkInv, Filled
  <1>3. link' = [link EXCEPT ![p] = [link[p] EXCEPT !.header = link[p].slot]]
    BY DEF TypeOK, Repeat
  <1>4. /\ \A q \in Phone : link'[q].slot = link[q].slot /\ link'[q].buffer = link[q].buffer
        /\ link'[p].header = link[p].slot /\ \A q \in Phone : q # p => link'[q].header = link[q].header
    BY <1>1, <1>3 DEF TypeOK, Side
  <1>5. \A q \in Phone : HonestCopies(q)'
    BY <1>1, <1>4, HonestCopiesKept DEF LinkInv, HonestCopies
  <1>6. Quiet
    BY <1>1, SetQuiet DEF Repeat
  <1>7. \A q \in Phone : Filled(q)'
    <2>1. Filled(p)'
      <3>1. link'[p].header \in 0..Len(sent[p])
        BY <1>2, <1>4
      <3> QED
        BY <1>1, <1>4, <1>6, <3>1 DEF LinkInv, Filled, MainAt, Quiet
    <2>2. ASSUME NEW q \in Phone, q # p PROVE Filled(q)'
      BY <1>1, <1>4, <1>6, <2>2 DEF LinkInv, Filled, MainAt, Quiet
    <2> QED
      BY <2>1, <2>2
  <1>8. \A q \in Phone : Serving(q)'
    BY <1>1, SetServing DEF Repeat, Handed
  <1> QED
    BY <1>5, <1>7, <1>8 DEF LinkInv

\* LinkInv: reading a datagram.
LEMMA ReadKeeps ==
  ASSUME TypeOK, LinkInv, NEW p \in Phone, NEW r \in Readers(p), Read(p, r)
  PROVE  LinkInv'
  <1>1. PICK packet \in net[p] \union If(Ping, Pings /\ link[Other(p)].up) : Read(p, r)!(packet)
    BY DEF Read
  <1>2. Honest(p, packet) /\ link[p] \in Side /\ UNCHANGED <<sent, main>>
    BY <1>1, ResponseHonest DEF LinkInv, HonestCopies, If, TypeOK
  <1>3. link' = [link EXCEPT ![p] = [link[p] EXCEPT !.buffer = packet, !.gotData = TRUE]]
    BY <1>1 DEF TypeOK
  <1>4. /\ \A q \in Phone : link'[q].slot = link[q].slot /\ link'[q].header = link[q].header
        /\ link'[p].buffer = packet /\ \A q \in Phone : q # p => link'[q].buffer = link[q].buffer
    BY <1>2, <1>3 DEF TypeOK, Side
  <1>5. \A q \in Phone : net'[q] \subseteq net[q]
    BY <1>1 DEF TypeOK
  <1>6. \A q \in Phone : HonestCopies(q)'
    BY <1>2, <1>4, <1>5, HonestCopiesKept DEF LinkInv, HonestCopies
  <1>7. Quiet
    BY <1>1, BecomesQuiet
  <1>8. \A q \in Phone : Serving(q)'
    BY <1>1, <1>2, BecomesServing DEF Handed
  <1> QED
    BY <1>2, <1>4, <1>6, <1>7, <1>8, FilledKept, MainUnchanged DEF LinkInv

\* LinkInv: nothing to read, and reading again.
LEMMA ReaderKeeps ==
  ASSUME TypeOK, LinkInv, NEW p \in Phone, NEW r \in Readers(p), NothingToRead(p, r) \/ Again(p, r)
  PROVE  LinkInv'
  <1>1. link[p] \in Side /\ UNCHANGED <<sent, main, net>>
    BY DEF TypeOK, NothingToRead, Again
  <1>2. \A q \in Phone : link'[q].slot = link[q].slot /\ link'[q].header = link[q].header
                       /\ link'[q].buffer = link[q].buffer
    <2>1. CASE UNCHANGED link
      BY <2>1
    <2>2. CASE NothingToRead(p, r)
      <3>1. link' = [link EXCEPT ![p] = [link[p] EXCEPT !.neadSend = @ /\ link[p].up]]
        BY <2>2 DEF TypeOK, NothingToRead
      <3> QED
        BY <1>1, <3>1 DEF TypeOK, Side
    <2> QED
      BY <2>1, <2>2 DEF Again
  <1>3. Quiet
    BY BecomesQuiet DEF NothingToRead, Again
  <1>4. \A q \in Phone : HonestCopies(q)'
    BY <1>1, <1>2, HonestCopiesKept DEF LinkInv, HonestCopies
  <1>5. \A q \in Phone : Serving(q)'
    BY <1>1, BecomesServing DEF NothingToRead, Again, Handed
  <1> QED
    BY <1>1, <1>2, <1>3, <1>4, <1>5, FilledKept, MainUnchanged DEF LinkInv

\* A reader that goes on starts no thread.
LEMMA GoesOnQuiet ==
  ASSUME TypeOK, NEW p \in Phone, NEW r \in Readers(p), thread[p][r].at # "none", GoesOn(p, r)
  PROVE  Quiet
  <1>1. PICK place \in {"read", "again", "check"} : Becomes(p, r, place)
    BY DEF GoesOn
  <1> QED
    BY <1>1, BecomesQuiet

\* LinkInv: examining the buffer.
LEMMA ExamineKeeps ==
  ASSUME TypeOK, LinkInv, NEW p \in Phone, NEW r \in Readers(p), Examine(p, r)
  PROVE  LinkInv'
  <1>1. link[p] \in Side /\ UNCHANGED sent /\ thread[p][r].at # "none"
    BY DEF TypeOK, Examine, Handed
  <1>2. \A q \in Phone : link'[q].slot = link[q].slot /\ link'[q].header \in {PingHeader, link[q].header}
                       /\ link'[q].buffer = link[q].buffer
    BY <1>1 DEF Examine, TypeOK, Side
  <1>3. Quiet
    BY <1>1, GoesOnQuiet DEF Examine, Quiet
  <1>4. \A q \in Phone : main'[q].at \in {main[q].at, "idle", "taking", "answering"}
    BY DEF Examine, TypeOK
  <1>5. \A q \in Phone : \A c \in net'[q] : Honest(q, c)
    <2>1. CASE PutOnNet(p, Response)
      <3>1. Other(p) \in Phone
        OBVIOUS
      <3> QED
        BY <2>1, <3>1, DatagramType, ResponseHonest, PutHonest
    <2>2. CASE UNCHANGED net
      BY <2>2 DEF LinkInv, HonestCopies
    <2> QED
      BY <2>1, <2>2 DEF Examine
  <1>6. \A q \in Phone : HonestCopies(q)'
    BY <1>1, <1>2, <1>5, HonestCopiesKept DEF LinkInv, HonestCopies
  <1>7. \A q \in Phone : Serving(q)'
    <2>1. CASE UNCHANGED thread /\ \E place \in {"taking", "answering"} :
                 main' = [main EXCEPT ![p] = [at |-> place, reader |-> r]]
      <3>1. thread[p][r].at \in Handed
        BY DEF Examine
      <3> QED
        BY <2>1, <3>1 DEF LinkInv, Serving, MainAt, TypeOK
    <2>2. CASE UNCHANGED main /\ GoesOn(p, r)
      <3>1. main'[p].at \notin {"taking", "answering"}
        BY <2>2 DEF Examine, MainAt
      <3>2. \A q \in Phone : q # p => thread'[q] = thread[q]
        BY <2>2 DEF GoesOn, Becomes, TypeOK
      <3> QED
        BY <2>2, <3>1, <3>2, MainServing
    <2> QED
      BY <2>1, <2>2 DEF Examine
  <1> QED
    BY <1>1, <1>2, <1>3, <1>4, <1>6, <1>7, FilledKept DEF LinkInv

\* LinkInv: giving a packet to the game.
LEMMA TakeKeeps ==
  ASSUME TypeOK, LinkInv, NEW p \in Phone, Take(p)
  PROVE  LinkInv'
  <1>1. main[p].reader \in Readers(p) /\ thread[p][main[p].reader].at # "none" /\ UNCHANGED <<link, sent>>
    BY DEF Take, TypeOK, LinkInv, Serving, Handed
  <1>2. Quiet
    BY <1>1, GoesOnQuiet DEF Take
  <1>3. main' = [main EXCEPT ![p] = [main[p] EXCEPT !.at = "idle"]] /\ main[p] \in MainState
    BY DEF Take, TypeOK, MainState
  <1>4. main'[p].at = "idle" /\ \A q \in Phone : q # p => main'[q] = main[q]
    BY <1>3 DEF TypeOK, MainState
  <1>5. \A q \in Phone : \A c \in net'[q] : Honest(q, c)
    <2>1. CASE PutOnNet(p, Response)
      <3>1. Other(p) \in Phone
        OBVIOUS
      <3> QED
        BY <2>1, <3>1, DatagramType, ResponseHonest, PutHonest
    <2>2. CASE UNCHANGED net
      BY <2>2 DEF LinkInv, HonestCopies
    <2> QED
      BY <2>1, <2>2 DEF Take
  <1>6. \A q \in Phone : HonestCopies(q)'
    BY <1>1, <1>5, HonestCopiesKept DEF LinkInv, HonestCopies
  <1>7. \A q \in Phone : Filled(q)'
    BY <1>1, <1>2, <1>4, FilledKept
  <1>8. \A q \in Phone : Serving(q)'
    <2>1. \A q \in Phone : q # p => thread'[q] = thread[q]
      BY DEF Take, GoesOn, Becomes, TypeOK
    <2> QED
      BY <1>4, <2>1, MainServing
  <1> QED
    BY <1>6, <1>7, <1>8 DEF LinkInv

\* LinkInv: answering a ping.
LEMMA AnswerKeeps ==
  ASSUME TypeOK, LinkInv, NEW p \in Phone, AnswerPing(p)
  PROVE  LinkInv'
  <1>1. main[p].reader \in Readers(p) /\ thread[p][main[p].reader].at # "none" /\ UNCHANGED <<link, sent>>
    BY DEF AnswerPing, TypeOK, LinkInv, Serving, Handed
  <1>2. Quiet
    BY <1>1, GoesOnQuiet DEF AnswerPing
  <1>3. main' = [main EXCEPT ![p] = [main[p] EXCEPT !.at = "idle"]] /\ main[p] \in MainState
    BY DEF AnswerPing, TypeOK, MainState
  <1>4. main'[p].at = "idle" /\ \A q \in Phone : q # p => main'[q] = main[q]
    BY <1>3 DEF TypeOK, MainState
  <1>5. \A q \in Phone : HonestCopies(q)'
    BY <1>1, TransmitHonest, HonestCopiesKept DEF AnswerPing, LinkInv, HonestCopies
  <1>6. \A q \in Phone : Filled(q)'
    BY <1>1, <1>2, <1>4, FilledKept
  <1>7. \A q \in Phone : Serving(q)'
    <2>1. \A q \in Phone : q # p => thread'[q] = thread[q]
      BY DEF AnswerPing, GoesOn, Becomes, TypeOK
    <2> QED
      BY <1>4, <2>1, MainServing
  <1> QED
    BY <1>5, <1>6, <1>7 DEF LinkInv

\* LinkInv: the loop builds and sends its ping.
LEMMA PingKeeps ==
  ASSUME TypeOK, LinkInv, NEW p \in Phone, BuildPing(p) \/ SendPing(p)
  PROVE  LinkInv'
  <1>1. link[p] \in Side /\ Loop \in Readers(p) /\ UNCHANGED <<sent, main>>
    BY DEF TypeOK, BuildPing, SendPing
  <1>2. \A q \in Phone : link'[q].slot = link[q].slot /\ link'[q].header \in {PingHeader, link[q].header}
                       /\ link'[q].buffer = link[q].buffer
    <2>1. CASE BuildPing(p)
      <3>1. link' = [link EXCEPT ![p] = [link[p] EXCEPT !.header = PingHeader]]
        BY <2>1 DEF TypeOK, BuildPing
      <3> QED
        BY <1>1, <3>1 DEF TypeOK, Side
    <2> QED
      BY <2>1 DEF SendPing
  <1>3. Quiet
    BY <1>1, BecomesQuiet DEF BuildPing, SendPing
  <1>4. \A q \in Phone : \A c \in net'[q] : Honest(q, c)
    BY TransmitHonest DEF BuildPing, SendPing, LinkInv, HonestCopies
  <1>5. \A q \in Phone : HonestCopies(q)'
    BY <1>1, <1>2, <1>4, HonestCopiesKept DEF LinkInv, HonestCopies
  <1>6. \A q \in Phone : Serving(q)'
    BY <1>1, BecomesServing DEF BuildPing, SendPing, Handed
  <1> QED
    BY <1>1, <1>2, <1>3, <1>5, <1>6, FilledKept, MainUnchanged DEF LinkInv

\* LinkInv holds at first.
LEMMA InitHolds ==
  ASSUME Init
  PROVE  TypeOK /\ LinkInv
  <1>1. Ping \in Packet /\ \A q \in Phone : Honest(q, Ping)
    BY DEF Ping, Packet, Honest
  <1>2. [up |-> TRUE, neadSend |-> FALSE, slot |-> 0, header |-> 0,
         buffer |-> Ping, gotData |-> FALSE, last |-> "none"] \in Side
    BY <1>1 DEF Side
  <1>3. \A q \in Phone : thread[q] \in [Readers(q) -> ThreadState]
    BY DEF Init, ThreadState, Places
  <1>4. \A q \in Phone : MaxSends[q] \in Nat
    OBVIOUS
  <1>5. TypeOK
    <2>1. link \in [Phone -> Side] /\ net \in [Phone -> SUBSET Packet] /\ mishaps \in [Phone -> SUBSET Mishaps]
      BY <1>2 DEF Init
    <2>2. main \in [Phone -> MainState] /\ \A q \in Phone : main[q].reader \in Readers(q)
      BY <1>4 DEF Init, MainState
    <2>3. /\ sent \in [Phone -> Seq(Number)] /\ \A q \in Phone : Len(sent[q]) <= MaxSends[q]
          /\ taken \in [Phone -> Seq([k : Nat, stat : Nat])]
      BY <1>4 DEF Init
    <2>4. DOMAIN thread = Phone
      BY DEF Init
    <2> QED
      BY <1>3, <2>1, <2>2, <2>3, <2>4 DEF TypeOK
  <1>6. \A q \in Phone : \A r \in Repeaters(q) : thread[q][r].at = "none"
    BY <1>4 DEF Init
  <1>7. LinkInv
    BY <1>1, <1>6 DEF Init, LinkInv, HonestCopies, Filled, Serving, MainAt, PingHeader
  <1> QED
    BY <1>5, <1>7

\* Every step keeps LinkInv.
LEMMA StepKeeps ==
  ASSUME TypeOK, LinkInv, [Next]_vars
  PROVE  LinkInv'
  <1>1. CASE UNCHANGED vars
    BY <1>1 DEF vars, LinkInv, HonestCopies, Filled, Serving, Honest, MainAt
  <1>2. CASE Next
    <2>1. PICK p \in Phone :
            \/ Send(p) \/ MainStep(p) \/ BuildPing(p) \/ SendPing(p)
            \/ \E r \in Readers(p) : Reader(p, r)
            \/ \E r \in Repeaters(p) : Repeater(p, r) \/ Repeat(p, r)
      BY <1>2 DEF Next
    <2> QED
      BY <2>1, SendKeeps, SendCopyKeeps, PostKeeps, TakeKeeps, AnswerKeeps, PingKeeps, ReadKeeps, ReaderKeeps, ExamineKeeps,
         RepeaterKeeps, RepeatKeeps DEF MainStep, Reader
  <1> QED
    BY <1>1, <1>2

\* The types and the inductive invariant together.
LEMMA Invariants == Spec => [](TypeOK /\ LinkInv)
  <1>1. Init => TypeOK /\ LinkInv
    BY InitHolds
  <1>2. TypeOK /\ LinkInv /\ [Next]_vars => (TypeOK /\ LinkInv)'
    BY StepTypes, StepKeeps
  <1> QED
    BY <1>1, <1>2, PTL DEF Spec

(***************************************************************************)
(* The variables of the packet link keep their types, whatever the number  *)
(* of sends and of tries.                                                  *)
(***************************************************************************)
THEOREM LinkTypes == Spec => []TypeOK
  BY Invariants, PTL

(***************************************************************************)
(* However the threads of sendCycle and receivePacket cross in the static  *)
(* packet and the receive buffer, every copy anywhere names a packet that  *)
(* was sent, with contents at least as new.                                *)
(***************************************************************************)
THEOREM CopiesStayHonest == Spec => []LinkInv
  BY Invariants, PTL

-----------------------------------------------------------------------------
\* Only the game's own send and receiveData change what the contract sees.
LEMMA OthersStutter ==
  ASSUME NEW p \in Phone,
         \/ SendCopy(p) \/ Post(p) \/ AnswerPing(p) \/ BuildPing(p) \/ SendPing(p)
         \/ \E r \in Readers(p) : Reader(p, r)
         \/ \E r \in Repeaters(p) : Repeater(p, r) \/ Repeat(p, r)
  PROVE  UNCHANGED <<sent, taken>>
  BY DEF SendCopy, Post, AnswerPing, BuildPing, SendPing, Reader, Read, NothingToRead, Again, Examine,
         Repeater, Finish, NotYet, RepeatCopy, Lost, Repeat

\* Giving a packet to the game is the contract's delivery.
LEMMA TakeIsTakeCopy ==
  ASSUME TypeOK, LinkInv, NEW p \in Phone, Take(p)
  PROVE  Contract!TakeCopy(p) \/ UNCHANGED <<sent, taken>>
  <1> DEFINE packet == link[p].buffer
             c == [k |-> packet.k, stat |-> packet.stat]
  <1>1. CASE packet.kind # "game"
    BY <1>1 DEF Take
  <1>2. CASE packet.kind = "game"
    <2>1. Other(p) \in Phone /\ Honest(p, packet) /\ packet \in Packet /\ Len(sent[Other(p)]) \in Nat
      BY DEF LinkInv, HonestCopies, TypeOK, Side
    <2>2. packet.stat \in 1..Len(sent[Other(p)]) /\ packet.k \in 1..packet.stat
      BY <1>2, <2>1 DEF Honest
    <2>3. packet.k \in 1..Len(sent[Other(p)]) /\ packet.k <= packet.stat
      BY <2>1, <2>2
    <2>4. c \in Contract!Copies(Other(p))
      BY <2>2, <2>3 DEF Contract!Copies, Contract!Other, Contract!Phone
    <2>5. taken' = [taken EXCEPT ![p] = Append(@, c)] /\ UNCHANGED sent
      BY <1>2 DEF Take
    <2> QED
      BY <2>4, <2>5 DEF Contract!Other, Contract!TakeCopy
  <1> QED
    BY <1>1, <1>2

(***************************************************************************)
(* The link keeps its contract with the game: what receiveData is given is *)
(* a copy of a packet the other phone sent, no older than its number.      *)
(***************************************************************************)
THEOREM LinkImplementsContract == Spec => KeepsLinkContract
  <1>1. Init => Contract!LinkInit
    BY DEF Init, Contract!Phone, Contract!LinkInit
  <1>2. TypeOK /\ LinkInv /\ [Next]_vars => [Contract!LinkNext]_(Contract!linkVars)
    <2> SUFFICES ASSUME TypeOK, LinkInv, [Next]_vars
                 PROVE  Contract!LinkNext \/ UNCHANGED <<sent, taken>>
      BY DEF Contract!linkVars
    <2>1. CASE UNCHANGED vars
      BY <2>1 DEF vars
    <2>2. CASE Next
      <3>1. PICK p \in Phone :
              \/ Send(p) \/ MainStep(p) \/ BuildPing(p) \/ SendPing(p)
              \/ \E r \in Readers(p) : Reader(p, r)
              \/ \E r \in Repeaters(p) : Repeater(p, r) \/ Repeat(p, r)
        BY <2>2 DEF Next
      <3>2. CASE Send(p)
        BY <3>2 DEF Send, Contract!Phone, Contract!LinkNext, Contract!SendNumber
      <3>3. CASE Take(p)
        BY <3>3, TakeIsTakeCopy DEF Contract!Phone, Contract!LinkNext
      <3> QED
        BY <3>1, <3>2, <3>3, OthersStutter DEF MainStep
    <2> QED
      BY <2>1, <2>2
  <1> QED
    BY <1>1, <1>2, Invariants, PTL DEF Spec, KeepsLinkContract, Contract!LinkSpec

-----------------------------------------------------------------------------
(***************************************************************************)
(* The order of packets.  From here on a phone is only known as one of two *)
(* that are each other's Other, and a thread as a reader.                  *)
(***************************************************************************)
HIDE LinkAssumption DEF Phone, Other, Host, Loop, Readers, Repeaters

-----------------------------------------------------------------------------
\* The two phones.
LEMMA Pair ==
  ASSUME NEW p \in Phone
  PROVE  /\ Other(p) \in Phone /\ Other(p) # p /\ Other(Other(p)) = p
         /\ \A q \in Phone : q = p \/ q = Other(p)
  BY DEF Phone, Other

\* The threads of a phone that are not the one that moves stay where they are.
LEMMA Moved ==
  ASSUME TypeOK, NEW p \in Phone, NEW r \in Readers(p), NEW new,
         thread' = [thread EXCEPT ![p][r] = new]
  PROVE  /\ thread'[p][r] = new /\ \A s \in Readers(p) : s # r => thread'[p][s] = thread[p][s]
         /\ \A q \in Phone : q # p => thread'[q] = thread[q]
  BY DEF TypeOK

\* Going to another place.
LEMMA MovedTo ==
  ASSUME TypeOK, NEW p \in Phone, NEW r \in Readers(p), NEW place, Becomes(p, r, place)
  PROVE  /\ thread'[p][r].at = place /\ \A s \in Readers(p) : s # r => thread'[p][s] = thread[p][s]
         /\ \A q \in Phone : q # p => thread'[q] = thread[q]
  <1> DEFINE new == [at |-> place, tries |-> thread[p][r].tries]
  <1>1. thread' = [thread EXCEPT ![p][r] = new]
    BY DEF Becomes
  <1>2. new.at = place
    OBVIOUS
  <1> HIDE DEF new
  <1>3. thread'[p][r] = new
    BY <1>1 DEF TypeOK
  <1> QED BY <1>1, <1>2, <1>3 DEF TypeOK

\* Every reader is a thread, and so is every repeater.
LEMMA Threads ==
  ASSUME NEW p \in Phone
  PROVE  Loop \in Readers(p) /\ Repeaters(p) \subseteq Readers(p) /\ Loop \notin Repeaters(p)
  BY LinkAssumption DEF Loop, Readers, Repeaters

\* The packets a phone has sent are among the ordinals.
LEMMA SentOrdinals ==
  ASSUME TypeOK, NEW p \in Phone
  PROVE  1..Len(sent[p]) \subseteq Ordinals
  <1>1. Len(sent[p]) \in Nat /\ MaxSends[p] \in Nat /\ Len(sent[p]) <= MaxSends[p]
    BY LinkAssumption DEF TypeOK
  <1> QED BY <1>1 DEF Ordinals

-----------------------------------------------------------------------------
\* A step of phone p leaves the other phone alone, but for what is on the net to it,
\* and what has happened has happened.
Frame(p) ==
  /\ \A q \in Phone : q # p =>
       /\ link'[q] = link[q] /\ main'[q] = main[q] /\ thread'[q] = thread[q]
       /\ taken'[q] = taken[q] /\ sent'[q] = sent[q] /\ mishaps'[q] = mishaps[q]
  /\ mishaps[p] \subseteq mishaps'[p]

\* Noting a mishap of phone p adds to its own mishaps only.
LEMMA Noted ==
  ASSUME TypeOK, NEW p \in Phone, NEW what, Note(p, what)
  PROVE  /\ mishaps'[p] = mishaps[p] \union what
         /\ \A q \in Phone : q # p => mishaps'[q] = mishaps[q]
  BY DEF TypeOK, Note

\* What the main thread does next.
LEMMA MainMoved ==
  ASSUME TypeOK, NEW p \in Phone, NEW place, main' = [main EXCEPT ![p].at = place]
  PROVE  /\ main'[p].at = place /\ main'[p].reader = main[p].reader
         /\ \A q \in Phone : q # p => main'[q] = main[q]
  BY DEF TypeOK, MainState

\* What sendto leaves on the net.
LEMMA PutOn ==
  ASSUME TypeOK, NEW p \in Phone, NEW packet, PutOnNet(p, packet)
  PROVE  net'[Other(p)] = net[Other(p)] \union {packet} /\ net'[p] = net[p]
  BY Pair DEF TypeOK, PutOnNet

\* The message leaves for the other phone, or is a ping and leaves nothing to take.
LEMMA Transmitted ==
  ASSUME TypeOK, NEW p \in Phone, Transmit(p)
  PROVE  /\ net'[p] = net[p]
         /\ link[p].header = PingHeader => net'[Other(p)] = net[Other(p)]
         /\ link[p].header # PingHeader => net'[Other(p)] = net[Other(p)] \union {Datagram(p)}
  BY PutOn DEF Transmit

-----------------------------------------------------------------------------
\* A step of phone p that neither reads, nor examines, nor gives anything to the game.
Same(p) ==
  /\ \A s \in Readers(p) : Holds(p, s)' => Holds(p, s)
  /\ link'[p].buffer = link[p].buffer /\ link'[p].last = link[p].last
  /\ taken'[p] = taken[p]
  /\ MainAt(p, "taking")' <=> MainAt(p, "taking")

\* It builds nothing in the static buffer, and sends nothing new.
NoBuild(p) ==
  /\ \A s \in Repeaters(p) : thread'[p][s].at = "send" => thread[p][s].at = "send"
  /\ thread'[p][Loop].at = "ping" => thread[p][Loop].at = "ping"
  /\ MainAt(p, "answering")' => MainAt(p, "answering")
  /\ MainAt(p, "sending")' => MainAt(p, "sending")
  /\ link'[p].header = link[p].header
  /\ sent'[p] = sent[p]

\* The connection is not given up, and the repetition goes on as before.
Goes(p) == link'[p].up => link[p].up /\ link'[p].neadSend = link[p].neadSend

\* A thread that does not go to the buffer.
LEMMA MovesOff ==
  ASSUME TypeOK, NEW p \in Phone, NEW r \in Readers(p), NEW place, place \notin Handed,
         thread'[p][r].at = place, \A s \in Readers(p) : s # r => thread'[p][s] = thread[p][s]
  PROVE  \A s \in Readers(p) : Holds(p, s)' => Holds(p, s)
  BY DEF Holds

\* sendDataData: building the message in the static buffer.
LEMMA SendActs ==
  ASSUME TypeOK, NEW p \in Phone, Send(p)
  PROVE  /\ Frame(p) /\ Same(p) /\ UNCHANGED <<net, thread>>
         /\ \E n \in Number :
              /\ sent'[p] = Append(sent[p], n)
              /\ sent[p] # <<>> /\ Last(sent[p]) = n => "sameNumber" \in mishaps'[p]
         /\ link[p].neadSend => "overlap" \in mishaps'[p]
         /\ BuildsPing(p) => "crossed" \in mishaps'[p]
         /\ MainAt(p, "idle") /\ MainAt(p, "sending")'
         /\ link'[p].neadSend /\ link'[p].header = Len(sent[p]) + 1 /\ link'[p].up = link[p].up
  <1>1. PICK n \in Number : Send(p)!(n)
    BY DEF Send
  <1>2. /\ sent'[p] = Append(sent[p], n) /\ UNCHANGED <<net, thread, taken>>
        /\ \A q \in Phone : q # p => sent'[q] = sent[q]
    BY <1>1 DEF TypeOK
  <1>3. main'[p].at = "sending" /\ \A q \in Phone : q # p => main'[q] = main[q]
    BY <1>1, MainMoved
  <1>4. main[p].at = "idle"
    BY <1>1 DEF MainAt
  <1>5. /\ mishaps'[p] = mishaps[p] \union (If("overlap", link[p].neadSend)
               \union If("sameNumber", sent[p] # <<>> /\ Last(sent[p]) = n) \union If("crossed", BuildsPing(p)))
        /\ \A q \in Phone : q # p => mishaps'[q] = mishaps[q]
    BY <1>1, Noted
  <1>6. link[p] \in Side
    BY DEF TypeOK
  <1>7. link' = [link EXCEPT ![p] = [link[p] EXCEPT !.neadSend = TRUE, !.header = Len(sent[p]) + 1]]
    BY <1>1 DEF TypeOK
  <1>8. /\ link'[p].neadSend /\ link'[p].header = Len(sent[p]) + 1 /\ link'[p].up = link[p].up
        /\ link'[p].buffer = link[p].buffer /\ link'[p].last = link[p].last
        /\ \A q \in Phone : q # p => link'[q] = link[q]
    BY <1>6, <1>7 DEF TypeOK, Side
  <1>9. Frame(p)
    BY <1>2, <1>3, <1>5, <1>8 DEF Frame
  <1>10. Same(p)
    BY <1>2, <1>3, <1>4, <1>8 DEF Same, Holds, MainAt
  <1> QED BY <1>1, <1>2, <1>3, <1>4, <1>5, <1>8, <1>9, <1>10 DEF If, MainAt

\* sendDataData: sendto of the message.
LEMMA SendCopyActs ==
  ASSUME TypeOK, NEW p \in Phone, SendCopy(p)
  PROVE  /\ Frame(p) /\ Same(p) /\ NoBuild(p) /\ Goes(p) /\ UNCHANGED <<link, thread, sent, mishaps>> /\ Transmit(p)
         /\ MainAt(p, "sending") /\ MainAt(p, "posting")'
  <1>1. /\ UNCHANGED <<link, thread, sent, taken, mishaps>> /\ Transmit(p) /\ main[p].at = "sending"
        /\ main'[p].at = "posting" /\ \A q \in Phone : q # p => main'[q] = main[q]
    BY MainMoved DEF SendCopy, MainAt
  <1> QED BY <1>1 DEF Frame, Same, NoBuild, Goes, Holds, MainAt

\* sendDataData: the copy put aside and the repeating thread started.
LEMMA PostActs ==
  ASSUME TypeOK, LinkInv, NEW p \in Phone, Post(p)
  PROVE  Frame(p) /\ Same(p) /\ NoBuild(p) /\ Goes(p) /\ ~MainAt(p, "sending")' /\ UNCHANGED net
  <1> DEFINE n == Len(sent[p])
             new == [at |-> "check", tries |-> 1]
  <1>1. /\ UNCHANGED <<net, sent, taken, mishaps>> /\ main[p].at = "posting"
        /\ main'[p].at = "idle" /\ \A q \in Phone : q # p => main'[q] = main[q]
    BY MainMoved DEF Post, MainAt
  <1>2. n \in Readers(p) /\ n # Loop
    BY <1>1, LinkAssumption DEF LinkInv, Filled, TypeOK, Readers, Loop, MainAt
  <1>3. new.at = "check" /\ thread' = [thread EXCEPT ![p][n] = new]
    BY DEF Post
  <1>4. /\ thread'[p][n].at = "check" /\ \A s \in Readers(p) : s # n => thread'[p][s] = thread[p][s]
        /\ \A q \in Phone : q # p => thread'[q] = thread[q]
    <2> HIDE DEF n, new
    <2>1. thread'[p][n] = new
      BY <1>2, <1>3 DEF TypeOK
    <2> QED BY <1>2, <1>3, <2>1 DEF TypeOK
  <1>5. link[p] \in Side /\ link' = [link EXCEPT ![p] = [link[p] EXCEPT !.slot = Len(sent[p])]]
    BY DEF TypeOK, Post
  <1>6. /\ link'[p].header = link[p].header /\ link'[p].up = link[p].up /\ link'[p].neadSend = link[p].neadSend
        /\ link'[p].buffer = link[p].buffer /\ link'[p].last = link[p].last
        /\ \A q \in Phone : q # p => link'[q] = link[q]
    BY <1>5 DEF TypeOK, Side
  <1>7. \A s \in Readers(p) : Holds(p, s)' => Holds(p, s)
    BY <1>2, <1>4, MovesOff DEF Handed
  <1> HIDE DEF n
  <1>8. NoBuild(p)
    BY <1>1, <1>2, <1>4, <1>6, Threads DEF NoBuild, MainAt
  <1> QED BY <1>1, <1>4, <1>6, <1>7, <1>8 DEF Frame, Same, Goes, MainAt

\* A thread of phone p goes on, and the rest of the phone stays.
LEMMA ThreadActs ==
  ASSUME TypeOK, NEW p \in Phone, NEW r \in Readers(p), NEW place, place \notin Handed \union {"send", "ping"},
         thread'[p][r].at = place, \A s \in Readers(p) : s # r => thread'[p][s] = thread[p][s],
         \A q \in Phone : q # p => thread'[q] = thread[q],
         UNCHANGED <<main, sent, taken, mishaps>>,
         \A q \in Phone : q # p => link'[q] = link[q],
         link'[p].header = link[p].header, link'[p].buffer = link[p].buffer, link'[p].last = link[p].last
  PROVE  Frame(p) /\ Same(p) /\ NoBuild(p)
  <1>1. \A s \in Readers(p) : thread'[p][s].at \in {"send", "ping"} => thread'[p][s].at = thread[p][s].at
    OBVIOUS
  <1> QED BY <1>1, MovesOff, Threads DEF Frame, Same, NoBuild, MainAt

\* The repeating thread ends, waits, sends its copy, or gives the connection up.
LEMMA RepeaterActs ==
  ASSUME TypeOK, NEW p \in Phone, NEW r \in Repeaters(p), Repeater(p, r)
  PROVE  Frame(p) /\ Same(p) /\ NoBuild(p) /\ Goes(p) /\ (UNCHANGED net \/ (Transmit(p) /\ thread[p][r].at = "send"))
  <1>1. r \in Readers(p) /\ r # Loop /\ link[p] \in Side
    <2>1. r \in Readers(p) /\ r # Loop
      BY Threads
    <2> QED BY <2>1 DEF TypeOK
  <1>2. UNCHANGED <<main, sent, taken, mishaps>> /\ (UNCHANGED net \/ (Transmit(p) /\ thread[p][r].at = "send"))
    BY DEF Repeater, Finish, NotYet, RepeatCopy, Lost
  <1>3. PICK place \in {"done", "read", "lost"} :
          /\ thread'[p][r].at = place /\ \A s \in Readers(p) : s # r => thread'[p][s] = thread[p][s]
          /\ \A q \in Phone : q # p => thread'[q] = thread[q]
    <2> DEFINE new == [at |-> "done", tries |-> 0]
    <2>1. CASE Finish(p, r) \/ Lost(p, r)
      <3>1. thread' = [thread EXCEPT ![p][r] = new] /\ new.at = "done"
        BY <2>1 DEF Finish, Lost
      <3> HIDE DEF new
      <3>2. thread'[p][r] = new
        BY <1>1, <3>1 DEF TypeOK
      <3> QED BY <1>1, <3>1, <3>2 DEF TypeOK
    <2>2. CASE NotYet(p, r) \/ RepeatCopy(p, r)
      <3>1. PICK place \in {"read", "lost"} : Becomes(p, r, place)
        BY <2>2 DEF NotYet, RepeatCopy
      <3> QED BY <1>1, <3>1, MovedTo
    <2> QED BY <2>1, <2>2 DEF Repeater
  <1>4. /\ \A q \in Phone : q # p => link'[q] = link[q]
        /\ link'[p].header = link[p].header /\ link'[p].buffer = link[p].buffer /\ link'[p].last = link[p].last
        /\ Goes(p)
    <2>1. CASE UNCHANGED link
      BY <2>1 DEF Goes
    <2>2. CASE Lost(p, r)
      <3>1. link' = [link EXCEPT ![p] = [link[p] EXCEPT !.up = FALSE, !.neadSend = @ /\ p # Host]]
        BY <2>2 DEF TypeOK, Lost
      <3> QED BY <1>1, <3>1 DEF TypeOK, Side, Goes
    <2> QED BY <2>1, <2>2 DEF Repeater, Finish, NotYet, RepeatCopy
  <1> QED BY <1>1, <1>2, <1>3, <1>4, ThreadActs DEF Handed

\* A reader whose recvfrom returned nothing.
LEMMA NothingToReadActs ==
  ASSUME TypeOK, NEW p \in Phone, NEW r \in Readers(p), NothingToRead(p, r)
  PROVE  Frame(p) /\ Same(p) /\ NoBuild(p) /\ Goes(p) /\ UNCHANGED net
  <1>1. /\ UNCHANGED <<main, net, sent, taken, mishaps>> /\ link[p] \in Side
        /\ thread'[p][r].at = "check" /\ \A s \in Readers(p) : s # r => thread'[p][s] = thread[p][s]
        /\ \A q \in Phone : q # p => thread'[q] = thread[q]
    BY MovedTo DEF NothingToRead, TypeOK
  <1>2. link' = [link EXCEPT ![p] = [link[p] EXCEPT !.neadSend = @ /\ link[p].up]]
    BY DEF TypeOK, NothingToRead
  <1>3. /\ \A q \in Phone : q # p => link'[q] = link[q]
        /\ link'[p].header = link[p].header /\ link'[p].buffer = link[p].buffer /\ link'[p].last = link[p].last
        /\ Goes(p)
    BY <1>1, <1>2 DEF TypeOK, Side, Goes
  <1> QED BY <1>1, <1>3, ThreadActs DEF Handed

\* The loop sends its ping.
LEMMA SendPingActs ==
  ASSUME TypeOK, NEW p \in Phone, SendPing(p)
  PROVE  Frame(p) /\ Same(p) /\ NoBuild(p) /\ Goes(p) /\ Transmit(p) /\ thread[p][Loop].at = "ping"
  <1>1. /\ UNCHANGED <<link, main, sent, taken, mishaps>> /\ Transmit(p) /\ thread[p][Loop].at = "ping"
        /\ thread'[p][Loop].at = "read" /\ \A s \in Readers(p) : s # Loop => thread'[p][s] = thread[p][s]
        /\ \A q \in Phone : q # p => thread'[q] = thread[q]
    BY MovedTo, Threads DEF SendPing
  <1> QED BY <1>1, Threads, ThreadActs DEF Handed, Goes

\* The threads that build something: the repeaters
LEMMA RepeatActs ==
  ASSUME TypeOK, NEW p \in Phone, NEW r \in Repeaters(p), Repeat(p, r)
  PROVE  Frame(p) /\ Same(p) /\ Goes(p) /\ "repeated" \in mishaps'[p] /\ UNCHANGED <<net, sent, main>>
  <1> DEFINE new == [at |-> "send", tries |-> thread[p][r].tries + 1]
  <1>1. r \in Readers(p) /\ link[p] \in Side /\ UNCHANGED <<net, main, sent, taken>>
    BY Threads DEF TypeOK, Repeat
  <1>2. thread' = [thread EXCEPT ![p][r] = new] /\ new.at = "send"
    BY DEF Repeat
  <1>3. /\ thread'[p][r].at = "send" /\ \A s \in Readers(p) : s # r => thread'[p][s] = thread[p][s]
        /\ \A q \in Phone : q # p => thread'[q] = thread[q]
    <2> HIDE DEF new
    <2>1. thread'[p][r] = new
      BY <1>1, <1>2 DEF TypeOK
    <2> QED BY <1>1, <1>2, <2>1 DEF TypeOK
  <1>4. link' = [link EXCEPT ![p] = [link[p] EXCEPT !.header = link[p].slot]]
    BY DEF TypeOK, Repeat
  <1>5. /\ \A q \in Phone : q # p => link'[q] = link[q]
        /\ link'[p].buffer = link[p].buffer /\ link'[p].last = link[p].last /\ Goes(p)
    BY <1>1, <1>4 DEF TypeOK, Side, Goes
  <1>6. /\ mishaps'[p] = mishaps[p] \union ({"repeated"} \union If("crossed", BuildsPing(p)))
        /\ \A q \in Phone : q # p => mishaps'[q] = mishaps[q]
    BY Noted DEF Repeat
  <1>7. \A s \in Readers(p) : Holds(p, s)' => Holds(p, s)
    BY <1>1, <1>3, MovesOff DEF Handed
  <1> QED BY <1>1, <1>3, <1>5, <1>6, <1>7 DEF Frame, Same, MainAt

\* and the loop, which pings.
LEMMA BuildPingActs ==
  ASSUME TypeOK, NEW p \in Phone, BuildPing(p)
  PROVE  /\ Frame(p) /\ Same(p) /\ Goes(p) /\ UNCHANGED <<net, sent, main>>
         /\ link'[p].header = PingHeader
         /\ BuildsPacket(p) => "crossed" \in mishaps'[p]
         /\ \A s \in Repeaters(p) : thread'[p][s] = thread[p][s]
  <1>1. link[p] \in Side /\ UNCHANGED <<net, main, sent, taken>>
    BY DEF TypeOK, BuildPing
  <1>2. /\ thread'[p][Loop].at = "ping" /\ \A s \in Readers(p) : s # Loop => thread'[p][s] = thread[p][s]
        /\ \A q \in Phone : q # p => thread'[q] = thread[q]
    BY MovedTo, Threads DEF BuildPing
  <1>3. link' = [link EXCEPT ![p] = [link[p] EXCEPT !.header = PingHeader]]
    BY DEF TypeOK, BuildPing
  <1>4. /\ \A q \in Phone : q # p => link'[q] = link[q]
        /\ link'[p].buffer = link[p].buffer /\ link'[p].last = link[p].last /\ Goes(p)
        /\ link'[p].header = PingHeader
    BY <1>1, <1>3 DEF TypeOK, Side, Goes
  <1>5. /\ mishaps'[p] = mishaps[p] \union If("crossed", BuildsPacket(p))
        /\ \A q \in Phone : q # p => mishaps'[q] = mishaps[q]
    BY Noted DEF BuildPing
  <1>6. \A s \in Readers(p) : Holds(p, s)' => Holds(p, s)
    BY <1>2, Threads, MovesOff DEF Handed
  <1> QED BY <1>1, <1>2, <1>4, <1>5, <1>6, Threads DEF Frame, Same, MainAt, If

-----------------------------------------------------------------------------
\* The steps at the receive buffer.
LEMMA AgainActs ==
  ASSUME TypeOK, NEW p \in Phone, NEW r \in Readers(p), Again(p, r)
  PROVE  /\ Frame(p) /\ NoBuild(p) /\ Goes(p) /\ UNCHANGED <<net, taken, sent>>
         /\ Same(p) \/ "crowded" \in mishaps'[p]
  <1>1. UNCHANGED <<link, main, net, sent, taken>>
    BY DEF Again
  <1>2. /\ mishaps'[p] = mishaps[p] \union If("crowded", link[p].gotData)
        /\ \A q \in Phone : q # p => mishaps'[q] = mishaps[q]
    BY Noted DEF Again
  <1>3. PICK place \in {"handedAgain", "check"} :
          /\ place = "handedAgain" => link[p].gotData
          /\ thread'[p][r].at = place /\ \A s \in Readers(p) : s # r => thread'[p][s] = thread[p][s]
          /\ \A q \in Phone : q # p => thread'[q] = thread[q]
    <2>1. CASE link[p].gotData
      <3>1. Becomes(p, r, "handedAgain")
        BY <2>1 DEF Again
      <3> QED BY <2>1, <3>1, MovedTo
    <2>2. CASE ~link[p].gotData
      <3>1. Becomes(p, r, "check")
        BY <2>2 DEF Again
      <3> QED BY <3>1, MovedTo
    <2> QED BY <2>1, <2>2
  <1>4. Frame(p) /\ Goes(p)
    BY <1>1, <1>2, <1>3 DEF Frame, Goes
  <1>5. NoBuild(p)
    <2>1. \A s \in Readers(p) : thread'[p][s].at \in {"send", "ping"} => thread'[p][s].at = thread[p][s].at
      BY <1>3
    <2> QED BY <1>1, <2>1, Threads DEF NoBuild, MainAt
  <1>6. CASE place = "handedAgain"
    BY <1>1, <1>2, <1>3, <1>4, <1>5, <1>6 DEF If
  <1>7. CASE place = "check"
    <2>1. \A s \in Readers(p) : Holds(p, s)' => Holds(p, s)
      BY <1>3, <1>7, MovesOff DEF Handed
    <2> QED BY <1>1, <1>4, <1>5, <2>1 DEF Same, MainAt
  <1> QED BY <1>6, <1>7

\* A reader takes a datagram off the net and into the receive buffer, which it then holds.
LEMMA ReadActs ==
  ASSUME TypeOK, NEW p \in Phone, NEW r \in Readers(p), Read(p, r)
  PROVE  /\ Frame(p) /\ NoBuild(p) /\ Goes(p) /\ UNCHANGED <<main, taken, sent>>
         /\ \A s \in Readers(p) : Holds(p, s)' <=> s = r \/ Holds(p, s)
         /\ ~Holds(p, r) /\ link'[p].last = link[p].last
         /\ (\E s \in Readers(p) : Holds(p, s)) => "crowded" \in mishaps'[p]
         /\ net'[Other(p)] = net[Other(p)] /\ net'[p] = net[p] \ {link'[p].buffer}
         /\ link'[p].buffer \in net[p] \/ link'[p].buffer = Ping
  <1>1. PICK packet \in net[p] \union If(Ping, Pings /\ link[Other(p)].up) : Read(p, r)!(packet)
    BY DEF Read
  <1>2. /\ UNCHANGED <<main, taken, sent>> /\ thread[p][r].at = "read"
        /\ packet \in net[p] \/ packet = Ping
    BY <1>1 DEF If
  <1>3. link[p] \in Side /\ link' = [link EXCEPT ![p] = [link[p] EXCEPT !.buffer = packet, !.gotData = TRUE]]
    BY <1>1 DEF TypeOK
  <1>4. /\ \A q \in Phone : q # p => link'[q] = link[q]
        /\ link'[p].buffer = packet /\ link'[p].last = link[p].last /\ link'[p].header = link[p].header
        /\ Goes(p)
    BY <1>3 DEF TypeOK, Side, Goes
  <1>5. net'[p] = net[p] \ {packet} /\ net'[Other(p)] = net[Other(p)]
    BY <1>1, Pair DEF TypeOK
  <1>6. /\ thread'[p][r].at = "handed" /\ \A s \in Readers(p) : s # r => thread'[p][s] = thread[p][s]
        /\ \A q \in Phone : q # p => thread'[q] = thread[q]
    BY <1>1, MovedTo
  <1>7. /\ mishaps'[p] = mishaps[p] \union If("crowded", \E s \in Readers(p) \ {r} : thread[p][s].at \in Handed)
        /\ \A q \in Phone : q # p => mishaps'[q] = mishaps[q]
    BY <1>1, Noted
  <1>8. Frame(p)
    BY <1>2, <1>4, <1>6, <1>7 DEF Frame
  <1>9. NoBuild(p)
    <2>1. \A s \in Readers(p) : thread'[p][s].at \in {"send", "ping"} => thread'[p][s].at = thread[p][s].at
      BY <1>6
    <2> QED BY <1>2, <1>4, <2>1, Threads DEF NoBuild, MainAt
  <1>10. ~Holds(p, r) /\ \A s \in Readers(p) : Holds(p, s)' <=> s = r \/ Holds(p, s)
    BY <1>2, <1>6 DEF Holds, Handed
  <1>11. (\E s \in Readers(p) : Holds(p, s)) => "crowded" \in mishaps'[p]
    <2> SUFFICES ASSUME NEW s \in Readers(p), Holds(p, s)
                 PROVE  "crowded" \in mishaps'[p]
      OBVIOUS
    <2>1. s \in Readers(p) \ {r}
      BY <1>10
    <2> QED BY <1>7, <2>1 DEF If, Holds
  <1> QED BY <1>2, <1>4, <1>5, <1>8, <1>9, <1>10, <1>11

\* Reader r is through.
LEMMA GoesOnActs ==
  ASSUME TypeOK, NEW p \in Phone, NEW r \in Readers(p), GoesOn(p, r)
  PROVE  /\ \A s \in Readers(p) : Holds(p, s)' <=> s # r /\ Holds(p, s)
         /\ \A s \in Readers(p) : thread'[p][s].at \in {"send", "ping"} => thread'[p][s].at = thread[p][s].at
         /\ \A q \in Phone : q # p => thread'[q] = thread[q]
  <1>1. PICK place \in {"read", "again", "check"} : Becomes(p, r, place)
    BY DEF GoesOn
  <1>2. /\ thread'[p][r].at = place /\ \A s \in Readers(p) : s # r => thread'[p][s] = thread[p][s]
        /\ \A q \in Phone : q # p => thread'[q] = thread[q]
    BY <1>1, MovedTo
  <1> QED BY <1>2 DEF Holds, Handed

\* receiveData gives the packet to the game and answers it.
LEMMA TakeActs ==
  ASSUME TypeOK, LinkInv, NEW p \in Phone, Take(p)
  PROVE  /\ Frame(p) /\ NoBuild(p) /\ Goes(p) /\ UNCHANGED <<link, sent>>
         /\ MainAt(p, "taking") /\ ~MainAt(p, "taking")' /\ main[p].reader \in Readers(p)
         /\ \A s \in Readers(p) : Holds(p, s)' <=> s # main[p].reader /\ Holds(p, s)
         /\ Holds(p, main[p].reader)
         /\ net'[p] = net[p]
         /\ IF link[p].buffer.kind = "game"
            THEN /\ net'[Other(p)] = net[Other(p)] \union {Response}
                 /\ \E c : c.k = link[p].buffer.k /\ taken'[p] = Append(taken[p], c)
            ELSE net'[Other(p)] = net[Other(p)] /\ taken'[p] = taken[p]
  <1> DEFINE packet == link[p].buffer
             c == [k |-> packet.k, stat |-> packet.stat]
  <1>1. /\ UNCHANGED <<link, sent, mishaps>> /\ main[p].at = "taking" /\ main[p].reader \in Readers(p)
        /\ main'[p].at = "idle" /\ \A q \in Phone : q # p => main'[q] = main[q]
    BY MainMoved DEF Take, MainAt, TypeOK
  <1>2. Holds(p, main[p].reader)
    BY <1>1 DEF LinkInv, Serving, MainAt, Holds
  <1>3. GoesOn(p, main[p].reader)
    BY DEF Take
  <1>4. /\ \A s \in Readers(p) : Holds(p, s)' <=> s # main[p].reader /\ Holds(p, s)
        /\ \A s \in Readers(p) : thread'[p][s].at \in {"send", "ping"} => thread'[p][s].at = thread[p][s].at
        /\ \A q \in Phone : q # p => thread'[q] = thread[q]
    BY <1>1, <1>3, GoesOnActs
  <1>5. /\ net'[p] = net[p] /\ \A q \in Phone : q # p => taken'[q] = taken[q]
        /\ IF packet.kind = "game"
           THEN net'[Other(p)] = net[Other(p)] \union {Response} /\ taken'[p] = Append(taken[p], c)
           ELSE net'[Other(p)] = net[Other(p)] /\ taken'[p] = taken[p]
    <2>1. CASE packet.kind = "game"
      <3>1. taken' = [taken EXCEPT ![p] = Append(@, c)] /\ PutOnNet(p, Response)
        BY <2>1 DEF Take
      <3> HIDE DEF c
      <3> QED BY <2>1, <3>1, PutOn DEF TypeOK
    <2>2. CASE packet.kind # "game"
      BY <2>2 DEF Take
    <2> QED BY <2>1, <2>2
  <1>6. c.k = packet.k
    OBVIOUS
  <1>7. Frame(p) /\ Goes(p)
    BY <1>1, <1>4, <1>5 DEF Frame, Goes
  <1>8. NoBuild(p)
    BY <1>1, <1>4, Threads DEF NoBuild, MainAt
  <1> HIDE DEF c
  <1> QED BY <1>1, <1>2, <1>4, <1>5, <1>6, <1>7, <1>8 DEF MainAt

\* receivePacket answers a ping.
LEMMA AnswerPingActs ==
  ASSUME TypeOK, LinkInv, NEW p \in Phone, AnswerPing(p)
  PROVE  Frame(p) /\ Same(p) /\ NoBuild(p) /\ Goes(p) /\ Transmit(p) /\ MainAt(p, "answering")
  <1>1. /\ UNCHANGED <<link, sent, taken, mishaps>> /\ main[p].at = "answering" /\ main[p].reader \in Readers(p)
        /\ main'[p].at = "idle" /\ \A q \in Phone : q # p => main'[q] = main[q]
        /\ Transmit(p)
    BY MainMoved DEF AnswerPing, MainAt, TypeOK
  <1>2. GoesOn(p, main[p].reader)
    BY DEF AnswerPing
  <1>3. /\ \A s \in Readers(p) : Holds(p, s)' <=> s # main[p].reader /\ Holds(p, s)
        /\ \A s \in Readers(p) : thread'[p][s].at \in {"send", "ping"} => thread'[p][s].at = thread[p][s].at
        /\ \A q \in Phone : q # p => thread'[q] = thread[q]
    BY <1>1, <1>2, GoesOnActs
  <1> QED BY <1>1, <1>3, Threads DEF Frame, Same, NoBuild, Goes, MainAt

\* The main thread looks at the packet in the buffer: it knows it, answers it, or will give it to the game.
Knows(p, r) ==
  /\ Repetition(p, link[p].buffer)
  /\ \A s \in Readers(p) : Holds(p, s)' <=> s # r /\ Holds(p, s)
  /\ UNCHANGED main /\ net'[Other(p)] = net[Other(p)] \union {Response}

Answers(p) ==
  /\ link[p].buffer = Ping /\ UNCHANGED <<net, thread>>
  /\ main'[p].at = "answering"
  /\ link'[p].header = PingHeader /\ (BuildsPacket(p) => "crossed" \in mishaps'[p])

Hands(p) ==
  /\ ~Repetition(p, link[p].buffer) /\ UNCHANGED <<net, thread>>
  /\ main'[p].at = "taking"

\* receivePacket examines the buffer: a repetition or an answer, a packet for the game, or a ping.
LEMMA ExamineActs ==
  ASSUME TypeOK, NEW p \in Phone, NEW r \in Readers(p), Examine(p, r)
  PROVE  /\ Frame(p) /\ UNCHANGED <<taken, sent>> /\ MainAt(p, "idle") /\ Holds(p, r)
         /\ link'[p].buffer = link[p].buffer /\ link'[p].up = link[p].up /\ net'[p] = net[p]
         /\ link'[p].last = IF link[p].buffer.kind = "game" THEN NumberOf(p, link[p].buffer) ELSE link[p].last
         /\ link[p].buffer # Response => link'[p].neadSend = link[p].neadSend
         /\ link[p].buffer = Response => ~link'[p].neadSend
         /\ \/ Knows(p, r) /\ NoBuild(p)
            \/ Hands(p) /\ NoBuild(p)
            \/ Answers(p)
  <1> DEFINE packet == link[p].buffer
             last == IF packet.kind = "game" THEN NumberOf(p, packet) ELSE link[p].last
             answers == packet = Ping /\ p = Host
             header == IF answers THEN PingHeader ELSE link[p].header
             nead == link[p].neadSend /\ ~EndsRepetition(packet)
  <1>1. /\ UNCHANGED <<taken, sent>> /\ main[p].at = "idle" /\ thread[p][r].at \in Handed
        /\ link[p] \in Side
    BY DEF Examine, MainAt, TypeOK
  <1>2. link' = [link EXCEPT ![p] = [link[p] EXCEPT !.gotData = FALSE, !.last = last, !.neadSend = nead, !.header = header]]
    BY DEF TypeOK, Examine
  <1>3. /\ \A q \in Phone : q # p => link'[q] = link[q]
        /\ link'[p].buffer = link[p].buffer /\ link'[p].up = link[p].up
        /\ link'[p].last = last /\ link'[p].neadSend = nead /\ link'[p].header = header
    <2> HIDE DEF last, nead, header
    <2> QED BY <1>1, <1>2 DEF TypeOK, Side
  <1>4. /\ mishaps'[p] = mishaps[p] \union If("crossed", answers /\ BuildsPacket(p))
        /\ \A q \in Phone : q # p => mishaps'[q] = mishaps[q]
    BY Noted DEF Examine
  <1>5. packet # Response => link'[p].neadSend = link[p].neadSend
    <2>1. link[p].neadSend \in BOOLEAN
      BY <1>1 DEF Side
    <2>2. packet # Response => nead = (link[p].neadSend /\ TRUE)
      BY DEF EndsRepetition
    <2> QED BY <1>3, <2>1, <2>2
  <1>6. packet = Response => ~link'[p].neadSend
    BY <1>3 DEF EndsRepetition
  <1>7. CASE Repetition(p, packet)
    <2>1. GoesOn(p, r) /\ UNCHANGED main /\ PutOnNet(p, Response) /\ packet # Ping
      BY <1>7 DEF Examine, Repetition, Ping
    <2>2. /\ \A s \in Readers(p) : Holds(p, s)' <=> s # r /\ Holds(p, s)
          /\ \A s \in Readers(p) : thread'[p][s].at \in {"send", "ping"} => thread'[p][s].at = thread[p][s].at
          /\ \A q \in Phone : q # p => thread'[q] = thread[q]
      BY <2>1, GoesOnActs
    <2>3. net'[Other(p)] = net[Other(p)] \union {Response} /\ net'[p] = net[p]
      BY <2>1, PutOn
    <2>4. NoBuild(p)
      BY <1>1, <1>3, <2>1, <2>2, Threads DEF NoBuild, MainAt
    <2>5. Frame(p)
      BY <1>1, <1>3, <1>4, <2>1, <2>2 DEF Frame
    <2>6. Knows(p, r)
      BY <1>7, <2>1, <2>2, <2>3 DEF Knows
    <2> QED BY <1>1, <1>3, <1>5, <1>6, <2>3, <2>4, <2>5, <2>6 DEF Holds, MainAt
  <1>8. CASE ~Repetition(p, packet)
    <2> DEFINE place == IF answers THEN "answering" ELSE "taking"
               new == [at |-> place, reader |-> r]
    <2>1. UNCHANGED <<net, thread>> /\ main' = [main EXCEPT ![p] = new] /\ new.at = place
      BY <1>8 DEF Examine
    <2>2. main'[p].at = place /\ \A q \in Phone : q # p => main'[q] = main[q]
      <3> HIDE DEF new, place
      <3> QED BY <2>1 DEF TypeOK
    <2>3. Frame(p)
      BY <1>1, <1>3, <1>4, <2>1, <2>2 DEF Frame
    <2>4. CASE answers
      <3>1. Answers(p)
        BY <1>3, <1>4, <2>1, <2>2, <2>4 DEF Answers, If
      <3> QED BY <1>1, <1>3, <1>5, <1>6, <2>1, <2>3, <3>1 DEF Holds, MainAt
    <2>5. CASE ~answers
      <3>1. Hands(p)
        BY <1>8, <2>1, <2>2, <2>5 DEF Hands
      <3>2. NoBuild(p)
        BY <1>1, <1>3, <2>1, <2>2, <2>5 DEF NoBuild, MainAt
      <3> QED BY <1>1, <1>3, <1>5, <1>6, <2>1, <2>3, <3>1, <3>2 DEF Holds, MainAt
    <2> QED BY <2>4, <2>5
  <1> QED BY <1>7, <1>8

-----------------------------------------------------------------------------
\* The sender's static buffer.
LEMMA BuildingKept ==
  ASSUME TypeOK, NEW p \in Phone, Building(p), NoBuild(p), mishaps[p] \subseteq mishaps'[p]
  PROVE  Building(p)'
  BY DEF Building, NoBuild, Uncrossed, BuildsPing

\* What phone p does leaves the other phone's static buffer alone.
LEMMA OtherBuilding ==
  ASSUME NEW p \in Phone, Frame(p), \A q \in Phone : q # p => Building(q), Building(p)'
  PROVE  \A q \in Phone : Building(q)'
  <1> SUFFICES ASSUME NEW q \in Phone, q # p
               PROVE  Building(q)'
    OBVIOUS
  <1> QED BY DEF Frame, Building, Uncrossed, BuildsPing, MainAt

\* Every step keeps what is known of the static buffers.
LEMMA BuildingHolds ==
  ASSUME TypeOK, LinkInv, OrderInv, NEW p \in Phone,
         \/ Send(p) \/ MainStep(p) \/ BuildPing(p) \/ SendPing(p)
         \/ \E r \in Readers(p) : Reader(p, r)
         \/ \E r \in Repeaters(p) : Repeater(p, r) \/ Repeat(p, r)
  PROVE  \A q \in Phone : Building(q)'
  <1>1. Building(p) /\ \A q \in Phone : q # p => Building(q)
    BY DEF OrderInv
  <1>2. CASE NoBuild(p) /\ Frame(p)
    <2>1. Building(p)'
      BY <1>1, <1>2, BuildingKept DEF Frame
    <2> QED BY <1>1, <1>2, <2>1, OtherBuilding
  <1>3. CASE Send(p)
    <2>1. /\ Frame(p) /\ UNCHANGED thread /\ MainAt(p, "sending")' /\ link'[p].header = Len(sent[p]) + 1
          /\ BuildsPing(p) => "crossed" \in mishaps'[p]
          /\ \E n \in Number : sent'[p] = Append(sent[p], n)
      BY <1>3, SendActs
    <2>2. Len(sent'[p]) = Len(sent[p]) + 1
      BY <2>1 DEF TypeOK
    <2>3. BuildsPing(p)' => BuildsPing(p)
      BY <2>1 DEF BuildsPing, MainAt
    <2>4. Building(p)'
      BY <1>1, <2>1, <2>2, <2>3 DEF Building, Uncrossed, Frame
    <2> QED BY <1>1, <2>1, <2>4, OtherBuilding
  <1>4. ASSUME NEW r \in Repeaters(p), Repeat(p, r) PROVE \A q \in Phone : Building(q)'
    <2>1. Frame(p) /\ "repeated" \in mishaps'[p]
      BY <1>4, RepeatActs
    <2> QED BY <1>1, <2>1, OtherBuilding DEF Building, Uncrossed
  <1>5. CASE BuildPing(p)
    <2>1. /\ Frame(p) /\ UNCHANGED <<sent, main>> /\ link'[p].header = PingHeader
          /\ BuildsPacket(p) => "crossed" \in mishaps'[p]
          /\ \A s \in Repeaters(p) : thread'[p][s] = thread[p][s]
      BY <1>5, BuildPingActs
    <2>2. ASSUME Uncrossed(p)' PROVE ~BuildsPacket(p)
      BY <2>1, <2>2 DEF Uncrossed
    <2>3. Building(p)'
      BY <2>1, <2>2 DEF Building, BuildsPacket, MainAt
    <2> QED BY <1>1, <2>1, <2>3, OtherBuilding
  <1>6. ASSUME NEW r \in Readers(p), Examine(p, r) PROVE \A q \in Phone : Building(q)'
    <2>1. Frame(p) /\ UNCHANGED sent /\ (NoBuild(p) \/ Answers(p))
      BY <1>6, ExamineActs
    <2>2. CASE Answers(p)
      <3>1. /\ UNCHANGED thread /\ main'[p].at = "answering" /\ link'[p].header = PingHeader
            /\ BuildsPacket(p) => "crossed" \in mishaps'[p]
        BY <2>2 DEF Answers
      <3>2. Building(p)'
        BY <1>1, <2>1, <3>1 DEF Building, Uncrossed, Frame, BuildsPacket, MainAt
      <3> QED BY <1>1, <2>1, <3>2, OtherBuilding
    <2> QED BY <1>2, <2>1, <2>2
  <1>7. MainStep(p) \/ SendPing(p) => NoBuild(p) /\ Frame(p)
    BY SendCopyActs, PostActs, TakeActs, AnswerPingActs, SendPingActs DEF MainStep
  <1>8. \A r \in Repeaters(p) : Repeater(p, r) => NoBuild(p) /\ Frame(p)
    BY RepeaterActs
  <1>9. \A r \in Readers(p) : Read(p, r) \/ NothingToRead(p, r) \/ Again(p, r) => NoBuild(p) /\ Frame(p)
    BY ReadActs, NothingToReadActs, AgainActs
  <1> QED BY <1>2, <1>3, <1>4, <1>5, <1>6, <1>7, <1>8, <1>9 DEF Reader

-----------------------------------------------------------------------------
\* The receiver.  What it was given stays a packet that was sent, and keeps its number.
Grows(p) == sent'[p] = sent[p] \/ \E n \in Number : sent'[p] = Append(sent[p], n)

\* Packets that were sent stay as they were.
LEMMA GrowsKeeps ==
  ASSUME TypeOK, NEW p \in Phone, Grows(p)
  PROVE  /\ Len(sent[p]) \in Nat /\ Len(sent'[p]) \in Nat /\ Len(sent[p]) <= Len(sent'[p])
         /\ \A k \in 1..Len(sent[p]) : sent'[p][k] = sent[p][k]
  BY DEF TypeOK, Grows

\* A number that was sent stays what it is.
LEMMA NumberKept ==
  ASSUME TypeOK, NEW p \in Phone, Grows(Other(p)), NEW c, c.k \in 1..Len(sent[Other(p)])
  PROVE  NumberOf(p, c)' = NumberOf(p, c) /\ c.k \in 1..Len(sent'[Other(p)])
  <1>1. Other(p) \in Phone
    BY Pair
  <1> QED BY <1>1, GrowsKeeps DEF NumberOf

\* The packet in the buffer is one that was sent.
LEMMA BufferSent ==
  ASSUME TypeOK, LinkInv, NEW p \in Phone, link[p].buffer.kind = "game"
  PROVE  link[p].buffer.k \in 1..Len(sent[Other(p)])
  <1>1. Honest(p, link[p].buffer) /\ link[p].buffer \in Packet /\ Len(sent[Other(p)]) \in Nat
    BY Pair DEF LinkInv, HonestCopies, TypeOK, Side
  <1> QED BY <1>1 DEF Honest, Packet

\* Repetitions are hidden from phone p.
HiddenFrom(p) ==
  Uncrowded(p)
    => \A i \in DOMAIN taken[p] \ {1} :
         NumberOf(p, taken[p][i]) = NumberOf(p, taken[p][i - 1]) => NumberOf(p, taken[p][i]) = AccelState

\* RepetitionHidden, phone by phone.
LEMMA HiddenParts == RepetitionHidden <=> \A p \in Phone : HiddenFrom(p)
  BY DEF RepetitionHidden, HiddenFrom, Uncrowded

\* What the game was given is a sequence of packets; its last and its neighbours are in it.
LEMMA TakenIn ==
  ASSUME TypeOK, NEW p \in Phone
  PROVE  /\ taken[p] \in Seq([k : Nat, stat : Nat]) /\ Len(taken[p]) \in Nat /\ DOMAIN taken[p] = 1..Len(taken[p])
         /\ taken[p] # <<>> => Len(taken[p]) \in DOMAIN taken[p] /\ Last(taken[p]) = taken[p][Len(taken[p])]
         /\ \A i \in DOMAIN taken[p] \ {1} : i - 1 \in DOMAIN taken[p]
  BY DEF TypeOK, Last

\* What was given stays as it was when the other phone sends.
LEMMA TakenKept ==
  ASSUME TypeOK, NEW p \in Phone, Grows(Other(p)), TakenWasSent(p), taken'[p] = taken[p],
         HiddenFrom(p), mishaps[p] \subseteq mishaps'[p]
  PROVE  TakenWasSent(p)' /\ HiddenFrom(p)'
  <1>1. \A i \in DOMAIN taken[p] :
          NumberOf(p, taken[p][i])' = NumberOf(p, taken[p][i]) /\ taken[p][i].k \in 1..Len(sent'[Other(p)])
    BY NumberKept DEF TakenWasSent, NumberOf
  <1>2. TakenWasSent(p)'
    BY <1>1 DEF TakenWasSent
  <1>3. HiddenFrom(p)'
    BY <1>1, TakenIn DEF HiddenFrom, Uncrowded
  <1> QED BY <1>2, <1>3

\* The steps that are not at the buffer
LEMMA ReceivingSame ==
  ASSUME TypeOK, LinkInv, NEW p \in Phone, Grows(Other(p)), Receiving(p), HiddenFrom(p),
         Same(p), mishaps[p] \subseteq mishaps'[p]
  PROVE  Receiving(p)' /\ HiddenFrom(p)'
  <1>1. taken'[p] = taken[p] /\ TakenWasSent(p)
    BY DEF Same, Receiving
  <1>2. TakenWasSent(p)' /\ HiddenFrom(p)'
    BY <1>1, TakenKept
  <1> SUFFICES ASSUME Uncrowded(p)'
               PROVE  OneHolder(p)' /\ LastKept(p)'
    BY <1>2 DEF Receiving
  <1>3. OneHolder(p) /\ LastKept(p)
    BY DEF Receiving, Uncrowded
  <1>4. OneHolder(p)'
    BY <1>3 DEF OneHolder, Same
  <1>5. Giving(p)' <=> Giving(p)
    BY DEF Same, Giving
  <1>6. Giving(p) => NumberOf(p, link[p].buffer)' = NumberOf(p, link[p].buffer)
    <2>1. link'[p].buffer = link[p].buffer
      BY DEF Same
    <2>2. Giving(p) => link[p].buffer.k \in 1..Len(sent[Other(p)])
      BY BufferSent DEF Giving
    <2> QED BY <2>1, <2>2, NumberKept DEF NumberOf
  <1>7. taken[p] # <<>> => NumberOf(p, Last(taken[p]))' = NumberOf(p, Last(taken[p]))
    <2>1. taken[p] # <<>> => Last(taken[p]).k \in 1..Len(sent[Other(p)])
      BY <1>1, TakenIn DEF TakenWasSent
    <2> QED BY <1>1, <2>1, NumberKept DEF NumberOf
  <1>8. LastKept(p)'
    BY <1>1, <1>3, <1>5, <1>6, <1>7 DEF LastKept, Same
  <1> QED BY <1>4, <1>8

\* and those after which a second reader has been at the buffer.
LEMMA ReceivingCrowded ==
  ASSUME TypeOK, NEW p \in Phone, Grows(Other(p)), Receiving(p), HiddenFrom(p),
         taken'[p] = taken[p], "crowded" \in mishaps'[p], mishaps[p] \subseteq mishaps'[p]
  PROVE  Receiving(p)' /\ HiddenFrom(p)'
  <1>1. TakenWasSent(p)' /\ HiddenFrom(p)'
    BY TakenKept DEF Receiving
  <1> QED BY <1>1 DEF Receiving, Uncrowded

\* Nobody holds the buffer that the main thread is not serving.
LEMMA NobodyServed ==
  ASSUME TypeOK, LinkInv, NEW p \in Phone, ~Held(p)
  PROVE  ~MainAt(p, "taking") /\ ~MainAt(p, "answering") /\ ~Giving(p)
  BY DEF LinkInv, Serving, Held, Holds, TypeOK, Giving

\* Reading a datagram: unless two readers meet, nothing was held before.
LEMMA ReceivingRead ==
  ASSUME TypeOK, LinkInv, NEW p \in Phone, Receiving(p), HiddenFrom(p),
         NEW r \in Readers(p), Read(p, r)
  PROVE  Receiving(p)' /\ HiddenFrom(p)'
  <1>1. /\ mishaps[p] \subseteq mishaps'[p] /\ UNCHANGED <<main, taken, sent>>
        /\ \A s \in Readers(p) : Holds(p, s)' <=> s = r \/ Holds(p, s)
        /\ link'[p].last = link[p].last
        /\ Held(p) => "crowded" \in mishaps'[p]
    BY ReadActs DEF Frame, Held
  <1>2. Grows(Other(p))
    BY <1>1 DEF Grows
  <1>3. CASE Held(p)
    BY <1>1, <1>2, <1>3, ReceivingCrowded
  <1>4. CASE ~Held(p)
    <2>1. TakenWasSent(p)' /\ HiddenFrom(p)'
      BY <1>1, <1>2, TakenKept DEF Receiving
    <2>2. OneHolder(p)'
      BY <1>1, <1>4 DEF OneHolder, Held
    <2>3. ~Giving(p) /\ ~Giving(p)'
      BY <1>1, <1>4, NobodyServed DEF Giving, MainAt
    <2>4. LastKept(p) => LastKept(p)'
      BY <1>1, <2>3 DEF LastKept, NumberOf
    <2> QED BY <1>1, <2>1, <2>2, <2>4 DEF Receiving, Uncrowded
  <1> QED BY <1>3, <1>4

\* Examining: only a number other than the one kept is handed on, and it becomes the one kept.
LEMMA ReceivingExamine ==
  ASSUME TypeOK, LinkInv, NEW p \in Phone, Receiving(p), HiddenFrom(p),
         NEW r \in Readers(p), Examine(p, r)
  PROVE  Receiving(p)' /\ HiddenFrom(p)'
  <1> DEFINE packet == link[p].buffer
  <1>1. /\ mishaps[p] \subseteq mishaps'[p] /\ UNCHANGED <<taken, sent>> /\ main[p].at = "idle"
        /\ link'[p].buffer = packet
        /\ link'[p].last = IF packet.kind = "game" THEN NumberOf(p, packet) ELSE link[p].last
        /\ Knows(p, r) \/ Hands(p) \/ Answers(p)
    BY ExamineActs DEF Frame, MainAt
  <1>2. TakenWasSent(p)' /\ HiddenFrom(p)'
    BY <1>1, TakenKept DEF Receiving, Grows
  <1> SUFFICES ASSUME Uncrowded(p)'
               PROVE  OneHolder(p)' /\ LastKept(p)'
    BY <1>2 DEF Receiving
  <1>3. OneHolder(p) /\ LastKept(p) /\ ~Giving(p)
    BY <1>1 DEF Receiving, Uncrowded, Giving, MainAt
  <1>4. OneHolder(p)'
    BY <1>1, <1>3 DEF OneHolder, Knows, Hands, Answers, Holds
  <1>5. link[p].last = IF taken[p] = <<>> THEN "none" ELSE NumberOf(p, Last(taken[p]))
    BY <1>3 DEF LastKept
  <1>6. taken[p] # <<>> => NumberOf(p, Last(taken[p]))' = NumberOf(p, Last(taken[p]))
    BY <1>1 DEF NumberOf
  <1>7. CASE Knows(p, r)
    <2>1. ~Giving(p)' /\ link'[p].last = link[p].last
      BY <1>1, <1>7 DEF Knows, Repetition, Giving, MainAt
    <2> QED BY <1>1, <1>4, <1>5, <1>6, <2>1 DEF LastKept
  <1>8. CASE Answers(p)
    <2>1. ~Giving(p)' /\ link'[p].last = link[p].last
      BY <1>1, <1>8 DEF Answers, Ping, Giving, MainAt
    <2> QED BY <1>1, <1>4, <1>5, <1>6, <2>1 DEF LastKept
  <1>9. CASE Hands(p)
    <2>1. CASE packet.kind = "game"
      <3>1. Giving(p)' /\ link'[p].last = NumberOf(p, packet)
        BY <1>1, <1>9, <2>1 DEF Hands, Giving, MainAt
      <3>2. NumberOf(p, link[p].buffer)' = NumberOf(p, packet)
        BY <1>1 DEF NumberOf
      <3>3. NumberOf(p, packet) # link[p].last \/ NumberOf(p, packet) = AccelState
        BY <1>9, <2>1 DEF Hands, Repetition
      <3> QED BY <1>1, <1>4, <1>5, <1>6, <3>1, <3>2, <3>3 DEF LastKept
    <2>2. CASE packet.kind # "game"
      <3>1. ~Giving(p)' /\ link'[p].last = link[p].last
        BY <1>1, <2>2 DEF Giving, MainAt
      <3> QED BY <1>1, <1>4, <1>5, <1>6, <3>1 DEF LastKept
    <2> QED BY <2>1, <2>2
  <1> QED BY <1>1, <1>7, <1>8, <1>9

\* Giving a packet to the game: its number is the one kept, and not that of the one before.
LEMMA ReceivingTake ==
  ASSUME TypeOK, LinkInv, NEW p \in Phone, Receiving(p), HiddenFrom(p), Take(p)
  PROVE  Receiving(p)' /\ HiddenFrom(p)'
  <1> DEFINE packet == link[p].buffer
             n == Len(taken[p])
  <1>1. /\ mishaps[p] \subseteq mishaps'[p] /\ UNCHANGED <<link, sent>>
        /\ MainAt(p, "taking") /\ ~MainAt(p, "taking")'
        /\ \A s \in Readers(p) : Holds(p, s)' => Holds(p, s)
        /\ IF packet.kind = "game"
           THEN \E c : c.k = packet.k /\ taken'[p] = Append(taken[p], c)
           ELSE taken'[p] = taken[p]
    BY TakeActs DEF Frame
  <1>2. Uncrowded(p)' => Uncrowded(p) /\ OneHolder(p) /\ LastKept(p) /\ OneHolder(p)'
    BY <1>1 DEF Receiving, Uncrowded, OneHolder
  <1>3. ~Giving(p)'
    BY <1>1 DEF Giving
  <1>4. CASE packet.kind # "game"
    <2>1. TakenWasSent(p)' /\ HiddenFrom(p)'
      BY <1>1, <1>4, TakenKept DEF Receiving, Grows
    <2>2. ~Giving(p)
      BY <1>4 DEF Giving
    <2>3. LastKept(p) => LastKept(p)'
      BY <1>1, <1>3, <1>4, <2>2 DEF LastKept, NumberOf
    <2> QED BY <1>2, <2>1, <2>3 DEF Receiving
  <1>5. CASE packet.kind = "game"
    <2>1. PICK c : c.k = packet.k /\ taken'[p] = Append(taken[p], c)
      BY <1>1, <1>5
    <2>2. /\ Len(taken'[p]) = n + 1 /\ DOMAIN taken'[p] = 1..(n + 1) /\ taken'[p][n + 1] = c /\ taken'[p] # <<>>
          /\ \A i \in DOMAIN taken[p] : taken'[p][i] = taken[p][i]
          /\ DOMAIN taken[p] = 1..n /\ n \in Nat /\ Last(taken'[p]) = c
      <3>1. /\ Len(taken'[p]) = n + 1 /\ DOMAIN taken'[p] = 1..(n + 1) /\ taken'[p][n + 1] = c
            /\ \A i \in DOMAIN taken[p] : taken'[p][i] = taken[p][i]
            /\ DOMAIN taken[p] = 1..n /\ n \in Nat
        BY <2>1, TakenIn, SMTT(60)
      <3>2. taken'[p] # <<>>
        BY <3>1
      <3> QED BY <3>1, <3>2 DEF Last
    <2>3. c.k \in 1..Len(sent[Other(p)]) /\ NumberOf(p, c) = NumberOf(p, packet) /\ NumberOf(p, c)' = NumberOf(p, c)
      BY <1>1, <1>5, <2>1, BufferSent DEF NumberOf
    <2>4. TakenWasSent(p)'
      <3>1. \A i \in DOMAIN taken'[p] : i \in DOMAIN taken[p] \/ i = n + 1
        BY <2>2
      <3> QED BY <1>1, <2>2, <2>3, <3>1 DEF TakenWasSent, Receiving
    <2>5. Giving(p)
      BY <1>1, <1>5 DEF Giving
    <2>6. LastKept(p) => LastKept(p)'
      BY <1>1, <1>3, <2>2, <2>3, <2>5 DEF LastKept, NumberOf
    <2>7. HiddenFrom(p)'
      <3> SUFFICES ASSUME Uncrowded(p)', NEW i \in DOMAIN taken'[p] \ {1},
                          NumberOf(p, taken'[p][i]) = NumberOf(p, taken'[p][i - 1])
                   PROVE  NumberOf(p, taken'[p][i]) = AccelState
        BY <1>1 DEF HiddenFrom, NumberOf
      <3>1. CASE i \in DOMAIN taken[p]
        <4>1. i - 1 \in DOMAIN taken[p]
          BY <2>2, <3>1
        <4> QED BY <1>2, <2>2, <3>1, <4>1 DEF HiddenFrom
      <3>2. CASE i = n + 1
        <4>1. n # 0 /\ n \in DOMAIN taken[p] /\ taken[p] # <<>>
          BY <2>2, <3>2
        <4>2. Last(taken[p]) = taken[p][n]
          BY DEF Last
        <4>3. taken'[p][i] = c /\ taken'[p][i - 1] = Last(taken[p])
          BY <2>2, <3>2, <4>1, <4>2
        <4> QED BY <1>2, <2>3, <2>5, <4>1, <4>3 DEF LastKept
      <3> QED BY <2>2, <3>1, <3>2
    <2> QED BY <1>2, <2>4, <2>6, <2>7 DEF Receiving
  <1> QED BY <1>4, <1>5

-----------------------------------------------------------------------------
\* The copies.  A step of phone p that puts no packet of the game on the net, and no answer.
Games(p) == {c \in net[p] : c.kind = "game"}

Hushed(p) ==
  /\ sent'[p] = sent[p] /\ net'[p] \subseteq net[p]
  /\ Response \in net'[Other(p)] => Response \in net[Other(p)]
  /\ Uncrossed(p)' => Games(Other(p))' \subseteq Games(Other(p)) /\ (MainAt(p, "sending")' => MainAt(p, "sending"))

\* A copy made from a ping's header is none.
LEMMA TransmitsNothing ==
  ASSUME TypeOK, NEW p \in Phone, Transmit(p), Building(p), NoBuild(p), mishaps[p] \subseteq mishaps'[p],
         BuildsPing(p) \/ \E r \in Repeaters(p) : thread[p][r].at = "send"
  PROVE  Hushed(p)
  <1>1. Datagram(p) # Response
    BY DEF Datagram, Game, Response
  <1>2. /\ net'[p] = net[p]
        /\ link[p].header = PingHeader => net'[Other(p)] = net[Other(p)]
        /\ link[p].header # PingHeader => net'[Other(p)] = net[Other(p)] \union {Datagram(p)}
    BY Transmitted
  <1>3. Uncrossed(p)' => Uncrossed(p) /\ link[p].header = PingHeader
    BY DEF Building, Uncrossed
  <1> QED BY <1>1, <1>2, <1>3 DEF Hushed, NoBuild, Games

\* The steps after which nothing is under way that was not before.
LEMMA HushedSteps ==
  ASSUME TypeOK, LinkInv, OrderInv, NEW p \in Phone,
         \/ Post(p) \/ AnswerPing(p) \/ BuildPing(p) \/ SendPing(p)
         \/ \E r \in Readers(p) : NothingToRead(p, r) \/ Again(p, r)
         \/ \E r \in Repeaters(p) : Repeater(p, r) \/ Repeat(p, r)
  PROVE  Frame(p) /\ Hushed(p) /\ Goes(p) /\ taken'[p] = taken[p] /\ (Same(p) \/ "crowded" \in mishaps'[p])
  <1>1. Building(p)
    BY DEF OrderInv
  <1>2. ASSUME UNCHANGED net, NoBuild(p) PROVE Hushed(p)
    BY <1>2 DEF Hushed, NoBuild, Games
  <1>3. ASSUME UNCHANGED <<net, sent, main>> PROVE Hushed(p)
    BY <1>3 DEF Hushed, MainAt, Games
  <1>4. ASSUME Transmit(p), NoBuild(p), Frame(p),
               BuildsPing(p) \/ \E r \in Repeaters(p) : thread[p][r].at = "send"
        PROVE  Hushed(p)
    BY <1>1, <1>4, TransmitsNothing DEF Frame
  <1>5. CASE Post(p)
    BY <1>2, <1>5, PostActs DEF Same
  <1>6. CASE AnswerPing(p)
    BY <1>4, <1>6, AnswerPingActs DEF Same, BuildsPing
  <1>7. CASE BuildPing(p)
    BY <1>3, <1>7, BuildPingActs DEF Same
  <1>8. CASE SendPing(p)
    BY <1>4, <1>8, SendPingActs DEF Same, BuildsPing
  <1>9. ASSUME NEW r \in Readers(p), NothingToRead(p, r)
        PROVE  Frame(p) /\ Hushed(p) /\ Goes(p) /\ taken'[p] = taken[p] /\ Same(p)
    BY <1>2, <1>9, NothingToReadActs DEF Same
  <1>10. ASSUME NEW r \in Readers(p), Again(p, r)
         PROVE  Frame(p) /\ Hushed(p) /\ Goes(p) /\ taken'[p] = taken[p] /\ (Same(p) \/ "crowded" \in mishaps'[p])
    BY <1>2, <1>10, AgainActs
  <1>11. ASSUME NEW r \in Repeaters(p), Repeater(p, r)
         PROVE  Frame(p) /\ Hushed(p) /\ Goes(p) /\ taken'[p] = taken[p] /\ Same(p)
    BY <1>2, <1>4, <1>11, RepeaterActs DEF Same
  <1>12. ASSUME NEW r \in Repeaters(p), Repeat(p, r)
         PROVE  Frame(p) /\ Hushed(p) /\ Goes(p) /\ taken'[p] = taken[p] /\ Same(p)
    BY <1>3, <1>12, RepeatActs DEF Same
  <1> QED BY <1>5, <1>6, <1>7, <1>8, <1>9, <1>10, <1>11, <1>12

\* Fewer copies keep their places.
LEMMA CopiesKept ==
  ASSUME NEW q \in Phone, Copies(q),
         Uncrossed(Other(q))' => Uncrossed(Other(q)) /\ Games(q)' \subseteq Games(q),
         mishaps[q] \subseteq mishaps'[q],
         Held(q)' => Held(q), link'[q].buffer = link[q].buffer, taken'[q] = taken[q],
         sent'[Other(q)] = sent[Other(q)],
         Uncrossed(Other(q))' /\ MainAt(Other(q), "sending")' => MainAt(Other(q), "sending")
  PROVE  Copies(q)'
  <1> SUFFICES ASSUME Uncrossed(Other(q))', Uncrowded(q)'
               PROVE  OnePlace(q)'
    BY DEF Copies
  <1>1. OnePlace(q) /\ Games(q)' \subseteq Games(q)
    BY DEF Copies, Uncrowded
  <1>2. \A c \in net'[q] : c.kind = "game" => c \in net[q]
    BY <1>1 DEF Games
  <1>3. ASSUME NEW k \in Ordinals
        PROVE  /\ OnNet(q, k)' => OnNet(q, k)
               /\ InBuffer(q, k)' => InBuffer(q, k)
               /\ WithGame(q, k)' => WithGame(q, k)
               /\ Unsent(Other(q), k)' => Unsent(Other(q), k)
    BY <1>2 DEF OnNet, InBuffer, WithGame, Unsent
  <1> QED BY <1>1, <1>2, <1>3 DEF OnePlace

\* The order of a sender that sends nothing, when nothing arrives anywhere.
LEMMA AcknowledgedKept ==
  ASSUME NEW p \in Phone, Acknowledged(p),
         mishaps[p] \subseteq mishaps'[p], mishaps[Other(p)] \subseteq mishaps'[Other(p)],
         sent'[p] = sent[p], taken'[Other(p)] = taken[Other(p)], Goes(p),
         Uncrossed(p)' /\ MainAt(p, "sending")' => MainAt(p, "sending"),
         Uncrossed(p)' => \A k \in Ordinals : Reaching(Other(p), k)' => Reaching(Other(p), k),
         (Answered(p) \/ AnswerHeld(p))' => Answered(p) \/ AnswerHeld(p),
         (Answered(p) /\ AnswerHeld(p))' => Answered(p) /\ AnswerHeld(p)
  PROVE  Acknowledged(p)'
  <1> SUFFICES ASSUME Sequential(p)', Orderly', link'[p].up
               PROVE  InOrder(p, Other(p))'
    BY DEF Acknowledged
  <1>1. Uncrossed(p)' /\ Sequential(p)
    BY DEF Sequential, Uncrossed
  <1>2. Orderly
    BY Pair DEF Orderly
  <1>3. InOrder(p, Other(p)) /\ link'[p].neadSend = link[p].neadSend
    BY <1>1, <1>2 DEF Acknowledged, Goes
  <1> DEFINE o == Other(p)
             n == Len(sent[p])
             t == Len(taken[o])
  <1>4. /\ \A i \in DOMAIN taken'[o] : taken'[o][i].k = i
        /\ \A i \in DOMAIN sent'[p] \ {1} : sent'[p][i] # sent'[p][i - 1]
        /\ Len(taken'[o]) = t /\ Len(sent'[p]) = n
        /\ t = n \/ t = n - 1
        /\ ~link'[p].neadSend => t = n
    BY <1>3 DEF InOrder
  <1>5. /\ MainAt(p, "sending") \/ (\E k \in Ordinals : Reaching(o, k))
             => t = n - 1 /\ link[p].neadSend /\ ~Answered(p) /\ ~AnswerHeld(p)
        /\ \A k \in Ordinals : Reaching(o, k) => k = n /\ ~MainAt(p, "sending")
        /\ Answered(p) \/ AnswerHeld(p) => t = n /\ link[p].neadSend
        /\ ~(Answered(p) /\ AnswerHeld(p))
    BY <1>3 DEF InOrder
  <1> HIDE DEF o, n, t
  <1>6. /\ MainAt(p, "sending")' => MainAt(p, "sending")
        /\ \A k \in Ordinals : Reaching(o, k)' => Reaching(o, k)
    BY <1>1 DEF o
  <1>7. /\ MainAt(p, "sending")' \/ (\E k \in Ordinals : Reaching(o, k)')
             => t = n - 1 /\ link'[p].neadSend /\ ~Answered(p)' /\ ~AnswerHeld(p)'
        /\ \A k \in Ordinals : Reaching(o, k)' => k = n /\ ~MainAt(p, "sending")'
        /\ Answered(p)' \/ AnswerHeld(p)' => t = n /\ link'[p].neadSend
        /\ ~(Answered(p)' /\ AnswerHeld(p)')
    BY <1>3, <1>5, <1>6
  <1> QED BY <1>4, <1>7 DEF InOrder, o

\* Fewer packets of the game reach a phone on whose net and in whose buffer there are no new ones.
LEMMA ReachingFewer ==
  ASSUME NEW q \in Phone, Games(q)' \subseteq Games(q), Held(q)' => Held(q), link'[q].buffer = link[q].buffer
  PROVE  \A k \in Ordinals : Reaching(q, k)' => Reaching(q, k)
  <1>1. \A c \in net'[q] : c.kind = "game" => c \in net[q]
    BY DEF Games
  <1> QED BY <1>1 DEF Reaching, OnNet, InBuffer

\* The quiet steps.
LEMMA QuietKeeps ==
  ASSUME TypeOK, LinkInv, OrderInv, NEW p \in Phone, Frame(p), Hushed(p), Goes(p), taken'[p] = taken[p],
         Same(p) \/ "crowded" \in mishaps'[p]
  PROVE  \A q \in Phone : Copies(q)' /\ Acknowledged(q)'
  <1> DEFINE o == Other(p)
  <1>1. o \in Phone /\ o # p /\ Other(o) = p /\ \A q \in Phone : q = p \/ q = o
    BY Pair
  <1>2. Copies(p) /\ Copies(o) /\ Acknowledged(p) /\ Acknowledged(o)
    BY <1>1 DEF OrderInv
  <1>3. /\ link'[o] = link[o] /\ main'[o] = main[o] /\ thread'[o] = thread[o]
        /\ taken'[o] = taken[o] /\ sent'[o] = sent[o] /\ mishaps'[o] = mishaps[o]
        /\ mishaps[p] \subseteq mishaps'[p] /\ sent'[p] = sent[p] /\ net'[p] \subseteq net[p]
        /\ Response \in net'[o] => Response \in net[o]
        /\ Uncrossed(p)' => Games(o)' \subseteq Games(o) /\ (MainAt(p, "sending")' => MainAt(p, "sending"))
    BY <1>1 DEF Frame, Hushed
  <1> HIDE DEF o
  <1>4. Uncrossed(p)' => Uncrossed(p)
    BY <1>3 DEF Uncrossed
  <1>5. /\ Held(o)' => Held(o)
        /\ MainAt(o, "sending")' => MainAt(o, "sending")
        /\ Uncrossed(o)' => Uncrossed(o)
        /\ Games(p)' \subseteq Games(p)
        /\ Goes(o) /\ (Answered(o)' => Answered(o)) /\ (AnswerHeld(o)' => AnswerHeld(o))
        /\ Answered(p)' => Answered(p)
    BY <1>3 DEF Held, Holds, MainAt, Uncrossed, Games, Goes, Answered, AnswerHeld
  <1>6. Copies(o)'
    BY <1>1, <1>2, <1>3, <1>4, <1>5, CopiesKept
  <1>7. CASE "crowded" \in mishaps'[p]
    <2>1. Copies(p)'
      BY <1>7 DEF Copies, Uncrowded
    <2>2. Acknowledged(p)' /\ Acknowledged(o)'
      BY <1>1, <1>7 DEF Acknowledged, Orderly
    <2> QED BY <1>1, <1>6, <2>1, <2>2
  <1>8. CASE Same(p)
    <2>1. /\ Held(p)' => Held(p)
          /\ link'[p].buffer = link[p].buffer /\ taken'[p] = taken[p]
          /\ AnswerHeld(p)' => AnswerHeld(p)
      BY <1>8 DEF Same, Held, AnswerHeld, MainAt
    <2>2. Copies(p)'
      BY <1>2, <1>3, <1>5, <2>1, CopiesKept DEF o
    <2>3. Acknowledged(o)'
      <3>1. \A k \in Ordinals : Reaching(p, k)' => Reaching(p, k)
        BY <1>5, <2>1, ReachingFewer
      <3> QED BY <1>1, <1>2, <1>3, <1>5, <2>1, <3>1, AcknowledgedKept
    <2>4. Acknowledged(p)'
      <3>1. Uncrossed(p)' => \A k \in Ordinals : Reaching(o, k)' => Reaching(o, k)
        BY <1>1, <1>3, <1>5, ReachingFewer
      <3>2. Other(p) = o
        BY DEF o
      <3> QED BY <1>2, <1>3, <1>5, <2>1, <3>1, <3>2, AcknowledgedKept
    <2> QED BY <1>1, <1>6, <2>2, <2>3, <2>4
  <1> QED BY <1>7, <1>8

-----------------------------------------------------------------------------
\* The numbers of the copies anywhere are those of packets that were sent.
LEMMA PlacesSent ==
  ASSUME TypeOK, LinkInv, NEW p \in Phone, TakenWasSent(p), NEW k,
         OnNet(p, k) \/ InBuffer(p, k) \/ WithGame(p, k)
  PROVE  k \in 1..Len(sent[Other(p)]) /\ Len(sent[Other(p)]) \in Nat
  <1>1. Len(sent[Other(p)]) \in Nat
    BY Pair DEF TypeOK
  <1>2. CASE OnNet(p, k)
    <2>1. PICK c \in net[p] : c.kind = "game" /\ c.k = k
      BY <1>2 DEF OnNet
    <2>2. Honest(p, c) /\ c \in Packet
      BY DEF LinkInv, HonestCopies, TypeOK
    <2> QED BY <1>1, <2>1, <2>2 DEF Honest, Packet
  <1>3. CASE InBuffer(p, k)
    BY <1>1, <1>3, BufferSent DEF InBuffer
  <1>4. CASE WithGame(p, k)
    BY <1>1, <1>4 DEF WithGame, TakenWasSent
  <1> QED BY <1>2, <1>3, <1>4

\* Building a packet: without a crossing, everything before it is with the other game.
LEMMA SendKeepsOrder ==
  ASSUME TypeOK, LinkInv, OrderInv, NEW p \in Phone, Send(p)
  PROVE  \A q \in Phone : Copies(q)' /\ Acknowledged(q)'
  <1> DEFINE o == Other(p)
             n == Len(sent[p])
             t == Len(taken[o])
  <1>1. o \in Phone /\ o # p /\ Other(o) = p /\ \A q \in Phone : q = p \/ q = o
    BY Pair
  <1>2. /\ Copies(p) /\ Copies(o) /\ Acknowledged(p) /\ Acknowledged(o)
        /\ TakenWasSent(o)
    BY <1>1 DEF OrderInv, Receiving
  <1>3. /\ Frame(p) /\ Same(p) /\ UNCHANGED <<net, thread>> /\ MainAt(p, "idle") /\ MainAt(p, "sending")'
        /\ link[p].neadSend => "overlap" \in mishaps'[p]
        /\ link'[p].neadSend /\ link'[p].up = link[p].up
    BY SendActs
  <1>4. PICK number \in Number :
          /\ sent'[p] = Append(sent[p], number)
          /\ sent[p] # <<>> /\ Last(sent[p]) = number => "sameNumber" \in mishaps'[p]
    BY SendActs
  <1>5. /\ link'[o] = link[o] /\ main'[o] = main[o] /\ thread'[o] = thread[o]
        /\ taken'[o] = taken[o] /\ sent'[o] = sent[o] /\ mishaps'[o] = mishaps[o]
        /\ mishaps[p] \subseteq mishaps'[p]
    BY <1>1, <1>3 DEF Frame
  <1>6. /\ Len(sent'[p]) = n + 1 /\ n \in Nat /\ sent'[p][n + 1] = number
        /\ DOMAIN sent'[p] = 1..(n + 1) /\ DOMAIN sent[p] = 1..n
        /\ \A i \in 1..n : sent'[p][i] = sent[p][i]
    BY <1>4 DEF TypeOK
  <1> HIDE DEF o, n, t
  <1>7. /\ Held(p)' => Held(p)
        /\ link'[p].buffer = link[p].buffer /\ taken'[p] = taken[p]
        /\ Games(p)' = Games(p) /\ Games(o)' = Games(o)
        /\ Uncrossed(o)' => Uncrossed(o)
        /\ MainAt(o, "sending")' => MainAt(o, "sending")
        /\ Held(o)' => Held(o)
    BY <1>3, <1>5 DEF Same, Held, Holds, Games, Uncrossed, MainAt
  <1>8. Copies(p)'
    BY <1>2, <1>3, <1>5, <1>7, CopiesKept DEF o
  <1>9. Copies(o)'
    <2> SUFFICES ASSUME Uncrossed(p)', Uncrowded(o)'
                 PROVE  OnePlace(o)'
      BY <1>1 DEF Copies
    <2>1. OnePlace(o)
      BY <1>1, <1>2, <1>5 DEF Copies, Uncrossed, Uncrowded
    <2>2. ASSUME NEW k \in Ordinals
          PROVE  /\ (OnNet(o, k)' <=> OnNet(o, k)) /\ (InBuffer(o, k)' => InBuffer(o, k))
                 /\ WithGame(o, k)' <=> WithGame(o, k)
                 /\ Unsent(p, k)' => k = n + 1
                 /\ OnNet(o, k) \/ InBuffer(o, k) \/ WithGame(o, k) => k # n + 1
      <3>1. OnNet(o, k) \/ InBuffer(o, k) \/ WithGame(o, k) => k \in 1..n
        BY <1>1, <1>2, PlacesSent DEF n
      <3> QED BY <1>3, <1>5, <1>6, <1>7, <3>1 DEF OnNet, InBuffer, WithGame, Unsent, Held, Holds
    <2> QED BY <1>1, <1>3, <1>5, <2>1, <2>2 DEF OnePlace
  <1>10. Acknowledged(o)'
    <2>1. \A k \in Ordinals : Reaching(p, k)' => Reaching(p, k)
      BY <1>7, ReachingFewer
    <2>2. Goes(o) /\ (Answered(o)' <=> Answered(o)) /\ (AnswerHeld(o)' <=> AnswerHeld(o))
      BY <1>3, <1>5 DEF Goes, Answered, AnswerHeld, Held, Holds, MainAt
    <2> QED BY <1>1, <1>2, <1>5, <1>7, <2>1, <2>2, AcknowledgedKept
  <1>11. Acknowledged(p)'
    <2> SUFFICES ASSUME Sequential(p)', Orderly', link'[p].up
                 PROVE  InOrder(p, o)'
      BY DEF Acknowledged, o
    <2>1. ~link[p].neadSend /\ ~(sent[p] # <<>> /\ Last(sent[p]) = number)
      BY <1>3, <1>4 DEF Sequential
    <2>2. InOrder(p, o)
      <3>1. Sequential(p) /\ Orderly
        BY <1>1, <1>5 DEF Sequential, Orderly
      <3> QED BY <1>2, <1>3, <3>1 DEF Acknowledged, o
    <2>3. /\ t = n /\ ~Answered(p) /\ ~AnswerHeld(p) /\ ~MainAt(p, "sending")
          /\ \A k \in Ordinals : ~Reaching(o, k)
          /\ \A i \in DOMAIN taken[o] : taken[o][i].k = i
          /\ \A i \in DOMAIN sent[p] \ {1} : sent[p][i] # sent[p][i - 1]
      BY <2>1, <2>2 DEF InOrder, n, t
    <2>4. ~Answered(p)' /\ ~AnswerHeld(p)'
      BY <1>3, <1>7, <2>3 DEF Answered, AnswerHeld, Same, MainAt
    <2>5. \A k \in Ordinals : ~Reaching(o, k)'
      <3>1. \A k \in Ordinals : Reaching(o, k)' => Reaching(o, k)
        BY <1>1, <1>5, <1>7, ReachingFewer
      <3> QED BY <2>3, <3>1
    <2>6. ASSUME NEW i \in DOMAIN sent'[p] \ {1}
          PROVE  sent'[p][i] # sent'[p][i - 1]
      <3>1. CASE i \in 1..n
        <4>1. i \in DOMAIN sent[p] \ {1} /\ i - 1 \in 1..n
          BY <1>6, <3>1
        <4>2. sent'[p][i] = sent[p][i] /\ sent'[p][i - 1] = sent[p][i - 1]
          BY <1>6, <3>1, <4>1
        <4> QED BY <2>3, <4>1, <4>2
      <3>2. CASE i = n + 1
        <4>1. n \in 1..n /\ sent[p] # <<>> /\ Last(sent[p]) = sent[p][n] /\ i - 1 = n
          BY <1>6, <3>2 DEF Last, n
        <4> QED BY <1>6, <2>1, <3>2, <4>1
      <3> QED BY <1>6, <3>1, <3>2
    <2>7. Len(taken'[o]) = n /\ Len(sent'[p]) - 1 = n
      BY <1>5, <1>6, <2>3 DEF t
    <2> QED BY <1>3, <1>5, <2>3, <2>4, <2>5, <2>6, <2>7 DEF InOrder
  <1> QED BY <1>1, <1>8, <1>9, <1>10, <1>11

\* Sending it: it was nowhere else yet.
LEMMA SendCopyKeepsOrder ==
  ASSUME TypeOK, LinkInv, OrderInv, NEW p \in Phone, SendCopy(p)
  PROVE  \A q \in Phone : Copies(q)' /\ Acknowledged(q)'
  <1> DEFINE o == Other(p)
             n == Len(sent[p])
             c == Datagram(p)
  <1>1. o \in Phone /\ o # p /\ Other(o) = p /\ \A q \in Phone : q = p \/ q = o
    BY Pair
  <1>2. Copies(p) /\ Copies(o) /\ Acknowledged(p) /\ Acknowledged(o) /\ Building(p)
    BY <1>1 DEF OrderInv
  <1>3. /\ Frame(p) /\ Same(p) /\ UNCHANGED <<link, thread, sent, mishaps>>
        /\ MainAt(p, "sending") /\ ~MainAt(p, "sending")' /\ UNCHANGED taken
        /\ main'[o] = main[o]
    BY <1>1, SendCopyActs DEF Frame, MainAt, SendCopy
  <1>4. /\ net'[p] = net[p]
        /\ link[p].header = PingHeader => net'[o] = net[o]
        /\ link[p].header # PingHeader => net'[o] = net[o] \union {c}
    BY SendCopyActs, Transmitted
  <1>5. n \in Nat \ {0} /\ n \in Ordinals
    <2>1. n \in Nat \ {0}
      BY <1>3 DEF LinkInv, Filled, TypeOK
    <2> QED BY <2>1, SentOrdinals
  <1>6. c.kind = "game" /\ c # Response /\ c.k = link[p].header
    BY DEF Datagram, Game, Response
  <1>7. Uncrossed(p) => c.k = n /\ net'[o] = net[o] \union {c}
    BY <1>2, <1>3, <1>4, <1>5, <1>6 DEF Building, PingHeader
  <1> HIDE DEF o, n, c
  <1>8. /\ Held(p)' <=> Held(p)
        /\ Held(o)' <=> Held(o)
        /\ Games(p)' = Games(p)
        /\ Uncrossed(o)' <=> Uncrossed(o)
        /\ Uncrossed(p)' <=> Uncrossed(p)
        /\ MainAt(o, "sending")' => MainAt(o, "sending")
        /\ Goes(p) /\ Goes(o)
        /\ Response \in net'[o] <=> Response \in net[o]
    BY <1>3, <1>4, <1>6 DEF Held, Holds, Games, Uncrossed, MainAt, Goes
  <1>9. Copies(p)'
    BY <1>2, <1>3, <1>8, CopiesKept DEF o
  <1>10. \A k \in Ordinals : /\ Uncrossed(p) => (OnNet(o, k)' <=> OnNet(o, k) \/ k = n)
                             /\ (InBuffer(o, k)' <=> InBuffer(o, k)) /\ (WithGame(o, k)' <=> WithGame(o, k))
                             /\ ~Unsent(p, k)' /\ (Unsent(p, k) <=> k = n)
    BY <1>3, <1>6, <1>7, <1>8 DEF OnNet, InBuffer, WithGame, Unsent, n
  <1>11. Copies(o)'
    <2> SUFFICES ASSUME Uncrossed(p), Uncrowded(o)
                 PROVE  OnePlace(o)'
      BY <1>1, <1>3, <1>8 DEF Copies, Uncrowded
    <2>1. OnePlace(o)
      BY <1>1, <1>2 DEF Copies
    <2>2. ~OnNet(o, n) /\ ~InBuffer(o, n) /\ ~WithGame(o, n)
      BY <1>1, <1>5, <1>10, <2>1 DEF OnePlace
    <2>3. \A a, b \in net'[o] : a.kind = "game" /\ b.kind = "game" /\ a.k = b.k => a = b
      BY <1>7, <2>1, <2>2 DEF OnePlace, OnNet
    <2>4. \A i, j \in DOMAIN taken'[o] : taken'[o][i].k = taken'[o][j].k => i = j
      BY <1>3, <2>1 DEF OnePlace
    <2>5. \A k \in Ordinals : /\ OnNet(o, k)' => ~InBuffer(o, k)' /\ ~WithGame(o, k)' /\ ~Unsent(p, k)'
                              /\ InBuffer(o, k)' => ~WithGame(o, k)' /\ ~Unsent(p, k)'
                              /\ WithGame(o, k)' => ~Unsent(p, k)'
      BY <1>1, <1>10, <2>1, <2>2 DEF OnePlace
    <2> QED BY <1>1, <2>3, <2>4, <2>5 DEF OnePlace
  <1>12. Acknowledged(o)'
    <2>1. \A k \in Ordinals : Reaching(p, k)' => Reaching(p, k)
      BY <1>3, <1>8, ReachingFewer
    <2>2. (Answered(o)' <=> Answered(o)) /\ (AnswerHeld(o)' <=> AnswerHeld(o))
      BY <1>3, <1>8 DEF Answered, AnswerHeld, MainAt
    <2> QED BY <1>1, <1>2, <1>3, <1>8, <2>1, <2>2, AcknowledgedKept
  <1>13. Acknowledged(p)'
    <2> SUFFICES ASSUME Sequential(p), Orderly, link[p].up
                 PROVE  InOrder(p, o)'
      BY <1>3 DEF Acknowledged, o, Sequential, Orderly
    <2>1. Uncrossed(p) /\ InOrder(p, o)
      BY <1>2 DEF Uncrossed, Sequential, Acknowledged, o
    <2>2. /\ Len(taken[o]) = n - 1 /\ link[p].neadSend /\ ~Answered(p) /\ ~AnswerHeld(p)
          /\ \A k \in Ordinals : ~Reaching(o, k)
          /\ \A i \in DOMAIN taken[o] : taken[o][i].k = i
          /\ \A i \in DOMAIN sent[p] \ {1} : sent[p][i] # sent[p][i - 1]
      BY <1>3, <2>1 DEF InOrder, n
    <2>3. ~Answered(p)' /\ ~AnswerHeld(p)'
      BY <1>3, <1>4, <1>8, <2>2 DEF Answered, AnswerHeld, Same
    <2>4. \A k \in Ordinals : Reaching(o, k)' => k = n
      BY <1>10, <2>1, <2>2 DEF Reaching
    <2>5. Len(taken'[o]) = n - 1 /\ Len(sent'[p]) = n
      BY <1>3, <2>2 DEF n
    <2> QED BY <1>3, <1>5, <2>2, <2>3, <2>4, <2>5 DEF InOrder
  <1> QED BY <1>1, <1>9, <1>11, <1>12, <1>13

\* Reading a datagram: the packet moves from the net into the buffer.
LEMMA ReadKeepsOrder ==
  ASSUME TypeOK, LinkInv, OrderInv, NEW p \in Phone, NEW r \in Readers(p), Read(p, r)
  PROVE  \A q \in Phone : Copies(q)' /\ Acknowledged(q)'
  <1> DEFINE o == Other(p)
             c == link'[p].buffer
  <1>1. o \in Phone /\ o # p /\ Other(o) = p /\ \A q \in Phone : q = p \/ q = o
    BY Pair
  <1>2. Copies(p) /\ Copies(o) /\ Acknowledged(p) /\ Acknowledged(o)
    BY <1>1 DEF OrderInv
  <1>3. /\ Frame(p) /\ NoBuild(p) /\ Goes(p) /\ UNCHANGED <<main, taken, sent>>
        /\ Held(p) => "crowded" \in mishaps'[p]
        /\ net'[o] = net[o] /\ net'[p] = net[p] \ {c}
        /\ c \in net[p] \/ c = Ping
    BY ReadActs DEF Held
  <1>4. /\ link'[o] = link[o] /\ thread'[o] = thread[o] /\ mishaps'[o] = mishaps[o]
        /\ mishaps[p] \subseteq mishaps'[p]
    BY <1>1, <1>3 DEF Frame
  <1> HIDE DEF o, c
  <1>5. Hushed(p)
    BY <1>3 DEF Hushed, MainAt, Games, o
  <1>6. CASE Held(p)
    BY <1>3, <1>5, <1>6, QuietKeeps
  <1>7. CASE ~Held(p)
    <2>1. /\ Held(o)' <=> Held(o)
          /\ Games(o)' = Games(o) /\ Games(p)' \subseteq Games(p)
          /\ Uncrossed(o)' <=> Uncrossed(o)
          /\ Uncrossed(p)' => Uncrossed(p)
          /\ Goes(o) /\ (Answered(o)' <=> Answered(o)) /\ (AnswerHeld(o)' <=> AnswerHeld(o))
      BY <1>3, <1>4 DEF Held, Holds, Games, Uncrossed, Goes, Answered, AnswerHeld, MainAt
    <2>2. Copies(o)'
      BY <1>1, <1>2, <1>3, <1>4, <2>1, CopiesKept DEF MainAt
    <2>3. \A k \in Ordinals : /\ OnNet(p, k)' => OnNet(p, k)
                              /\ InBuffer(p, k)' => OnNet(p, k)
                              /\ (WithGame(p, k)' <=> WithGame(p, k)) /\ (Unsent(o, k)' <=> Unsent(o, k))
      BY <1>3 DEF OnNet, InBuffer, WithGame, Unsent, MainAt, Ping, c
    <2>4. Copies(p)'
      <3> SUFFICES ASSUME Uncrossed(o), Uncrowded(p)
                   PROVE  OnePlace(p)'
        BY <1>4, <2>1 DEF Copies, Uncrowded, o
      <3>1. OnePlace(p)
        BY <1>2 DEF Copies, o
      <3>2. \A a, b \in net'[p] : a.kind = "game" /\ b.kind = "game" /\ a.k = b.k => a = b
        BY <1>3, <3>1 DEF OnePlace
      <3>3. \A k \in Ordinals : InBuffer(p, k)' => ~OnNet(p, k)'
        <4> SUFFICES ASSUME NEW k \in Ordinals, InBuffer(p, k)', NEW a \in net'[p], a.kind = "game", a.k = k
                     PROVE  FALSE
          BY DEF OnNet
        <4>1. c.kind = "game" /\ c.k = k
          BY DEF InBuffer, c
        <4>2. c \in net[p] /\ a \in net[p] /\ a # c
          BY <1>3, <4>1 DEF Ping
        <4> QED BY <3>1, <4>1, <4>2 DEF OnePlace
      <3>4. \A i, j \in DOMAIN taken'[p] : taken'[p][i].k = taken'[p][j].k => i = j
        BY <1>3, <3>1 DEF OnePlace
      <3>5. \A k \in Ordinals : /\ OnNet(p, k)' => ~InBuffer(p, k)' /\ ~WithGame(p, k)' /\ ~Unsent(o, k)'
                                /\ InBuffer(p, k)' => ~WithGame(p, k)' /\ ~Unsent(o, k)'
                                /\ WithGame(p, k)' => ~Unsent(o, k)'
        BY <2>3, <3>1, <3>3 DEF OnePlace, o
      <3> QED BY <3>2, <3>4, <3>5 DEF OnePlace, o
    <2>5. Acknowledged(o)'
      <3>1. \A k \in Ordinals : Reaching(p, k)' => Reaching(p, k)
        BY <2>3 DEF Reaching
      <3> QED BY <1>1, <1>2, <1>3, <1>4, <2>1, <3>1, AcknowledgedKept DEF MainAt
    <2>6. Acknowledged(p)'
      <3>1. \A k \in Ordinals : Reaching(o, k)' => Reaching(o, k)
        BY <1>1, <1>4, <2>1, ReachingFewer
      <3>2. (Answered(p) \/ AnswerHeld(p))' => Answered(p) \/ AnswerHeld(p)
        BY <1>3 DEF Answered, AnswerHeld, Response, Ping, c
      <3>3. ~(Answered(p) /\ AnswerHeld(p))'
        BY <1>3 DEF Answered, AnswerHeld, c
      <3> QED BY <1>2, <1>3, <1>4, <2>1, <3>1, <3>2, <3>3, AcknowledgedKept DEF MainAt, o
    <2> QED BY <1>1, <2>2, <2>4, <2>5, <2>6
  <1> QED BY <1>6, <1>7

\* The packet in the buffer of phone p is not taken for a repetition when the other sends in order.
LEMMA NoRepetitionInOrder ==
  ASSUME TypeOK, LinkInv, NEW p \in Phone, Receiving(p), Uncrowded(p), InOrder(Other(p), p),
         NEW r \in Readers(p), Holds(p, r), MainAt(p, "idle")
  PROVE  ~Repetition(p, link[p].buffer)
  <1> SUFFICES ASSUME Repetition(p, link[p].buffer)
               PROVE  FALSE
    OBVIOUS
  <1> DEFINE o == Other(p)
             n == Len(sent[o])
             k == link[p].buffer.k
  <1>1. o \in Phone
    BY Pair
  <1>2. link[p].buffer.kind = "game" /\ NumberOf(p, link[p].buffer) = link[p].last
    BY DEF Repetition
  <1>3. k \in 1..n /\ n \in Nat /\ k \in Ordinals
    BY <1>1, <1>2, BufferSent, SentOrdinals DEF TypeOK
  <1>4. Reaching(p, k)
    BY <1>2 DEF Reaching, InBuffer, Held
  <1>5. /\ k = n /\ Len(taken[p]) = n - 1
        /\ \A i \in DOMAIN taken[p] : taken[p][i].k = i
        /\ \A i \in DOMAIN sent[o] \ {1} : sent[o][i] # sent[o][i - 1]
    BY <1>3, <1>4 DEF InOrder
  <1>6. link[p].last = IF taken[p] = <<>> THEN "none" ELSE NumberOf(p, Last(taken[p]))
    BY DEF Receiving, LastKept, Giving, MainAt
  <1>7. NumberOf(p, link[p].buffer) = sent[o][n] /\ DOMAIN sent[o] = 1..n /\ sent[o][n] \in Number
    BY <1>1, <1>3, <1>5 DEF NumberOf, TypeOK
  <1>8. CASE taken[p] = <<>>
    BY <1>2, <1>6, <1>7, <1>8, LinkAssumption
  <1>9. CASE taken[p] # <<>>
    <2>1. n - 1 \in DOMAIN taken[p] /\ Last(taken[p]) = taken[p][n - 1]
      BY <1>5, <1>9, TakenIn
    <2>2. NumberOf(p, Last(taken[p])) = sent[o][n - 1]
      BY <1>5, <2>1 DEF NumberOf
    <2>3. n \in DOMAIN sent[o] \ {1}
      BY <1>3, <1>5, <1>7, <2>1, TakenIn
    <2> QED BY <1>2, <1>5, <1>6, <1>7, <1>9, <2>2, <2>3
  <1> QED BY <1>8, <1>9

\* Examining: a packet in order is never thrown away as a repetition, and an answer finds it taken.
LEMMA ExamineKeepsOrder ==
  ASSUME TypeOK, LinkInv, OrderInv, NEW p \in Phone, NEW r \in Readers(p), Examine(p, r)
  PROVE  \A q \in Phone : Copies(q)' /\ Acknowledged(q)'
  <1> DEFINE o == Other(p)
             packet == link[p].buffer
  <1>1. o \in Phone /\ o # p /\ Other(o) = p /\ \A q \in Phone : q = p \/ q = o
    BY Pair
  <1>2. Copies(p) /\ Copies(o) /\ Acknowledged(p) /\ Acknowledged(o) /\ Receiving(p)
    BY <1>1 DEF OrderInv
  <1>3. /\ Frame(p) /\ UNCHANGED <<taken, sent>> /\ MainAt(p, "idle") /\ Holds(p, r)
        /\ link'[p].buffer = packet /\ link'[p].up = link[p].up /\ net'[p] = net[p]
        /\ packet # Response => link'[p].neadSend = link[p].neadSend
        /\ packet = Response => ~link'[p].neadSend
        /\ Knows(p, r) \/ Hands(p) \/ Answers(p)
    BY ExamineActs
  <1>4. /\ link'[o] = link[o] /\ main'[o] = main[o] /\ thread'[o] = thread[o] /\ mishaps'[o] = mishaps[o]
        /\ mishaps[p] \subseteq mishaps'[p]
    BY <1>1, <1>3 DEF Frame
  <1>5. /\ Held(p) /\ ~MainAt(p, "sending") /\ ~MainAt(p, "taking") /\ ~MainAt(p, "sending")'
        /\ Knows(p, r) => net'[o] = net[o] \union {Response}
        /\ ~Knows(p, r) => net'[o] = net[o]
    BY <1>3 DEF Held, MainAt, Knows, Hands, Answers
  <1> HIDE DEF o, packet
  <1>6. /\ Held(o)' <=> Held(o)
        /\ Games(o)' \subseteq Games(o) /\ Games(p)' \subseteq Games(p)
        /\ Uncrossed(o)' <=> Uncrossed(o)
        /\ Uncrossed(p)' => Uncrossed(p)
        /\ MainAt(o, "sending")' <=> MainAt(o, "sending")
        /\ Goes(o) /\ (AnswerHeld(o)' <=> AnswerHeld(o)) /\ (Answered(p)' <=> Answered(p))
    BY <1>3, <1>4, <1>5 DEF Held, Holds, Games, Uncrossed, Goes, Answered, AnswerHeld, MainAt, Response
  <1>7. Copies(o)'
    BY <1>1, <1>2, <1>3, <1>4, <1>5, <1>6, CopiesKept
  <1>8. Copies(p)'
    BY <1>2, <1>3, <1>4, <1>5, <1>6, CopiesKept DEF o, packet
  <1>9. \A q \in Phone : \A k \in Ordinals : Reaching(q, k)' => Reaching(q, k)
    <2>1. \A k \in Ordinals : Reaching(o, k)' => Reaching(o, k)
      BY <1>1, <1>4, <1>6, ReachingFewer
    <2>2. \A k \in Ordinals : Reaching(p, k)' => Reaching(p, k)
      BY <1>3, <1>5, <1>6, ReachingFewer DEF packet
    <2> QED BY <1>1, <2>1, <2>2
  <1>10. Acknowledged(o)'
    <2>1. CASE Knows(p, r)
      <3>1. Sequential(o) /\ Orderly /\ link[o].up => FALSE
        <4> SUFFICES ASSUME Sequential(o), Orderly, link[o].up
                     PROVE  FALSE
          OBVIOUS
        <4>1. InOrder(o, p) /\ Uncrowded(p)
          BY <1>1, <1>2 DEF Acknowledged, Orderly, Uncrowded
        <4>2. ~Repetition(p, link[p].buffer)
          BY <1>2, <1>3, <4>1, NoRepetitionInOrder DEF o
        <4> QED BY <2>1, <4>2 DEF Knows
      <3>2. Sequential(o)' /\ Orderly' /\ link'[o].up => Sequential(o) /\ Orderly /\ link[o].up
        BY <1>1, <1>4 DEF Sequential, Orderly
      <3> QED BY <3>1, <3>2 DEF Acknowledged
    <2>2. CASE ~Knows(p, r)
      <3>1. Answered(o)' <=> Answered(o)
        BY <1>5, <2>2 DEF Answered
      <3> QED BY <1>1, <1>2, <1>3, <1>4, <1>6, <1>9, <3>1, AcknowledgedKept
    <2> QED BY <2>1, <2>2
  <1>11. Acknowledged(p)'
    <2>1. CASE packet # Response
      <3>1. Goes(p) /\ ~AnswerHeld(p)'
        BY <1>3, <2>1 DEF Goes, AnswerHeld
      <3> QED BY <1>1, <1>2, <1>3, <1>4, <1>5, <1>6, <1>9, <3>1, AcknowledgedKept DEF o
    <2>2. CASE packet = Response
      <3> SUFFICES ASSUME Sequential(p)', Orderly', link'[p].up
                   PROVE  InOrder(p, o)'
        BY DEF Acknowledged, o
      <3>1. Sequential(p) /\ Orderly
        BY <1>1, <1>4 DEF Sequential, Orderly
      <3>2. InOrder(p, o) /\ AnswerHeld(p)
        BY <1>2, <1>3, <1>5, <2>2, <3>1 DEF Acknowledged, o, AnswerHeld, packet
      <3>3. /\ Len(taken[o]) = Len(sent[p]) /\ Len(sent[p]) \in Nat
            /\ ~Answered(p) /\ \A k \in Ordinals : ~Reaching(o, k)
            /\ \A i \in DOMAIN taken[o] : taken[o][i].k = i
            /\ \A i \in DOMAIN sent[p] \ {1} : sent[p][i] # sent[p][i - 1]
        BY <3>2 DEF InOrder, TypeOK
      <3>4. ~AnswerHeld(p)'
        <4>1. Hands(p)
          BY <1>3, <2>2 DEF Knows, Answers, Repetition, Response, Ping, packet
        <4> QED BY <4>1 DEF Hands, AnswerHeld, MainAt
      <3>5. \A k \in Ordinals : ~Reaching(o, k)'
        BY <1>1, <1>9, <3>3
      <3> QED BY <1>3, <1>5, <1>6, <2>2, <3>3, <3>4, <3>5 DEF InOrder
    <2> QED BY <2>1, <2>2
  <1> QED BY <1>1, <1>7, <1>8, <1>10, <1>11

\* Giving it to the game: the packet moves from the buffer to the game and its answer sets out.
LEMMA TakeKeepsOrder ==
  ASSUME TypeOK, LinkInv, OrderInv, NEW p \in Phone, Take(p)
  PROVE  \A q \in Phone : Copies(q)' /\ Acknowledged(q)'
  <1> DEFINE o == Other(p)
             packet == link[p].buffer
             t == Len(taken[p])
  <1>1. o \in Phone /\ o # p /\ Other(o) = p /\ \A q \in Phone : q = p \/ q = o
    BY Pair
  <1>2. Copies(p) /\ Copies(o) /\ Acknowledged(p) /\ Acknowledged(o) /\ Receiving(p)
    BY <1>1 DEF OrderInv
  <1>3. /\ Frame(p) /\ NoBuild(p) /\ Goes(p) /\ UNCHANGED <<link, sent>>
        /\ main[p].reader \in Readers(p) /\ Holds(p, main[p].reader)
        /\ \A s \in Readers(p) : Holds(p, s)' <=> s # main[p].reader /\ Holds(p, s)
        /\ MainAt(p, "taking") /\ ~MainAt(p, "taking")' /\ net'[p] = net[p]
        /\ packet.kind # "game" => net'[o] = net[o] /\ taken'[p] = taken[p]
        /\ packet.kind = "game" =>
             /\ net'[o] = net[o] \union {Response}
             /\ \E c : c.k = packet.k /\ taken'[p] = Append(taken[p], c)
    BY TakeActs
  <1>4. /\ main'[o] = main[o] /\ thread'[o] = thread[o] /\ mishaps'[o] = mishaps[o] /\ taken'[o] = taken[o]
        /\ mishaps[p] \subseteq mishaps'[p]
    BY <1>1, <1>3 DEF Frame
  <1>5. Held(p) /\ (Uncrowded(p) => ~Held(p)')
    BY <1>2, <1>3 DEF Held, Receiving, OneHolder
  <1> HIDE DEF o, packet
  <1>6. /\ Held(o)' <=> Held(o)
        /\ Games(o)' \subseteq Games(o) /\ Games(p)' \subseteq Games(p)
        /\ Uncrossed(o)' <=> Uncrossed(o)
        /\ Uncrossed(p)' => Uncrossed(p)
        /\ Uncrowded(p)' => Uncrowded(p)
        /\ MainAt(o, "sending")' <=> MainAt(o, "sending")
        /\ MainAt(p, "sending")' => MainAt(p, "sending")
        /\ Goes(o) /\ (AnswerHeld(o)' <=> AnswerHeld(o)) /\ (Answered(p)' <=> Answered(p))
    BY <1>3, <1>4 DEF Held, Holds, Games, Uncrossed, Uncrowded, Goes, Answered, AnswerHeld, MainAt, Response, NoBuild
  <1>7. Copies(o)'
    BY <1>1, <1>2, <1>3, <1>4, <1>6, CopiesKept
  <1>8. CASE ~Uncrowded(p)'
    BY <1>1, <1>7, <1>8 DEF Copies, Acknowledged, Orderly, Uncrowded
  <1>9. CASE Uncrowded(p)'
    <2>1. ~Held(p)' /\ Uncrowded(p)
      BY <1>5, <1>6, <1>9
    <2>2. \A k \in Ordinals : Reaching(p, k)' => Reaching(p, k)
      BY <1>3, <1>6, <2>1, ReachingFewer
    <2>3. \A k \in Ordinals : Reaching(o, k)' => Reaching(o, k)
      BY <1>1, <1>3, <1>6, ReachingFewer
    <2>4. Acknowledged(p)'
      <3>1. ~AnswerHeld(p)'
        BY <2>1 DEF AnswerHeld
      <3> QED BY <1>1, <1>2, <1>3, <1>4, <1>6, <2>3, <3>1, AcknowledgedKept DEF o
    <2>5. CASE packet.kind # "game"
      <3>1. Copies(p)'
        BY <1>2, <1>3, <1>4, <1>6, <2>1, <2>5, CopiesKept DEF o
      <3>2. Answered(o)' <=> Answered(o)
        BY <1>3, <2>5 DEF Answered
      <3>3. Acknowledged(o)'
        BY <1>1, <1>2, <1>3, <1>4, <1>6, <2>2, <2>5, <3>2, AcknowledgedKept
      <3> QED BY <1>1, <1>7, <2>4, <3>1, <3>3
    <2>6. CASE packet.kind = "game"
      <3>1. PICK c : c.k = packet.k /\ taken'[p] = Append(taken[p], c)
        BY <1>3, <2>6
      <3>2. /\ Len(taken'[p]) = t + 1 /\ DOMAIN taken'[p] = 1..(t + 1) /\ taken'[p][t + 1] = c
            /\ \A i \in DOMAIN taken[p] : taken'[p][i] = taken[p][i]
            /\ DOMAIN taken[p] = 1..t /\ t \in Nat
        BY <3>1, TakenIn
      <3> HIDE DEF t
      <3>3. c.k \in Nat /\ c.k \in Ordinals /\ InBuffer(p, c.k) /\ Reaching(p, c.k)
        <4>1. packet.k \in Nat /\ packet.k \in Ordinals
          BY <1>1, <2>6, BufferSent, SentOrdinals DEF TypeOK, Side, Packet, packet, o
        <4> QED BY <1>5, <2>6, <3>1, <4>1 DEF InBuffer, Reaching, packet
      <3>4. \A k \in Ordinals : /\ OnNet(p, k)' <=> OnNet(p, k)
                                /\ ~InBuffer(p, k)' /\ (Unsent(o, k)' <=> Unsent(o, k))
                                /\ WithGame(p, k)' => WithGame(p, k) \/ k = c.k
        <4>1. \A i \in DOMAIN taken'[p] : i \in DOMAIN taken[p] \/ i = t + 1
          BY <3>2
        <4> QED BY <1>3, <1>4, <2>1, <3>2, <4>1 DEF OnNet, InBuffer, WithGame, Unsent, MainAt
      <3>5. Copies(p)'
        <4> SUFFICES ASSUME Uncrossed(o)'
                     PROVE  OnePlace(p)'
          BY DEF Copies, o
        <4>1. OnePlace(p)
          BY <1>2, <1>6, <2>1 DEF Copies, o
        <4>2. ~WithGame(p, c.k) /\ ~OnNet(p, c.k) /\ ~Unsent(o, c.k)
          BY <3>3, <4>1 DEF OnePlace, o
        <4>3. \A i \in DOMAIN taken[p] : taken[p][i].k # c.k
          BY <4>2 DEF WithGame
        <4>4. \A i, j \in DOMAIN taken'[p] : taken'[p][i].k = taken'[p][j].k => i = j
          <5> SUFFICES ASSUME NEW i \in DOMAIN taken'[p], NEW j \in DOMAIN taken'[p],
                              taken'[p][i].k = taken'[p][j].k
                       PROVE  i = j
            OBVIOUS
          <5>1. (i \in DOMAIN taken[p] \/ i = t + 1) /\ (j \in DOMAIN taken[p] \/ j = t + 1)
            BY <3>2
          <5> QED BY <3>2, <4>1, <4>3, <5>1 DEF OnePlace
        <4>5. \A a, b \in net'[p] : a.kind = "game" /\ b.kind = "game" /\ a.k = b.k => a = b
          BY <1>3, <4>1 DEF OnePlace
        <4>6. \A k \in Ordinals : /\ OnNet(p, k)' => ~InBuffer(p, k)' /\ ~WithGame(p, k)' /\ ~Unsent(o, k)'
                                  /\ InBuffer(p, k)' => ~WithGame(p, k)' /\ ~Unsent(o, k)'
                                  /\ WithGame(p, k)' => ~Unsent(o, k)'
          BY <3>4, <4>1, <4>2 DEF OnePlace, o
        <4> QED BY <4>4, <4>5, <4>6 DEF OnePlace, o
      <3>6. Acknowledged(o)'
        <4> SUFFICES ASSUME Sequential(o)', Orderly', link'[o].up
                     PROVE  InOrder(o, p)'
          BY <1>1 DEF Acknowledged
        <4>1. Sequential(o) /\ Orderly /\ link[o].up /\ Uncrossed(o)
          BY <1>1, <1>3, <1>4 DEF Sequential, Orderly, Uncrossed
        <4>2. InOrder(o, p) /\ OnePlace(p)
          BY <1>1, <1>2, <2>1, <4>1 DEF Acknowledged, Copies, o
        <4>3. /\ c.k = Len(sent[o]) /\ t = Len(sent[o]) - 1 /\ link[o].neadSend
              /\ ~AnswerHeld(o) /\ ~MainAt(o, "sending")
              /\ \A i \in DOMAIN taken[p] : taken[p][i].k = i
              /\ \A i \in DOMAIN sent[o] \ {1} : sent[o][i] # sent[o][i - 1]
              /\ \A k \in Ordinals : Reaching(p, k) => k = c.k
          BY <3>3, <4>2 DEF InOrder, t
        <4>4. ~OnNet(p, c.k)
          BY <3>3, <4>2 DEF OnePlace
        <4>5. \A k \in Ordinals : ~Reaching(p, k)'
          BY <3>4, <4>3, <4>4 DEF Reaching
        <4>6. \A i \in DOMAIN taken'[p] : taken'[p][i].k = i
          <5>1. \A i \in DOMAIN taken'[p] : i \in DOMAIN taken[p] \/ i = t + 1
            BY <3>2
          <5>2. c.k = t + 1
            BY <3>2, <3>3, <4>3
          <5> QED BY <3>2, <4>3, <5>1, <5>2
        <4>7. Len(taken'[p]) = Len(sent'[o]) /\ Len(sent'[o]) = Len(sent[o])
          BY <1>3, <3>2, <3>3, <4>3
        <4> QED BY <1>3, <1>6, <4>3, <4>5, <4>6, <4>7 DEF InOrder
      <3> QED BY <1>1, <1>7, <2>4, <3>5, <3>6
    <2> QED BY <2>5, <2>6
  <1> QED BY <1>8, <1>9

-----------------------------------------------------------------------------
\* The receiving phones, whoever moves.
LEMMA ReceivingHolds ==
  ASSUME TypeOK, LinkInv, OrderInv, NEW p \in Phone,
         \/ Send(p) \/ MainStep(p) \/ BuildPing(p) \/ SendPing(p)
         \/ \E r \in Readers(p) : Reader(p, r)
         \/ \E r \in Repeaters(p) : Repeater(p, r) \/ Repeat(p, r)
  PROVE  \A q \in Phone : Receiving(q)' /\ HiddenFrom(q)'
  <1> DEFINE o == Other(p)
  <1>1. o \in Phone /\ o # p /\ Other(o) = p /\ \A q \in Phone : q = p \/ q = o
    BY Pair
  <1>2. Receiving(p) /\ Receiving(o) /\ HiddenFrom(p) /\ HiddenFrom(o)
    BY <1>1, HiddenParts DEF OrderInv
  <1>3. Frame(p) /\ Grows(p)
    <2>1. ASSUME NEW r \in Readers(p), Reader(p, r)
          PROVE  Frame(p) /\ sent'[p] = sent[p]
      BY <2>1, ReadActs, NothingToReadActs, AgainActs, ExamineActs DEF Reader, NoBuild
    <2>2. ASSUME NEW r \in Repeaters(p), Repeater(p, r) \/ Repeat(p, r)
          PROVE  Frame(p) /\ sent'[p] = sent[p]
      BY <2>2, RepeaterActs, RepeatActs DEF NoBuild
    <2>3. MainStep(p) \/ SendPing(p) \/ BuildPing(p) => Frame(p) /\ sent'[p] = sent[p]
      BY SendCopyActs, PostActs, TakeActs, AnswerPingActs, SendPingActs, BuildPingActs DEF MainStep, NoBuild
    <2>4. Send(p) => Frame(p) /\ Grows(p)
      BY SendActs DEF Grows
    <2> QED BY <2>1, <2>2, <2>3, <2>4 DEF Grows
  <1>4. /\ sent'[o] = sent[o] /\ mishaps[p] \subseteq mishaps'[p] /\ mishaps[o] \subseteq mishaps'[o]
        /\ Grows(o) /\ Same(o)
    BY <1>1, <1>3 DEF Frame, Grows, Same, Holds, MainAt
  <1>5. Receiving(o)' /\ HiddenFrom(o)'
    BY <1>1, <1>2, <1>3, <1>4, ReceivingSame
  <1>6. CASE Same(p)
    BY <1>1, <1>2, <1>4, <1>5, <1>6, ReceivingSame
  <1>7. CASE "crowded" \in mishaps'[p] /\ taken'[p] = taken[p]
    BY <1>1, <1>2, <1>4, <1>5, <1>7, ReceivingCrowded
  <1>8. ASSUME NEW r \in Readers(p), Reader(p, r)
        PROVE  Receiving(p)' /\ HiddenFrom(p)'
    BY <1>1, <1>2, <1>5, <1>6, <1>7, <1>8, NothingToReadActs, AgainActs, ReceivingRead, ReceivingExamine DEF Reader
  <1>9. CASE Take(p)
    BY <1>1, <1>2, <1>5, <1>9, ReceivingTake
  <1>10. Send(p) \/ SendCopy(p) \/ Post(p) \/ AnswerPing(p) \/ BuildPing(p) \/ SendPing(p) => Same(p)
    BY SendActs, SendCopyActs, PostActs, AnswerPingActs, BuildPingActs, SendPingActs
  <1>11. \A r \in Repeaters(p) : Repeater(p, r) \/ Repeat(p, r) => Same(p)
    BY RepeaterActs, RepeatActs
  <1> QED BY <1>1, <1>5, <1>6, <1>8, <1>9, <1>10, <1>11 DEF MainStep

\* Every step keeps each packet in one place, and the packets in order.
LEMMA OrderHolds ==
  ASSUME TypeOK, LinkInv, OrderInv, NEW p \in Phone,
         \/ Send(p) \/ MainStep(p) \/ BuildPing(p) \/ SendPing(p)
         \/ \E r \in Readers(p) : Reader(p, r)
         \/ \E r \in Repeaters(p) : Repeater(p, r) \/ Repeat(p, r)
  PROVE  \A q \in Phone : Copies(q)' /\ Acknowledged(q)'
  <1>1. CASE \/ Post(p) \/ AnswerPing(p) \/ BuildPing(p) \/ SendPing(p)
             \/ \E r \in Readers(p) : NothingToRead(p, r) \/ Again(p, r)
             \/ \E r \in Repeaters(p) : Repeater(p, r) \/ Repeat(p, r)
    BY <1>1, HushedSteps, QuietKeeps
  <1> QED BY <1>1, SendKeepsOrder, SendCopyKeepsOrder, TakeKeepsOrder, ReadKeepsOrder, ExamineKeepsOrder
          DEF MainStep, Reader

\* Nothing was sent at first.
LEMMA OrderInit ==
  ASSUME Init
  PROVE  OrderInv
  <1>1. \A p \in Phone : Other(p) \in Phone
    BY Pair
  <1>2. /\ \A p \in Phone : /\ taken[p] = <<>> /\ sent[p] = <<>> /\ net[p] = {} /\ mishaps[p] = {}
                            /\ main[p].at = "idle" /\ link[p].header = 0 /\ link[p].buffer = Ping
                            /\ link[p].last = "none" /\ link[p].neadSend = FALSE
                            /\ \A r \in Readers(p) : thread[p][r].at \in {"read", "none"}
    BY DEF Init
  <1>3. RepetitionHidden
    BY <1>2 DEF RepetitionHidden
  <1>4. ASSUME NEW p \in Phone
        PROVE  ~Held(p) /\ ~Giving(p) /\ \A place \in {"taking", "sending", "answering"} : ~MainAt(p, place)
    BY <1>2 DEF Held, Holds, Handed, Giving, MainAt
  <1> SUFFICES ASSUME NEW p \in Phone
               PROVE  Receiving(p) /\ Building(p) /\ Copies(p) /\ Acknowledged(p)
    BY <1>3 DEF OrderInv
  <1>5. Receiving(p)
    BY <1>2, <1>4 DEF Receiving, TakenWasSent, OneHolder, LastKept, Held
  <1>6. Building(p)
    BY <1>2, <1>4, Threads DEF Building, BuildsPing, PingHeader
  <1>7. ASSUME NEW q \in Phone, NEW k
        PROVE  ~OnNet(q, k) /\ ~InBuffer(q, k) /\ ~WithGame(q, k) /\ ~Unsent(q, k) /\ ~Reaching(q, k)
    BY <1>2, <1>4 DEF OnNet, InBuffer, WithGame, Unsent, Reaching
  <1>8. Copies(p)
    BY <1>1, <1>2, <1>7 DEF Copies, OnePlace
  <1>9. Acknowledged(p)
    <2>1. Len(sent[p]) = 0 /\ Len(taken[Other(p)]) = 0
      BY <1>1, <1>2
    <2>2. ~Answered(p) /\ ~AnswerHeld(p)
      BY <1>2, <1>4 DEF Answered, AnswerHeld
    <2> QED BY <1>1, <1>2, <1>4, <1>7, <2>1, <2>2 DEF Acknowledged, InOrder
  <1> QED BY <1>5, <1>6, <1>8, <1>9

\* Every step of the link keeps OrderInv.
LEMMA OrderStep ==
  ASSUME TypeOK, LinkInv, OrderInv, [Next]_vars
  PROVE  OrderInv'
  <1>1. CASE UNCHANGED vars
    <2> USE <1>1 DEF vars
    <2>1. RepetitionHidden'
      BY DEF OrderInv, RepetitionHidden, Giving, MainAt, Uncrowded, Orderly, NumberOf, Held, Holds
    <2> SUFFICES ASSUME NEW q \in Phone PROVE (Receiving(q) /\ Building(q) /\ Copies(q) /\ Acknowledged(q))'
      BY <2>1 DEF OrderInv
    <2>2. Receiving(q)'
      BY DEF OrderInv, Receiving, TakenWasSent, OneHolder, LastKept, Giving, MainAt, NumberOf, Held, Holds, Uncrowded, Uncrossed, Sequential, Orderly
    <2>3. Building(q)'
      BY DEF OrderInv, Building, BuildsPing, MainAt, Held, Holds, Uncrowded, Uncrossed, Sequential, Orderly
    <2>4. Copies(q)'
      BY DEF OrderInv, Copies, OnePlace, OnNet, InBuffer, WithGame, Unsent, Reaching, Giving, MainAt, Held, Holds, Uncrowded, Uncrossed, Sequential, Orderly, NumberOf
    <2>5. Acknowledged(q)'
      BY DEF OrderInv, Acknowledged, InOrder, Reaching, Answered, AnswerHeld, OnNet, InBuffer, WithGame, Unsent, Giving, MainAt, Held, Holds, Uncrowded, Uncrossed, Sequential, Orderly, NumberOf
    <2> QED BY <2>2, <2>3, <2>4, <2>5
  <1>2. CASE Next
    <2>1. PICK p \in Phone :
            \/ Send(p) \/ MainStep(p) \/ BuildPing(p) \/ SendPing(p)
            \/ \E r \in Readers(p) : Reader(p, r)
            \/ \E r \in Repeaters(p) : Repeater(p, r) \/ Repeat(p, r)
      BY <1>2 DEF Next
    <2>2. \A q \in Phone : Receiving(q)' /\ HiddenFrom(q)'
      BY <2>1, ReceivingHolds
    <2>3. \A q \in Phone : Building(q)'
      BY <2>1, BuildingHolds
    <2>4. \A q \in Phone : Copies(q)' /\ Acknowledged(q)'
      BY <2>1, OrderHolds
    <2>5. RepetitionHidden'
      BY <2>2 DEF RepetitionHidden, HiddenFrom, Uncrowded
    <2> QED BY <2>2, <2>3, <2>4, <2>5 DEF OrderInv
  <1> QED BY <1>1, <1>2

(***************************************************************************)
(* The slots, the copies, the receive buffers and the games' histories fit *)
(* together.                                                               *)
(***************************************************************************)
THEOREM OrderInvariant == Spec => []OrderInv
  <1>1. Init => TypeOK /\ LinkInv /\ OrderInv
    BY InitHolds, OrderInit
  <1>2. TypeOK /\ LinkInv /\ OrderInv /\ [Next]_vars => (TypeOK /\ LinkInv /\ OrderInv)'
    BY StepTypes, StepKeeps, OrderStep
  <1> QED
    BY <1>1, <1>2, PTL DEF Spec

(***************************************************************************)
(* A packet reaches receiveData once, unless its copies were repeated or   *)
(* the buffers crossed; and a repetition that does reach receivePacket is  *)
(* not given to the game a second time in a row.                           *)
(***************************************************************************)
THEOREM NotTwiceHolds == Spec => []NotTwice
  <1>1. OrderInv => NotTwice
    <2> SUFFICES ASSUME OrderInv
                 PROVE  TakenOnce
      BY DEF NotTwice, OrderInv
    <2>1. \A p \in Phone : Copies(p)
      BY DEF OrderInv
    <2> QED BY <2>1 DEF TakenOnce, Copies, OnePlace, Uncrossed, Uncrowded
  <1> QED
    BY <1>1, OrderInvariant, PTL

(***************************************************************************)
(* When the answer ends the repetition (neadSend) of packets that were     *)
(* sent one after the other, the last one has reached the other game.      *)
(***************************************************************************)
THEOREM AckedMeansTakenHolds == Spec => []AckedMeansTaken
  <1>1. TypeOK /\ OrderInv => AckedMeansTaken
    <2> SUFFICES ASSUME TypeOK, OrderInv, NEW p \in Phone,
                        Sequential(p), Orderly, link[p].up, ~link[p].neadSend, sent[p] # <<>>
                 PROVE  \E i \in DOMAIN taken[Other(p)] : taken[Other(p)][i].k = Len(sent[p])
      BY DEF AckedMeansTaken
    <2> DEFINE o == Other(p)
    <2>1. o \in Phone /\ InOrder(p, o)
      BY Pair DEF OrderInv, Acknowledged
    <2>2. Len(sent[p]) \in Nat \ {0} /\ DOMAIN taken[o] = 1..Len(taken[o])
      BY <2>1 DEF TypeOK
    <2> HIDE DEF o
    <2>3. Len(taken[o]) = Len(sent[p]) /\ \A i \in DOMAIN taken[o] : taken[o][i].k = i
      BY <2>1 DEF InOrder
    <2>4. Len(sent[p]) \in DOMAIN taken[o] /\ taken[o][Len(sent[p])].k = Len(sent[p])
      BY <2>2, <2>3
    <2> QED BY <2>4 DEF o
  <1> QED
    BY <1>1, OrderInvariant, LinkTypes, PTL

(***************************************************************************)
(* Together: every copy under way is of a packet that was sent, and unless *)
(* threads cross it is in one place at a time and taken in order.          *)
(***************************************************************************)
THEOREM LinkHoldsAlways == Spec => []LinkHolds
  <1>1. LinkInv /\ OrderInv => LinkHolds
    BY DEF LinkHolds
  <1> QED BY <1>1, CopiesStayHonest, OrderInvariant, PTL
=============================================================================
