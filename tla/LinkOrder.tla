------------------------------- MODULE LinkOrder -------------------------------
(***************************************************************************)
(* Why a packet reaches the game once, in order, and before the repetition *)
(* ends, as long as the threads do not cross: what the slots, the copies   *)
(* under way, the receive buffer and the game's history have to do with    *)
(* each other.                                                             *)
(***************************************************************************)
EXTENDS PacketLink

\* Reader r of phone p has put a packet into the receive buffer and waits for the main thread.
Holds(p, r) == thread[p][r].at \in Handed
Held(p) == \E r \in Readers(p) : Holds(p, r)

\* The main thread has examined the buffer and found a packet for the game.
Giving(p) == MainAt(p, "taking") /\ link[p].buffer.kind = "game"

Uncrowded(p) == "crowded" \notin mishaps[p]
Uncrossed(p) == mishaps[p] \intersect {"repeated", "crossed"} = {}

-----------------------------------------------------------------------------
\* The receiver: one reader at a time has the buffer, and the number kept to recognise a
\* repetition is that of the packet the game was given last, or is being given.
OneHolder(p) == \A r, s \in Readers(p) : Holds(p, r) /\ Holds(p, s) => r = s

LastKept(p) ==
  IF Giving(p)
  THEN /\ link[p].last = NumberOf(p, link[p].buffer)
       /\ taken[p] # <<>> /\ NumberOf(p, Last(taken[p])) = link[p].last => link[p].last = AccelState
  ELSE link[p].last = IF taken[p] = <<>> THEN "none" ELSE NumberOf(p, Last(taken[p]))

TakenWasSent(p) == \A i \in DOMAIN taken[p] : taken[p][i].k \in 1..Len(sent[Other(p)])

Receiving(p) == TakenWasSent(p) /\ (Uncrowded(p) => OneHolder(p) /\ LastKept(p))

-----------------------------------------------------------------------------
\* The sender: what is in the static buffer between building and sendto.
Building(p) ==
  Uncrossed(p) =>
    /\ \A r \in Repeaters(p) : thread[p][r].at # "send"
    /\ BuildsPing(p) => link[p].header = PingHeader
    /\ MainAt(p, "sending") => link[p].header = Len(sent[p])

\* A packet is named by the how manieth it is of its sender's.
Ordinals == UNION {1..MaxSends[p] : p \in Phone}

\* Where a packet to phone p is: on the net, in the receive buffer, with the game.
OnNet(p, k) == \E c \in net[p] : c.kind = "game" /\ c.k = k
InBuffer(p, k) == Held(p) /\ link[p].buffer.kind = "game" /\ link[p].buffer.k = k
WithGame(p, k) == \E i \in DOMAIN taken[p] : taken[p][i].k = k
Unsent(p, k) == MainAt(p, "sending") /\ k = Len(sent[p])

\* It is at one of these at a time, and there once.
OnePlace(p) ==
  /\ \A c, d \in net[p] : c.kind = "game" /\ d.kind = "game" /\ c.k = d.k => c = d
  /\ \A i, j \in DOMAIN taken[p] : taken[p][i].k = taken[p][j].k => i = j
  /\ \A k \in Ordinals :
       /\ OnNet(p, k) => ~InBuffer(p, k) /\ ~WithGame(p, k) /\ ~Unsent(Other(p), k)
       /\ InBuffer(p, k) => ~WithGame(p, k) /\ ~Unsent(Other(p), k)
       /\ WithGame(p, k) => ~Unsent(Other(p), k)

Copies(p) == Uncrossed(Other(p)) /\ Uncrowded(p) => OnePlace(p)

-----------------------------------------------------------------------------
\* The acknowledgement of phone p's last packet: under way, or in its buffer and not examined.
Answered(p) == Response \in net[p]
AnswerHeld(p) == Held(p) /\ link[p].buffer = Response /\ ~MainAt(p, "taking")
Reaching(p, k) == OnNet(p, k) \/ InBuffer(p, k)

\* Phone p has sent one after the other: every packet is with the game of phone o but
\* perhaps the last one, and while that is so neadSend stays.
InOrder(p, o) ==
  LET n == Len(sent[p])
      t == Len(taken[o])
  IN
  /\ \A i \in DOMAIN taken[o] : taken[o][i].k = i
  /\ \A i \in DOMAIN sent[p] \ {1} : sent[p][i] # sent[p][i - 1]
  /\ t = n \/ t = n - 1
  /\ ~link[p].neadSend => t = n
  /\ MainAt(p, "sending") \/ (\E k \in Ordinals : Reaching(o, k))
       => t = n - 1 /\ link[p].neadSend /\ ~Answered(p) /\ ~AnswerHeld(p)
  /\ \A k \in Ordinals : Reaching(o, k) => k = n /\ ~MainAt(p, "sending")
  /\ Answered(p) \/ AnswerHeld(p) => t = n /\ link[p].neadSend
  /\ ~(Answered(p) /\ AnswerHeld(p))

Acknowledged(p) == Sequential(p) /\ Orderly /\ link[p].up => InOrder(p, Other(p))

-----------------------------------------------------------------------------
OrderInv ==
  /\ RepetitionHidden
  /\ \A p \in Phone : Receiving(p) /\ Building(p) /\ Copies(p) /\ Acknowledged(p)

(***************************************************************************)
(* A packet under way is a copy of one that was sent; and unless threads   *)
(* cross it is in one place at a time, and taken in order.                 *)
(***************************************************************************)
LinkHolds == LinkInv /\ OrderInv
=============================================================================
