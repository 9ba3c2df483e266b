----------------------------- MODULE MCPacketLink -----------------------------
(***************************************************************************)
(* An instance of PacketLink for TLC: the guest sends twice and the host   *)
(* once, with the crossings that are explored.                             *)
(***************************************************************************)
EXTENDS LinkOrder
GuestTwice == [p \in Phone |-> IF p = Guest THEN 2 ELSE 1]

\* Phone p is not busy with a ping, and no packet met one.
NoPing(p) ==
  /\ thread[p][Loop].at # "ping"
  /\ link[p].buffer.kind = "ping" =>
       ~MainAt(p, "taking") /\ ~MainAt(p, "answering") /\ \A r \in Readers(p) : thread[p][r].at \notin Handed
Quiet(p) ==
  /\ NoPing(p) /\ "crossed" \notin mishaps[p]
  /\ link[p].buffer.kind = "ping" => taken[p] = <<>>
Plain(p) == \A i \in DOMAIN sent[p] : sent[p][i] = AccelState

\* One packet each way; two of the guest; or one of the guest that meets pings.
Explored ==
  \/ Len(sent[Guest]) <= 1 /\ Plain(Host) /\ Quiet(Host) /\ Quiet(Guest)
  \/ sent[Host] = <<>> /\ Plain(Guest) /\ Quiet(Host) /\ Quiet(Guest)
  \/ sent[Host] = <<>> /\ Len(sent[Guest]) <= 1 /\ Plain(Guest) /\ \E p \in Phone : NoPing(p)
=============================================================================
