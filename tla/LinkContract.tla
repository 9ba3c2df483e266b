----------------------------- MODULE LinkContract -----------------------------
(***************************************************************************)
(* What the link between the phones promises the game above it, and all it *)
(* promises: a packet that arrives has the number of one that was sent, and*)
(* the contents the sender's gameStat had when it was sent or at some time *)
(* since.  Packets may be lost, repeated and overtaken.                    *)
(***************************************************************************)
EXTENDS Phones, Naturals, Sequences

CONSTANT Number    \* the packets' numbers, packetCodes

VARIABLES
  sent,    \* the numbers phone p has sent, in order
  taken    \* the packets receiveData of phone p was given, in order

linkVars == <<sent, taken>>

LinkInit ==
  /\ sent = [p \in Phone |-> <<>>]
  /\ taken = [p \in Phone |-> <<>>]

\* The k-th packet sent, with the contents of the time the stat-th was sent.
Copies(p) == {c \in [k : 1..Len(sent[p]), stat : 1..Len(sent[p])] : c.k <= c.stat}

SendNumber(p) == \E n \in Number : sent' = [sent EXCEPT ![p] = Append(@, n)] /\ UNCHANGED taken

TakeCopy(p) ==
  \E c \in Copies(Other(p)) : taken' = [taken EXCEPT ![p] = Append(@, c)] /\ UNCHANGED sent

LinkNext == \E p \in Phone : SendNumber(p) \/ TakeCopy(p)

LinkSpec == LinkInit /\ [][LinkNext]_linkVars
=============================================================================
