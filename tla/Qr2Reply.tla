------------------------------- MODULE Qr2Reply -------------------------------
(***************************************************************************)
(* The reply to a split query (qr_build_split_query_reply of qr2.c): the   *)
(* keys of the server, of each player and of each team in packets of a     *)
(* limited size.  A value that is cut by the end of a packet is sent as it *)
(* is, and whole in the next; the last packet carries the final flag.  The *)
(* browser (SBServerParseQR2FullKeysSplit, ParseSingleQR2Reply) keeps of   *)
(* each key the value that came last and a bit for each packet that came,  *)
(* in whatever order; it takes the reply for complete when every bit is    *)
(* set.                                                                    *)
(*                                                                         *)
(* Sizes are in units; the header, "splitnum" and the packet number are    *)
(* left out of the room.  An entry is <<type, key, sub>>, sub being the    *)
(* player or team, and 0 for the server.                                   *)
(***************************************************************************)
EXTENDS Naturals, Sequences, SequencesExt

CONSTANTS
  Room,        \* what is left of MAX_DATA_SIZE in an empty packet
  TypeRoom,    \* a type is begun with at least this much room (100)
  Keys,        \* number of keys of each type
  Subs,        \* number of players and of teams
  MaxSize,     \* bound on the size of a name or value
  SplitMax     \* QR2_SPLITNUM_MAX

ReplyAssumption ==
  /\ {Room, TypeRoom, Keys, Subs, MaxSize, SplitMax} \subseteq Nat \ {0}
  /\ TypeRoom >= 2

Type == 0 .. 2                    \* key_server, key_player, key_team
Server == 0

VARIABLES
  size,       \* the sizes of the value of each entry, chosen at first
  type, key, sub,   \* progress: mCurKeyType, mCurKeyIndex, mCurSubIndex
  pc,         \* where the builder is: type, key, sub, done
  free,       \* AVAILABLE_BUFFER_LEN
  packet,     \* the whole entries in the packet
  sent,       \* the packets sent: whole entries, the one that was cut, the final flag
  came,       \* the packets that came: splitResponseBitmap
  stored,     \* what the browser has of each entry
  overtaken   \* history: a packet that ends in a cut value came after a later one

progress == <<type, key, sub>>
builder == <<size, progress, pc, free, packet, sent>>
browser == <<came, stored, overtaken>>
vars == <<builder, browser>>

NumKeys(t) == Keys
NumSubs(t) == IF t = Server THEN 1 ELSE Subs
NameSize == 1
Entry == {e \in Type \X (1 .. Keys) \X (0 .. Subs) : e[3] < NumSubs(e[1])}

Init ==
  /\ size \in [Entry -> 1 .. MaxSize]
  /\ type = Server /\ key = 1 /\ sub = 0
  /\ pc = "type" /\ free = Room /\ packet = <<>> /\ sent = <<>>
  /\ came = {} /\ stored = [e \in Entry |-> "nothing"] /\ overtaken = FALSE

Least(a, b) == IF a < b THEN a ELSE b

\* qr2_buffer_add: what does not fit is cut.
Takes(n) == free' = free - Least(n, free)

\* The packet goes out; more than SplitMax + 1 are not built (qr2.c:1174-1180).
Posts(entries, cut, final) ==
  /\ sent' = Append(sent, [entries |-> entries, cut |-> cut, final |-> final])
  /\ packet' = <<>>
  /\ pc' = IF final \/ Len(sent) + 1 > SplitMax THEN "done" ELSE "type"
  /\ free' = Room
Sends(final) == Posts(packet, {}, final)

\* The type byte, with room for more; or the packet as it is.
StartType ==
  /\ pc = "type" /\ type \in Type
  /\ IF free < TypeRoom
     THEN Sends(FALSE)
     ELSE Takes(1) /\ pc' = "key" /\ UNCHANGED <<packet, sent>>
  /\ UNCHANGED <<size, progress, browser>>

\* Seeded fault: a value that was cut is taken for sent.
CutIsSent(e) ==
  /\ Takes(size[e]) /\ packet' = IF size[e] <= free THEN Append(packet, e) ELSE packet
  /\ sub' = sub + 1 /\ UNCHANGED <<pc, sent>>

\* What is left of a value that does not fit: its beginning and a NUL.  The NUL alone
\* is an empty value of the server, and no value of a player or team.
Cut(e) == IF size[e] > free /\ free > (IF e[1] = Server THEN 0 ELSE 1) THEN {e} ELSE {}

\* One value.  When the packet is full after it, the value may have been cut, and
\* the packet is sent; the value comes again in the next.
Value(e) ==
  IF size[e] >= free
  THEN /\ Posts(IF size[e] = free THEN Append(packet, e) ELSE packet, Cut(e), FALSE)
       /\ sub' = sub
  ELSE /\ Takes(size[e]) /\ packet' = Append(packet, e)
       /\ sub' = sub + 1 /\ UNCHANGED <<pc, sent>>

\* A key: its name and, of a player or team, the index it goes on from.
StartKey ==
  /\ pc = "key" /\ key <= NumKeys(type)
  /\ IF free <= NameSize
     THEN Sends(FALSE)
     ELSE /\ Takes(IF type = Server THEN NameSize ELSE NameSize + 1)
          /\ pc' = "sub" /\ UNCHANGED <<packet, sent>>
  /\ UNCHANGED <<size, progress, browser>>

AddValue ==
  /\ pc = "sub" /\ sub < NumSubs(type)
  /\ Value(<<type, key, sub>>)
  /\ UNCHANGED <<size, type, key, browser>>

\* After the last value: an empty string ends the list of a player or team key.
EndKey ==
  /\ pc = "sub" /\ sub = NumSubs(type)
  /\ IF type = Server THEN UNCHANGED free ELSE Takes(1)
  /\ key' = key + 1 /\ sub' = 0 /\ pc' = "key"
  /\ UNCHANGED <<size, type, packet, sent, browser>>

\* After the last key an empty string, and the next type.
EndType ==
  /\ pc = "key" /\ key > NumKeys(type)
  /\ Takes(1)
  /\ type' = type + 1 /\ key' = 1 /\ sub' = 0 /\ pc' = "type"
  /\ UNCHANGED <<size, packet, sent, browser>>

\* After the last type the final packet.
Finish ==
  /\ pc = "type" /\ type \notin Type
  /\ Sends(TRUE)
  /\ UNCHANGED <<size, progress, browser>>

\* The bits of a packet.  The final one stands for all that could come after it.
Bits(i) == IF sent[i].final THEN i - 1 .. SplitMax ELSE {i - 1}
FullKeys == UNION {Bits(i) : i \in came} = 0 .. SplitMax

\* An empty value of a player or team ends the list of its key for the browser, which
\* takes what follows it for other keys.
Ends(e) == e[1] # Server /\ size[e] = 1
Read(es) == {es[n] : n \in {m \in DOMAIN es : \A l \in 1 .. m : ~Ends(es[l])}}

\* A packet comes, for the first time or again: of each key the value that came last
\* is kept.  No packet is taken for the reply any more once it is complete.  (All are
\* sent in one call; what comes before its end could as well come after it.)
Receive(i) ==
  LET es == sent[i].entries
      cut == IF \E n \in DOMAIN es : Ends(es[n]) THEN {} ELSE sent[i].cut
  IN  /\ pc = "done" /\ ~FullKeys
      /\ came' = came \union {i}
      /\ stored' = [e \in Entry |-> IF e \in cut THEN "cut"
                                   ELSE IF e \in Read(es) THEN "whole" ELSE stored[e]]
      /\ overtaken' = (overtaken \/ (sent[i].cut # {} /\ \E j \in came : j > i))
      /\ UNCHANGED builder

Builds == StartType \/ StartKey \/ AddValue \/ EndKey \/ EndType \/ Finish
Next == Builds \/ \E i \in DOMAIN sent : Receive(i)
-----------------------------------------------------------------------------
TypeOK ==
  /\ type \in 0 .. 3 /\ key \in 1 .. Keys + 1 /\ sub \in 0 .. Subs
  /\ free \in 0 .. Room
  /\ pc \in {"type", "key", "sub", "done"}
  /\ came \subseteq DOMAIN sent /\ overtaken \in BOOLEAN
  /\ stored \in [Entry -> {"nothing", "cut", "whole"}]

\* Only the last packet is final, and there are at most SplitMax + 1.
OneFinal ==
  /\ \A i \in DOMAIN sent : sent[i].final => i = Len(sent)
  /\ Len(sent) <= SplitMax + 1

\* Whatever packets were lost, doubled or late: of a reply that was sent to its end
\* and is taken for complete the browser has every entry, whole; unless a packet that
\* ends in a cut value came after one that was sent after it, or a player or team
\* has an empty value.
CompleteMeansWhole ==
  FullKeys /\ (\E i \in came : sent[i].final) /\ ~overtaken /\ (\A e \in Entry : ~Ends(e))
    => \A e \in Entry : stored[e] = "whole"

=============================================================================
