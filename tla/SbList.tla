------------------------------- MODULE SbList -------------------------------
(***************************************************************************)
(* The list from the master server (sb_serverlist.c): one stream of bytes, *)
(* read in pieces of any size into a buffer and parsed as far as it goes.  *)
(* It is a header in the clear, then, encrypted, a fixed header, the keys, *)
(* the popular values, the servers and a marker after the last, and from   *)
(* then on messages.  What is asked with NO_SERVER_LIST has none but the   *)
(* headers and the messages.                                               *)
(*                                                                         *)
(* What a byte says is left out; what an item is taken for, and how often  *)
(* its bytes are decrypted, is kept.                                       *)
(***************************************************************************)
EXTENDS Integers, Sequences

CONSTANT Streams   \* what the master server may send, and how the program reads it

Kind == {"crypt", "fixed", "keycount", "key", "valuecount", "value", "server", "marker", "message"}

\* A stream, by its layout:
\*   noList                  queryoptions has NO_SERVER_LIST
\*   keys, values, servers   how many of each it has
\*   ends                    where each item ends
\*   size                    INCOMING_BUFFER_SIZE
Stream == [noList : BOOLEAN, keys : Nat, values : Nat, servers : Nat, ends : Seq(Nat), size : Nat]

\* What the i-th item is.
KindOf(x, i) ==
  LET lastKey == 3 + x.keys
      lastValue == lastKey + 1 + x.values
      marker == lastValue + x.servers + 1
  IN CASE i = 1 -> "crypt"
       [] i = 2 -> "fixed"
       [] i > 2 /\ (x.noList \/ i > marker) -> "message"
       [] i = 3 /\ ~x.noList -> "keycount"
       [] i \in 4 .. lastKey /\ ~x.noList -> "key"
       [] i = lastKey + 1 /\ ~x.noList -> "valuecount"
       [] i \in lastKey + 2 .. lastValue /\ ~x.noList -> "value"
       [] i \in lastValue + 1 .. marker - 1 /\ ~x.noList -> "server"
       [] i = marker /\ ~x.noList -> "marker"

\* Each item has some bytes, and fits in the buffer.
IsStream(x) ==
  /\ x \in Stream
  /\ \A i, j \in DOMAIN x.ends : i < j => x.ends[i] < x.ends[j]
  /\ \A i \in DOMAIN x.ends : x.ends[i] - (IF i = 1 THEN 0 ELSE x.ends[i - 1]) \in 1 .. x.size
SbListAssumption == \A x \in Streams : IsStream(x)

VARIABLES
  stream,     \* what comes; it never changes
  state,      \* SBServerList.state: "mainlist", "connected", "disconnected"
  pstate,     \* SBServerList.pstate
  pc,         \* "recv", or "parse" inside ProcessIncomingData
  read,       \* bytes read from the socket
  parsed,     \* bytes parsed; the others read are in inbuffer
  decrypted,  \* history: how often each byte was decrypted
  expected,   \* expectedelements
  keys, values,   \* ArrayLength(keylist), numpopularvalues
  taken       \* history: what each item was taken for

counters == <<expected, keys, values>>
vars == <<stream, state, pstate, pc, read, parsed, decrypted, expected, keys, values, taken>>

End(i) == IF i = 0 THEN 0 ELSE stream.ends[i]
Total == End(Len(stream.ends))

\* SBServerListConnectAndQuery, after a disconnect.
Init ==
  /\ stream \in Streams
  /\ state = "mainlist" /\ pstate = "cryptheader" /\ pc = "recv"
  /\ read = 0 /\ parsed = 0 /\ decrypted = [b \in 1 .. Total |-> 0]
  /\ expected = -1 /\ keys = 0 /\ values = 0
  /\ taken = <<>>

-----------------------------------------------------------------------------
\* GOADecrypt, whose key moves on with each byte.
Decrypt(first, last) ==
  decrypted' = [b \in DOMAIN decrypted |-> IF b \in first .. last THEN decrypted[b] + 1 ELSE decrypted[b]]

\* Bytes come: what is new is decrypted, when the key is known.
Reads(n) ==
  /\ read' = read + n
  /\ IF state = "connected" \/ pstate # "cryptheader" THEN Decrypt(read + 1, read + n) ELSE UNCHANGED decrypted

\* ProcessIncomingData: as much as there is room for.
Recv(n) ==
  /\ pc = "recv" /\ state # "disconnected"
  /\ read + n <= Total /\ read - parsed + n <= stream.size
  /\ Reads(n)
  /\ pc' = "parse"
  /\ UNCHANGED <<stream, state, pstate, parsed, counters, taken>>

\* The socket is closed or broken, or there is no room for an item: ErrorDisconnect.
Disconnected == state' = "disconnected" /\ pc' = "recv"
Lost ==
  /\ pc = "recv" /\ state # "disconnected" /\ Disconnected
  /\ UNCHANGED <<stream, pstate, read, parsed, decrypted, counters, taken>>

\* The item that is next, when all of it is in the buffer.
Index == Len(taken) + 1
Whole == Index <= Len(stream.ends) /\ End(Index) <= read
Takes(as) == taken' = Append(taken, as) /\ parsed' = End(Index)
\* The number in the item, if it is a count.
Count ==
  CASE KindOf(stream, Index) = "keycount" -> stream.keys
    [] KindOf(stream, Index) = "valuecount" -> stream.values
    [] KindOf(stream, Index) \notin {"keycount", "valuecount"} -> 0

InList(p) == pc = "parse" /\ state = "mainlist" /\ pstate = p

CryptHeader ==
  /\ InList("cryptheader") /\ Whole
  /\ Takes("crypt") /\ pstate' = "fixedheader"
  /\ Decrypt(End(Index) + 1, read)
  /\ UNCHANGED <<stream, state, pc, read, counters>>

FixedHeader ==
  /\ InList("fixedheader") /\ Whole
  /\ Takes("fixed") /\ expected' = -1
  /\ IF stream.noList
     THEN pstate' = "finished" /\ state' = "connected"
     ELSE pstate' = "keylist" /\ UNCHANGED state
  /\ UNCHANGED <<stream, pc, read, decrypted, keys, values>>

KeyCount ==
  /\ InList("keylist") /\ expected = -1 /\ Whole
  /\ Takes("keycount") /\ expected' = Count /\ keys' = 0
  /\ UNCHANGED <<stream, state, pstate, pc, read, decrypted, values>>

Key ==
  /\ InList("keylist") /\ expected > keys /\ Whole
  /\ Takes("key") /\ keys' = keys + 1
  /\ UNCHANGED <<stream, state, pstate, pc, read, decrypted, expected, values>>

\* Seeded fault: the number of keys stays as the number of values.
KeepsCount ==
  /\ InList("keylist") /\ expected # -1 /\ expected <= keys
  /\ pstate' = "uniquevaluelist"
  /\ UNCHANGED <<stream, state, pc, read, parsed, decrypted, counters, taken>>

KeysDone ==
  /\ InList("keylist") /\ expected # -1 /\ expected <= keys
  /\ pstate' = "uniquevaluelist" /\ expected' = -1
  /\ UNCHANGED <<stream, state, pc, read, parsed, decrypted, keys, values, taken>>

ValueCount ==
  /\ InList("uniquevaluelist") /\ expected = -1 /\ Whole
  /\ Takes("valuecount") /\ expected' = Count /\ values' = 0
  /\ UNCHANGED <<stream, state, pstate, pc, read, decrypted, keys>>

Value ==
  /\ InList("uniquevaluelist") /\ expected > values /\ Whole
  /\ Takes("value") /\ values' = values + 1
  /\ UNCHANGED <<stream, state, pstate, pc, read, decrypted, expected, keys>>

ValuesDone ==
  /\ InList("uniquevaluelist") /\ expected # -1 /\ expected <= values
  /\ pstate' = "servers"
  /\ UNCHANGED <<stream, state, pc, read, parsed, decrypted, counters, taken>>

\* slc_serveradded: the program may disconnect in it, and the buffer is gone.
MayDisconnect == UNCHANGED <<stream, state, pc>> \/ Disconnected

Server ==
  /\ InList("servers") /\ Whole /\ KindOf(stream, Index) # "marker"
  /\ Takes("server") /\ MayDisconnect
  /\ UNCHANGED <<stream, pstate, read, decrypted, counters>>

\* The last server: slc_initiallistcomplete, in which the browser may disconnect.
Marker ==
  /\ InList("servers") /\ Whole /\ KindOf(stream, Index) = "marker"
  /\ Takes("marker") /\ pstate' = "finished"
  /\ \/ state' = "connected" /\ UNCHANGED pc
     \/ Disconnected
  /\ UNCHANGED <<stream, read, decrypted, counters>>

\* ProcessAdHocData, with what is left after the list too.
Message ==
  /\ pc = "parse" /\ state = "connected" /\ Whole
  /\ Takes("message") /\ MayDisconnect
  /\ UNCHANGED <<stream, pstate, read, decrypted, counters>>

Parse ==
  \/ CryptHeader \/ FixedHeader \/ KeyCount \/ Key \/ KeysDone \/ ValueCount \/ Value \/ ValuesDone
  \/ Server \/ Marker \/ Message

\* Nothing more can be parsed: what is left is moved to the front of the buffer.
NothingMore ==
  /\ pc = "parse" /\ ~Whole
  /\ ~(pstate \in {"keylist", "uniquevaluelist"} /\ expected # -1
         /\ expected <= IF pstate = "keylist" THEN keys ELSE values)

Break ==
  /\ NothingMore /\ pc' = "recv"
  /\ UNCHANGED <<stream, state, pstate, read, parsed, decrypted, counters, taken>>

Next == Parse \/ Break \/ Lost \/ \E n \in 1 .. stream.size : Recv(n)
-----------------------------------------------------------------------------
TypeOK ==
  /\ state \in {"mainlist", "connected", "disconnected"} /\ pc \in {"recv", "parse"}
  /\ parsed <= read /\ read - parsed <= stream.size

\* However the stream is cut, each item is taken for what it is, and every byte of
\* it but those of the first header was decrypted once (sb_serverlist.c:1168-1326).
TakenForWhatItIs ==
  /\ taken = [i \in 1 .. Len(taken) |-> KindOf(stream, i)]
  /\ \A b \in 1 .. read : decrypted[b] = IF b <= End(1) \/ taken = <<>> THEN 0 ELSE 1

\* When all has come, nothing is left in the buffer: what came with the end of the
\* list is not left there until more comes.
NothingLeft == read = Total /\ pc = "recv" /\ state # "disconnected" => parsed = Total
=============================================================================
