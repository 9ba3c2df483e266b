----------------------------- MODULE Gt2Sockets -----------------------------
(***************************************************************************)
(* Lifetime of a gt2 socket and its connections (gt2Main.c, gt2Socket.c,   *)
(* gt2Connection.c, gt2Callback.c).  Callbacks run inside the functions    *)
(* that call them, and the program may call back into gt2 from there: what *)
(* a function uses afterwards must still be there.  The functions' frames  *)
(* are on a stack; one step of the top frame is one action.                *)
(***************************************************************************)
EXTENDS Integers, Sequences, FiniteSets, SequencesExt

CONSTANTS
  Conn,      \* the socket's connections
  MaxDepth   \* bound on the functions that are called one from the other

None == "none"

SocketsAssumption == IsFiniteSet(Conn) /\ MaxDepth \in Nat /\ None \notin Conn

VARIABLES
  may,      \* what may happen: what the program calls in callbacks, and whether the network fails
  socket,   \* "open" or "freed"
  close,    \* a close was asked for in a callback
  error,    \* a socket error has been seen
  level,    \* the socket's callbackLevel
  bucket,   \* the connections in the socket's table, in the order of their bucket
  closed,   \* closedConnections
  freed,    \* connections whose memory is given back
  state,    \* per connection: Connecting, Connected or Closed
  clevel,   \* per connection: callbackLevel
  told,     \* per connection: times it was told that it ended
  stack,    \* frames, the running one last
  ret,      \* what the last function returned
  fault     \* "none", or what was used and is not there

vars == <<may, socket, close, error, level, bucket, closed, freed, state, clevel, told, stack, ret, fault>>
objects == <<socket, close, error, level, bucket, closed, freed, state, clevel, told>>

Calls == {"Think", "CloseHard", "CloseOther", "CloseSocket"}
Permissions == [nested : SUBSET Calls, errors : BOOLEAN]
Frame(fn, c) == [fn |-> fn, c |-> c, pc |-> "start", i |-> 0]

Init ==
  /\ may \in Permissions
  /\ socket = "open" /\ close = FALSE /\ error = FALSE /\ level = 0
  /\ bucket \in SetToSeqs(Conn)
  /\ state \in [Conn -> {"Connecting", "Connected"}]
  /\ closed = {} /\ freed = {}
  /\ clevel = [c \in Conn |-> 0] /\ told = clevel
  /\ stack = <<>> /\ ret = TRUE /\ fault = None
-----------------------------------------------------------------------------
Top == stack[Len(stack)]
Running(fn, pc) == stack # <<>> /\ Top.fn = fn /\ Top.pc = pc
Goto(pc, i) == [Top EXCEPT !.pc = pc, !.i = i]
Continue(pc, i) == stack' = Append(Front(stack), Goto(pc, i)) /\ UNCHANGED ret
Call(pc, fn, c) == stack' = Append(Append(Front(stack), Goto(pc, Top.i)), Frame(fn, c)) /\ UNCHANGED ret
Return(r) == stack' = Front(stack) /\ ret' = r

Fault(what) == fault' = what /\ stack' = <<>> /\ UNCHANGED <<objects, ret>>

\* A callback starts.
Enter(c) ==
  /\ level' = level + 1
  /\ clevel' = [d \in Conn |-> IF d = c THEN clevel[d] + 1 ELSE clevel[d]]
CallBack(pc, c) == Enter(c) /\ Call(pc, "Callback", c)

\* The table, the closed connections and the socket are given back.
Free(list) == socket' = "freed" /\ freed' = freed \union list /\ closed' = {}

InCallback(lev) == lev > 0

\* gti2CloseSocket
DoCloseSocket ==
  \/ InCallback(level) /\ close' = TRUE /\ UNCHANGED <<socket, freed, closed>>
  \/ ~InCallback(level) /\ Free(closed) /\ UNCHANGED close

CloseWaits == close /\ level = 1

\* A callback ends: gti2ReceivedCallback and the others.
ReturnFromCallback ==
  /\ Running("Callback", "start")
  /\ level' = level - 1
  /\ clevel' = [c \in Conn |-> IF c = Top.c THEN clevel[c] - 1 ELSE clevel[c]]
  /\ \/ CloseWaits /\ Free(closed) /\ Return(FALSE)
     \/ ~CloseWaits /\ Return(TRUE) /\ UNCHANGED <<socket, freed, closed>>
  /\ UNCHANGED <<close, error, bucket, state, told, fault>>

\* What the program calls at the outset and in callbacks; after a fault there is no telling.
Program(fn) ==
  /\ \/ stack = <<>> /\ fn # "CloseOther"
     \/ Running("Callback", "start") /\ fn \in may.nested
  /\ Len(stack) < MaxDepth /\ socket = "open" /\ fault = None
  /\ \/ fn = "CloseHard" /\ \E c \in Conn \ freed :
          /\ stack # <<>> => Top.c = c
          /\ stack' = Append(stack, Frame("CloseHard", c))
     \/ fn = "CloseOther" /\ \E c \in Conn \ (freed \union {Top.c}) : stack' = Append(stack, Frame("CloseHard", c))
     \/ fn \in {"Think", "CloseSocket"} /\ stack' = Append(stack, Frame(fn, None))
  /\ UNCHANGED <<objects, ret, fault>>
-----------------------------------------------------------------------------
\* Seeded fault: a closed connection stays in the table.
StaysInTable(c) == state' = [state EXCEPT ![c] = "Closed"] /\ closed' = closed \union {c} /\ UNCHANGED bucket

\* gti2ConnectionClosed; TableRemove finds it, as no other function takes one out.
ConnectionClosed(c) ==
  /\ state' = [state EXCEPT ![c] = "Closed"]
  /\ \E i \in DOMAIN bucket : bucket[i] = c /\ bucket' = RemoveAt(bucket, i)
  /\ closed' = closed \union {c}

MayFree(c) == clevel[c] = 0

\* gti2FreeSocketConnection
FreeSocketConnection(c) ==
  IF MayFree(c) /\ c \in closed
  THEN freed' = freed \union {c} /\ closed' = closed \ {c}
  ELSE UNCHANGED <<freed, closed>>

Told(c) == told' = [told EXCEPT ![c] = @ + 1]

AlreadyClosed(c) == state[c] = "Closed"

(* gti2CloseConnection, hard *)
CloseHardStart ==
  /\ Running("CloseHard", "start") /\ socket = "open" /\ Top.c \notin freed
  /\ \/ /\ AlreadyClosed(Top.c) /\ Return(TRUE)
        /\ UNCHANGED objects
     \/ /\ ~AlreadyClosed(Top.c) /\ ConnectionClosed(Top.c)
        /\ \/ Continue("sent", 0) /\ UNCHANGED error
           \/ may.errors /\ ~error /\ error' = TRUE /\ Call("sent", "SocketError", None)
        /\ UNCHANGED <<socket, close, level, freed, clevel, told>>
  /\ UNCHANGED fault

CloseHardSent ==
  /\ Running("CloseHard", "sent") /\ socket = "open" /\ Top.c \notin freed
  /\ CallBack("told", Top.c) /\ Told(Top.c)
  /\ UNCHANGED <<socket, close, error, bucket, closed, freed, state, fault>>

CloseHardTold ==
  /\ Running("CloseHard", "told") /\ socket = "open" /\ Top.c \notin freed
  /\ FreeSocketConnection(Top.c) /\ Return(TRUE)
  /\ UNCHANGED <<socket, close, error, level, bucket, state, clevel, told, fault>>

(* gt2CloseAllConnectionsHard: TableMapSafe, from the last of the bucket to the first *)
MapStart ==
  /\ Running("CloseAll", "start") /\ socket = "open"
  /\ Continue("map", Len(bucket))
  /\ UNCHANGED <<objects, fault>>

MapOne ==
  /\ Running("CloseAll", "map") /\ socket = "open"
  /\ \/ Top.i = 0 /\ Return(TRUE)
     \/ /\ Top.i \in 1 .. Len(bucket)
        /\ stack' = Append(Append(Front(stack), Goto("map", Top.i - 1)), Frame("CloseHard", bucket[Top.i]))
        /\ UNCHANGED ret
  /\ UNCHANGED <<objects, fault>>

(* gt2CloseSocket *)
CloseSocketStart ==
  /\ Running("CloseSocket", "start") /\ socket = "open"
  /\ Call("closed", "CloseAll", None)
  /\ UNCHANGED <<objects, fault>>

CloseSocketClosed ==
  /\ Running("CloseSocket", "closed") /\ socket = "open"
  /\ DoCloseSocket /\ Return(TRUE)
  /\ UNCHANGED <<error, level, bucket, state, clevel, told, fault>>

(* gti2SocketError *)
SocketErrorStart ==
  /\ Running("SocketError", "start") /\ socket = "open"
  /\ Call("closed", "CloseAll", None)
  /\ UNCHANGED <<objects, fault>>

SocketErrorClosed ==
  /\ Running("SocketError", "closed") /\ socket = "open"
  /\ CallBack("told", None)
  /\ UNCHANGED <<socket, close, error, bucket, closed, freed, state, told, fault>>

SocketErrorTold ==
  /\ Running("SocketError", "told")
  /\ \/ ~ret /\ UNCHANGED <<socket, close, freed, closed>>
     \/ ret /\ socket = "open" /\ DoCloseSocket
  /\ Return(FALSE)
  /\ UNCHANGED <<error, level, bucket, state, clevel, told, fault>>

(* gt2Think: what has come, then each connection, then the closed ones *)
ThinkReceive ==
  /\ Running("Think", "start") /\ socket = "open"
  /\ \/ /\ Continue("connections", Len(bucket)) /\ UNCHANGED objects
     \/ \E c \in ToSet(bucket) :   \* a message of the program's
          /\ CallBack("received", c)
          /\ UNCHANGED <<socket, close, error, bucket, closed, freed, state, told>>
     \/ \E c \in ToSet(bucket) :   \* Closed, or what else ends a connection
          /\ ConnectionClosed(c) /\ CallBack("received", c) /\ Told(c)
          /\ UNCHANGED <<socket, close, error, freed>>
  /\ UNCHANGED fault

ThinkReceived ==
  /\ Running("Think", "received")
  /\ \/ ~ret /\ Return(FALSE)
     \/ ret /\ socket = "open" /\ Continue("start", 0)
  /\ UNCHANGED <<objects, fault>>

ThinkConnection ==
  /\ Running("Think", "connections") /\ socket = "open"
  /\ \/ Top.i = 0 /\ Continue("free", 0) /\ UNCHANGED objects
     \/ Top.i \in 1 .. Len(bucket) /\ Continue("connections", Top.i - 1) /\ UNCHANGED objects
     \/ /\ Top.i \in 1 .. Len(bucket) /\ state[bucket[Top.i]] = "Connecting"
        /\ LET c == bucket[Top.i] IN
           /\ ConnectionClosed(c) /\ Enter(c) /\ Told(c)
           /\ stack' = Append(Append(Front(stack), [Goto("timedOut", Top.i) EXCEPT !.c = c]), Frame("Callback", c))
        /\ UNCHANGED <<socket, close, error, freed, ret>>
  /\ UNCHANGED fault

ThinkTimedOut ==
  /\ Running("Think", "timedOut")
  /\ \/ ~ret /\ Return(FALSE) /\ UNCHANGED <<freed, closed>>
     \/ /\ ret /\ socket = "open" /\ Top.c \notin freed
        /\ FreeSocketConnection(Top.c)
        /\ stack' = Append(Front(stack), [Goto("connections", Top.i - 1) EXCEPT !.c = None]) /\ UNCHANGED ret
  /\ UNCHANGED <<socket, close, error, level, bucket, state, clevel, told, fault>>

ThinkFree ==
  /\ Running("Think", "free") /\ socket = "open"
  /\ LET gone == {c \in closed : MayFree(c)} IN freed' = freed \union gone /\ closed' = closed \ gone
  /\ Return(TRUE)
  /\ UNCHANGED <<socket, close, error, level, bucket, state, clevel, told, fault>>
-----------------------------------------------------------------------------
(* What the running frame uses next and is not there. *)
UsesSocket == ~(ret = FALSE /\ Top.pc \in {"received", "timedOut", "told"} /\ Top.fn # "CloseHard")
UseAfterFree ==
  /\ stack # <<>> /\ Top.fn # "Callback"
  /\ \/ socket = "freed" /\ UsesSocket /\ Fault("socket")
     \/ socket = "open" /\ Top.c # None /\ Top.c \in freed /\ UsesSocket /\ Fault("connection")
     \/ socket = "open" /\ Top.pc \in {"map", "connections"} /\ Top.i > Len(bucket) /\ Fault("element")

Step ==
  \/ \E fn \in Calls : Program(fn)
  \/ ReturnFromCallback
  \/ CloseHardStart \/ CloseHardSent \/ CloseHardTold
  \/ MapStart \/ MapOne \/ CloseSocketStart \/ CloseSocketClosed
  \/ SocketErrorStart \/ SocketErrorClosed \/ SocketErrorTold
  \/ ThinkReceive \/ ThinkReceived \/ ThinkConnection \/ ThinkTimedOut \/ ThinkFree
  \/ UseAfterFree

Next == Step /\ UNCHANGED may

Spec == Init /\ [][Next]_vars
-----------------------------------------------------------------------------
TypeOK ==
  /\ socket \in {"open", "freed"} /\ close \in BOOLEAN /\ error \in BOOLEAN /\ ret \in BOOLEAN
  /\ level \in 0 .. MaxDepth /\ clevel \in [Conn -> 0 .. MaxDepth]
  /\ ToSet(bucket) \subseteq Conn /\ closed \subseteq Conn /\ freed \subseteq Conn
  /\ state \in [Conn -> {"Connecting", "Connected", "Closed"}]
  /\ fault \in {None, "socket", "connection", "element"}

(***************************************************************************)
(* As long as the program only closes, in a callback, the connection it    *)
(* was called for, and the network does not fail, nothing is used that has *)
(* been given back or taken out.                                           *)
(***************************************************************************)
OnlyItsOwn == may.nested \subseteq {"CloseHard"} /\ ~may.errors
NothingUsedAfterFree == OnlyItsOwn => fault = None

(***************************************************************************)
(* What a callback was called with is there until it returns.              *)
(***************************************************************************)
KeptInCallback ==
  \A k \in DOMAIN stack : stack[k].fn = "Callback" => socket = "open" /\ stack[k].c \notin freed

(***************************************************************************)
(* gt2Main.h: a close in a callback is done "as soon as possible": no      *)
(* later than the return from gt2 to the program.                          *)
(***************************************************************************)
CloseIsDone == stack = <<>> /\ socket = "open" /\ fault = None => ~close

(***************************************************************************)
(* A connection is told of its end once.                                   *)
(***************************************************************************)
ToldOnce == \A c \in Conn : told[c] <= 1
-----------------------------------------------------------------------------
(***************************************************************************)
(* The inductive invariant: why nothing is used that is not there.         *)
(***************************************************************************)
Functions == Calls \union {"Callback", "CloseAll", "SocketError"}
Points == {"start", "sent", "told", "map", "closed", "received", "connections", "timedOut", "free"}
Frames == [fn : Functions, c : Conn \union {None}, pc : Points, i : Int]
Callbacks == {f \in Frames : f.fn = "Callback"}
CallbacksOf(c) == {f \in Callbacks : f.c = c}
Sending(c) == {f \in Frames : f.fn = "CloseHard" /\ f.pc = "sent" /\ f.c = c}
Places(s, S) == {k \in DOMAIN s : s[k] \in S}

\* After a fault nothing runs; a callback that called something had room for it.
StackInv ==
  /\ stack \in Seq(Frames) /\ told \in [Conn -> Nat]
  /\ fault # None => stack = <<>>
  /\ stack # <<>> => MaxDepth > 0
  /\ \A k \in DOMAIN stack : stack[k].fn = "Callback" /\ k < Len(stack) => k < MaxDepth
  /\ \A k \in DOMAIN stack : stack[k].fn = "CloseHard" => stack[k].c \in Conn

\* The table holds connections that are not Closed, once each; what is given back is Closed.
TableInv ==
  /\ bucket \in Seq(Conn)
  /\ \A i, j \in DOMAIN bucket : bucket[i] = bucket[j] => i = j
  /\ \A i \in DOMAIN bucket : state[bucket[i]] # "Closed"
  /\ \A c \in closed \union freed : state[c] = "Closed"

\* The levels count the callbacks that run, and what those need stays.
LevelInv ==
  /\ fault = None => /\ level = Cardinality(Places(stack, Callbacks))
                     /\ \A c \in Conn : clevel[c] = Cardinality(Places(stack, CallbacksOf(c)))
  /\ close /\ socket = "open" /\ fault = None => level > 0
  /\ KeptInCallback

\* Who closes a connection tells it, or is about to.
ToldInv ==
  \A c \in Conn :
    told[c] + Cardinality(Places(stack, Sending(c))) <= (IF state[c] = "Closed" THEN 1 ELSE 0)

\* How the functions call each other when the program is OnlyItsOwn: all that run are about one
\* connection, which is there, and a walk over the table has passed at most what is left of it.
Own(k) ==
  LET f == stack[k] IN
  /\ f.fn # "SocketError" /\ (f.fn \in {"Think", "CloseSocket"} => k = 1)
  /\ f.c \notin freed
  /\ f.fn \in {"CloseSocket", "CloseAll"} => f.c = None
  /\ f.fn = "Think" => f.c = None \/ f.pc = "timedOut"
  /\ f.fn = "CloseAll" =>
       /\ k = 2 /\ stack[1].fn = "CloseSocket"
       /\ k < Len(stack) => stack[k + 1].fn = "CloseHard"
  /\ f.fn = "CloseHard" /\ k > 1 =>
       \/ stack[k - 1].fn = "CloseAll"
       \/ stack[k - 1].fn = "Callback" /\ stack[k - 1].c = f.c
  /\ f.fn = "CloseHard" /\ f.pc # "start" => state[f.c] = "Closed"
  /\ f.pc = "timedOut" => f.c \in Conn /\ state[f.c] = "Closed" /\ f.i - 1 <= Len(bucket)
  /\ f.pc = "connections" => k = Len(stack) /\ f.i <= Len(bucket)
  /\ f.pc = "map" =>
       /\ f.fn = "CloseAll" /\ f.i <= Len(bucket)
       /\ k < Len(stack) /\ state[stack[k + 1].c] # "Closed" => f.i < Len(bucket)

OwnInv ==
  OnlyItsOwn =>
    /\ fault = None /\ ~close /\ ret /\ (socket = "freed" => stack = <<>>)
    /\ \A k \in DOMAIN stack : Own(k)
    /\ \A j, k \in DOMAIN stack : stack[j].c # None /\ stack[k].c # None => stack[j].c = stack[k].c

SocketsInv == TypeOK /\ may \in Permissions /\ StackInv /\ TableInv /\ LevelInv /\ ToldInv /\ OwnInv
=============================================================================
