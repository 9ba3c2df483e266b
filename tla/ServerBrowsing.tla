---------------------------- MODULE ServerBrowsing ----------------------------
(***************************************************************************)
(* The server browser (sb_serverbrowsing.c, sb_queryengine.c): the master  *)
(* server lists servers, and each is queried for its keys, or pinged, at   *)
(* most game.maxUpdates at once; the others wait in a second queue.        *)
(*                                                                         *)
(* A reply may be lost, late or doubled: every reply that was ever called  *)
(* for stays in wire and may come at any time, or never.  A reply is not   *)
(* matched with the query it answers, only with its server.  Time is not   *)
(* counted: the oldest queries may be too old at any Think.                *)
(***************************************************************************)
EXTENDS Naturals, Sequences, SequencesExt

CONSTANT Server

\* The bits of SBServer.state; "asked.x" is STATE_PENDINGx.
Pending == {"asked.basic", "asked.full", "asked.ping"}
Bit == Pending \union {"asked.challenge", "basic", "full", "ping"}
Packet == {"basic", "full", "ping", "challenge"}

\* What became of a server's last update.
Fate == {"none", "asked", "updated", "failed", "halted"}

\* The browser as the program sets it up, and what may be asked of it:
\*   servers        those the master may list
\*   maxUpdates     engine.maxupdates
\*   basicFields    engine.numserverkeys > 0: a basic query asks for these
\*   challenge      the game uses QR2_USE_QUERY_CHALLENGE
\*   stayConnected  the program does not disconnect when the list is complete, so the master may push
\*   deletes        the master or the program may delete servers while others are asked
\*   maxAux         bound on what the program itself asks for
Game ==
  [servers : SUBSET Server, maxUpdates : Nat \ {0}, basicFields : BOOLEAN, challenge : BOOLEAN,
   stayConnected : BOOLEAN, deletes : BOOLEAN, maxAux : Nat]

VARIABLES
  game,        \* its setup; it never changes
  listed,      \* the servers of the list
  direct,      \* those with UNSOLICITED_UDP_FLAG
  list,        \* SBServerList.state
  engine,      \* bits: SBServer.state; query, pending: the two queues; wire; last: of each server (history)
  dontUpdate,
  updated,     \* sbc_updatecomplete was told
  aux          \* updates the program asked for

vars == <<game, listed, direct, list, engine, dontUpdate, updated, aux>>

Init ==
  /\ game \in Game
  /\ listed = {} /\ list = "disconnected"
  /\ direct \in SUBSET game.servers
  /\ engine = [bits |-> [s \in Server |-> {}], query |-> <<>>, pending |-> <<>>, wire |-> {},
               last |-> [s \in Server |-> "none"]]
  /\ dontUpdate = FALSE /\ updated = FALSE /\ aux = 0

-----------------------------------------------------------------------------
(***************************************************************************)
(* The query engine, as functions of its state                             *)
(***************************************************************************)
Queued(e) == Range(e.query) \union Range(e.pending)

\* QEStartQuery: the query goes out, and may be answered.
Asks(bits) ==
  CASE "asked.ping" \in bits -> "ping"
    [] "asked.ping" \notin bits /\ "asked.challenge" \in bits -> "challenge"
    [] "asked.ping" \notin bits /\ "asked.challenge" \notin bits ->
         IF "asked.basic" \in bits THEN "basic" ELSE "full"

StartQuery(e, s) ==
  [e EXCEPT !.query = Append(@, s), !.wire = @ \union {<<s, Asks(e.bits[s])>>}]

\* SBQueryEngineUpdateServer.
UpdateServer(e, s, front, kind) ==
  LET asked == {kind} \union IF game.challenge /\ kind # "asked.ping" THEN {"asked.challenge"} ELSE {}
      f == [e EXCEPT !.bits[s] = (@ \ (Pending \union {"asked.challenge"})) \union asked,
                     !.last[s] = "asked"]
  IN IF Len(f.query) < game.maxUpdates THEN StartQuery(f, s)
     ELSE [f EXCEPT !.pending = IF front THEN <<s>> \o @ ELSE Append(@, s)]

\* FIFORemove: the first place of the server in the queue, if it has one.
FIFORemove(q, s) ==
  IF s \notin Range(q) THEN q
  ELSE RemoveAt(q, CHOOSE i \in DOMAIN q : q[i] = s /\ \A j \in 1 .. i - 1 : q[j] # s)

\* Seeded fault: only the queue of those under way is looked at.
RemoveFromQuery(e, s) == [e EXCEPT !.query = FIFORemove(@, s)]
\* SBQueryEngineRemoveServerFromFIFOs.
RemoveFromFIFOs(e, s) == [e EXCEPT !.query = FIFORemove(@, s), !.pending = FIFORemove(@, s)]

Answered(e, s, bits) ==
  [e EXCEPT !.bits[s] = bits, !.query = FIFORemove(@, s), !.last[s] = "updated"]

\* ParseSingleQR2Reply and ParseSingleICMPReply: what the packet is taken for
\* depends on what the server was asked last, not on the packet.
Reply(e, s, p) ==
  LET bits == e.bits[s] IN
  CASE p = "ping" -> Answered(e, s, (bits \ {"asked.ping"}) \union {"ping"})
    [] p # "ping" /\ "asked.challenge" \in bits ->
         StartQuery([e EXCEPT !.bits[s] = @ \ {"asked.challenge"}, !.query = FIFORemove(@, s)], s)
    [] p # "ping" /\ "asked.challenge" \notin bits ->
         Answered(e, s, (bits \ {"asked.basic", "asked.full"}) \union
           IF "asked.basic" \in bits THEN {"basic", "ping"} ELSE {"full", "basic", "ping"})

\* A reply to a ping carries the time of the ping; any other is read for its server.
Arrives(e, s, p) ==
  /\ <<s, p>> \in e.wire /\ s \in Range(e.query)
  /\ p = "ping" => "asked.ping" \in e.bits[s]

\* TimeoutOldQueries, for the n oldest.  (The bits of what was asked are cleared
\* in SBServer.flags, where they mean something else, and stay in its state.)
Timeout(e, n) ==
  [e EXCEPT !.query = SubSeq(@, n + 1, Len(@)),
            !.last = [s \in Server |-> IF s \in Range(SubSeq(e.query, 1, n)) THEN "failed" ELSE @[s]]]

\* QueueNextQueries.
QueueNext(e) ==
  LET room == IF Len(e.query) < game.maxUpdates THEN game.maxUpdates - Len(e.query) ELSE 0
      n == IF room < Len(e.pending) THEN room ELSE Len(e.pending)
      next == SubSeq(e.pending, 1, n)
  IN [e EXCEPT !.query = @ \o next, !.pending = SubSeq(@, n + 1, Len(@)),
               !.wire = @ \union {<<s, Asks(e.bits[s])>> : s \in Range(next)}]

\* SBQueryEngineThink: it reads one packet, or none; of several, each is read as
\* if it were in a Think of its own.  With no query under way it does nothing.
Think ==
  /\ engine.query # <<>>
  /\ \E read \in {engine} \union {Reply(engine, x[1], x[2]) : x \in {y \in engine.wire : Arrives(engine, y[1], y[2])}} :
       \E n \in 0 .. Len(read.query) : engine' = QueueNext(Timeout(read, n))
  /\ updated' = (updated \/ engine'.query = <<>>)
  /\ UNCHANGED <<game, listed, direct, list, dontUpdate, aux>>

-----------------------------------------------------------------------------
(***************************************************************************)
(* The list                                                                *)
(***************************************************************************)
\* ServerBrowserUpdate: a list is asked for.
BeginUpdate ==
  /\ list = "disconnected" /\ list' = "mainlist"
  /\ UNCHANGED <<game, listed, direct, engine, dontUpdate, updated, aux>>

\* slc_serveradded, for a server of the list or one that is pushed later.
Added(s) ==
  /\ listed' = listed \union {s}
  /\ engine' =
       IF engine.bits[s] \intersect Pending # {} \/ dontUpdate THEN engine
       ELSE UpdateServer(engine, s, FALSE,
              CASE s \notin direct -> "asked.ping"
                [] s \in direct /\ game.basicFields -> "asked.basic"
                [] s \in direct /\ ~game.basicFields -> "asked.full")

\* A server of the list.  (Keys that come with it do not matter: it has no ping,
\* and is asked all the same.)
ServerListed(s) ==
  /\ list \in {"mainlist", "connected"} /\ s \notin listed
  /\ Added(s)
  /\ UNCHANGED <<game, direct, list, dontUpdate, updated, aux>>

\* ProcessPushServer, for a server that is listed: the master knows its basic keys,
\* all of its keys, or none any more.
PushServer(s, known) ==
  /\ list = "connected" /\ s \in listed
  /\ engine' = [engine EXCEPT !.bits[s] = IF known = {} THEN @ \ {"basic", "full"} ELSE @ \union known]
  /\ UNCHANGED <<game, listed, direct, list, dontUpdate, updated, aux>>

\* slc_initiallistcomplete.
ListComplete ==
  /\ list = "mainlist"
  /\ list' = IF game.stayConnected THEN "connected" ELSE "disconnected"
  /\ updated' = (updated \/ listed = {} \/ engine.query = <<>>)
  /\ UNCHANGED <<game, listed, direct, engine, dontUpdate, aux>>

\* The connection to the master is lost in the middle of the list.
ListError ==
  /\ list \in {"mainlist", "connected"} /\ list' = "disconnected"
  /\ UNCHANGED <<game, listed, direct, engine, dontUpdate, updated, aux>>

\* slc_serverdeleted: the master says so, or the program calls ServerBrowserRemoveServer.
Freed(e, servers) ==
  [e EXCEPT !.bits = [s \in Server |-> IF s \in servers THEN {} ELSE @[s]],
            !.last = [s \in Server |-> IF s \in servers THEN "none" ELSE @[s]]]

DeleteServer(s) ==
  /\ game.deletes /\ s \in listed /\ listed' = listed \ {s}
  /\ engine' = Freed(IF engine.bits[s] \intersect Pending # {} THEN RemoveFromFIFOs(engine, s) ELSE engine, {s})
  /\ UNCHANGED <<game, direct, list, dontUpdate, updated, aux>>

\* SBEngineHaltUpdates and SBServerListDisconnect: nobody is asked any more, and
\* the bits of those who were stay.
Halted(e) ==
  [e EXCEPT !.query = <<>>, !.pending = <<>>,
            !.last = [s \in Server |-> IF s \in Queued(e) THEN "halted" ELSE @[s]]]
Halt ==
  /\ list' = "disconnected" /\ engine' = Halted(engine)
  /\ UNCHANGED <<game, listed, direct, dontUpdate, updated, aux>>

\* ServerBrowserClear; the servers are freed.
Clear ==
  /\ list' = "disconnected" /\ listed' = {}
  /\ engine' = Freed(Halted(engine), Server)
  /\ UNCHANGED <<game, direct, dontUpdate, updated, aux>>

-----------------------------------------------------------------------------
(***************************************************************************)
(* What the program asks for one server                                    *)
(***************************************************************************)
Wanted(full) == IF full THEN "asked.full" ELSE "asked.basic"

\* Seeded fault: a server that is queued already is queued again.
QueuedTwice(s, full) == engine' = UpdateServer(engine, s, TRUE, Wanted(full))
\* An engine query takes the server out of the queues and asks again.
AskAgain(s, full) == engine' = UpdateServer(RemoveFromFIFOs(engine, s), s, TRUE, Wanted(full))

\* ServerBrowserAuxUpdateServer, not waiting for the answer.  One that cannot be
\* reached directly is asked about at the master, which pushes the server again.
AuxUpdateServer(s, full) ==
  /\ s \in listed /\ aux < game.maxAux /\ aux' = aux + 1
  /\ dontUpdate' = FALSE
  /\ IF s \in direct THEN AskAgain(s, full) /\ UNCHANGED list
     ELSE list' = (IF list = "disconnected" THEN "connected" ELSE list) /\ UNCHANGED engine
  /\ UNCHANGED <<game, listed, direct, updated>>

\* ServerBrowserAuxUpdateIP.  One that is being asked, or was when a query failed,
\* is sbe_duplicateupdateerror, and so is one that is not in the list yet, for it
\* has just been asked; then dontUpdate stays TRUE, and what the list adds later
\* is not asked.
AuxUpdateIP(s, full) ==
  /\ aux < game.maxAux /\ aux' = aux + 1
  /\ listed' = listed \union {s}
  /\ LET duplicate == s \notin listed \/ engine.bits[s] \intersect Pending # {} IN
     /\ engine' = IF s \in listed /\ duplicate THEN engine ELSE UpdateServer(engine, s, TRUE, Wanted(full))
     /\ dontUpdate' = duplicate
  /\ direct' = IF s \in listed THEN direct ELSE direct \union {s}
  /\ UNCHANGED <<game, list, updated>>

Next ==
  \/ Think \/ BeginUpdate \/ ListComplete \/ ListError \/ Halt \/ Clear
  \/ \E s \in game.servers : ServerListed(s) \/ DeleteServer(s)
  \/ \E s \in game.servers, known \in {{}, {"basic"}, {"full"}} : PushServer(s, known)
  \/ \E s \in game.servers, full \in BOOLEAN : AuxUpdateServer(s, full) \/ AuxUpdateIP(s, full)

\* The program thinks until nothing is under way (.m:361-371); a query that is
\* not answered is too old in the end.
Progress == Think /\ engine' # engine
-----------------------------------------------------------------------------
TypeOK ==
  /\ game \in Game /\ listed \subseteq game.servers /\ direct \subseteq game.servers
  /\ list \in {"disconnected", "mainlist", "connected"}
  /\ {dontUpdate, updated} \subseteq BOOLEAN /\ aux \in 0 .. game.maxAux
  /\ engine \in [bits : [Server -> SUBSET Bit], query : Seq(Server), pending : Seq(Server),
                 wire : SUBSET (Server \X Packet), last : [Server -> Fate]]
  /\ Queued(engine) \subseteq listed

\* No server is queued twice, nobody is under way above the limit, and exactly
\* those queued are waited for: nobody is forgotten, and nobody is asked whom the
\* list no longer has (sb_queryengine.c:364-402, 704-713).
QueuesSound ==
  /\ IsInjective(engine.query \o engine.pending)
  /\ Len(engine.query) <= game.maxUpdates
  /\ \A s \in Server : engine.last[s] = "asked" <=> s \in Queued(engine)
  /\ \A s \in Queued(engine) : engine.bits[s] \intersect Pending # {}

\* The engine is idle again and again, and nobody is left in a queue.
NobodyWaitsForEver == []<>(engine.query = <<>> /\ engine.pending = <<>>)
=============================================================================
