---------------------------- MODULE ServerLifecycle ----------------------------
(***************************************************************************)
(* The server on which a player can be found, MultiplayerServerView-       *)
(* Controller: created by the main screen, shut down while its player      *)
(* calls somebody else, shut down and restarted when a match ends.         *)
(*                                                                         *)
(* createServer runs in a thread of its own until it sees isRunServer NO,  *)
(* and then shuts the server down.  lostConnection and others call         *)
(* shutDownServer on the main thread as well.  Both share the flags and    *)
(* qr2's one record; nothing is locked.                                    *)
(***************************************************************************)
EXTENDS Naturals, Sequences

CONSTANTS
  MaxCalls,    \* bound on what the player and the opponent do
  MaxThreads   \* bound on the threads of createServer that are alive at a time

LifecycleAssumption == MaxCalls \in Nat /\ MaxThreads \in Nat

VARIABLES
  server,   \* flags of each server object: isRunServer, neadRestart, pingStart
  main,     \* where the main thread is in shutDownServer
  thread,   \* the threads started for createServer
  query,    \* the sockets opened by qr2_init: the one in qr2's record, and those it forgot
  match,    \* what the player is in
  ended,    \* userEndMatch, opponentEndMatch
  calls,    \* how much has been done
  crossed   \* history: "server": a server started before another had been shut down;
            \* "twice": two were asked for; "early": one was shut down before it ran

vars == <<server, main, thread, query, match, ended, calls, crossed>>

Main == 0
None == 0
Threads == 1..MaxThreads
NoThread == [pc |-> "done", object |-> None]
Free == {t \in Threads : thread[t] = NoThread}
\* performSelectorInBackground: createServer of object o in a new thread, of which the
\* names are all alike.
Started(o) == [thread EXCEPT ![CHOOSE t \in Free : TRUE] = [pc |-> "created", object |-> o]]
Current == Len(server)      \* multiplayerServerViewController, 0 for nil
Object == [run |-> FALSE, restart |-> FALSE, ping |-> FALSE]
Runs == Current # None /\ server[Current].run
Restarts == Current # None /\ server[Current].restart

\* A call of shutDownServer begins on the main thread; a message to nil does nothing.
ShutDown == main' = [pc |-> IF Current = None THEN "idle" ELSE "stop", object |-> Current]

Init ==
  /\ server = <<>>
  /\ main = [pc |-> "idle", object |-> None]
  /\ thread = [t \in Threads |-> NoThread]
  /\ query = [open |-> FALSE, forgotten |-> 0]
  /\ match = "none"
  /\ ended = [user |-> FALSE, opponent |-> FALSE]
  /\ calls = 0
  /\ crossed = {}

Acts == main.pc = "idle" /\ calls < MaxCalls /\ calls' = calls + 1

-----------------------------------------------------------------------------
(***************************************************************************)
(* createServer, in its thread                                             *)
(***************************************************************************)
InServer(t) == thread[t].pc \notin {"created", "done"}

Goes(t, place) ==
  thread' = [thread EXCEPT ![t] = IF place = "done" THEN NoThread ELSE [@ EXCEPT !.pc = place]]

Create(t) ==
  /\ thread[t].pc = "created"
  /\ server' = [server EXCEPT ![thread[t].object].run = TRUE, ![thread[t].object].ping = FALSE]
  /\ Goes(t, "init")
  /\ crossed' = crossed \union (IF (\E u \in Threads : InServer(u)) \/ main.pc \in {"stop", "close"}
                                 THEN {"server"} ELSE {})
  /\ UNCHANGED <<main, query, match, ended, calls>>

QrInit(t) ==
  /\ thread[t].pc = "init"
  /\ query' = [open |-> TRUE, forgotten |-> query.forgotten + IF query.open THEN 1 ELSE 0]
  /\ Goes(t, "loop")
  /\ UNCHANGED <<server, main, match, ended, calls, crossed>>

LoopEnds(t) ==
  /\ thread[t].pc = "loop" /\ ~server[thread[t].object].run
  /\ Goes(t, "stop")
  /\ UNCHANGED <<server, main, query, match, ended, calls, crossed>>

(***************************************************************************)
(* shutDownServer of object o by actor a, the main thread or a server's,   *)
(* which is at place pc and goes on to place next.                         *)
(***************************************************************************)
Actor == {Main} \union Threads
PlaceOf(a) == IF a = Main THEN main.pc ELSE thread[a].pc
ObjectOf(a) == IF a = Main THEN main.object ELSE thread[a].object

Done(a) == IF a = Main THEN "idle" ELSE "done"

Proceeds(a, next) ==
  IF a = Main THEN main' = [main EXCEPT !.pc = next] /\ UNCHANGED thread
  ELSE Goes(a, next) /\ UNCHANGED main

Stop(a) ==
  /\ PlaceOf(a) = "stop"
  /\ server' = [server EXCEPT ![ObjectOf(a)].run = FALSE]
  /\ Proceeds(a, "close")
  /\ UNCHANGED <<query, match, ended, calls, crossed>>

\* Seeded fault: the query socket is not closed.
CloseNothing(a) ==
  /\ PlaceOf(a) = "close"
  /\ Proceeds(a, "restart")
  /\ UNCHANGED <<server, query, match, ended, calls, crossed>>

\* qr2_shutdown(NULL): the record goes with its socket.
Close(a) ==
  /\ PlaceOf(a) = "close"
  /\ query' = [query EXCEPT !.open = FALSE]
  /\ Proceeds(a, "restart")
  /\ UNCHANGED <<server, match, ended, calls, crossed>>

NoRestart(a) ==
  /\ PlaceOf(a) = "restart" /\ ~server[ObjectOf(a)].restart
  /\ Proceeds(a, Done(a))
  /\ UNCHANGED <<server, query, match, ended, calls, crossed>>

Restart(a) ==
  /\ PlaceOf(a) = "restart" /\ server[ObjectOf(a)].restart /\ Free # {}
  /\ IF a = Main THEN main' = [main EXCEPT !.pc = "reset"] /\ thread' = Started(ObjectOf(a))
     ELSE thread' = [Started(ObjectOf(a)) EXCEPT ![a].pc = "reset"] /\ UNCHANGED main
  /\ UNCHANGED <<server, query, match, ended, calls, crossed>>

Reset(a) ==
  /\ PlaceOf(a) = "reset"
  /\ server' = [server EXCEPT ![ObjectOf(a)].restart = FALSE]
  /\ Proceeds(a, Done(a))
  /\ UNCHANGED <<query, match, ended, calls, crossed>>

-----------------------------------------------------------------------------
(***************************************************************************)
(* The main thread                                                         *)
(***************************************************************************)
\* Seeded fault: the main screen starts a server whether or not one is running.
MatchEndedOnly == ended.user = ended.opponent

StartsServer == ~Runs /\ ~Restarts /\ ended.user = ended.opponent

\* The player is at the main screen or a list, not in a call or in a duel.
AtMenu == match = "none" \/ (match # "calling" /\ ended.user)

\* viewDidAppear of the main screen, after a match or any other screen.
Appear ==
  /\ main.pc = "idle" /\ AtMenu
  /\ IF StartsServer
     THEN /\ Acts /\ Free # {}
          /\ server' = Append(server, Object)
          /\ thread' = Started(Current + 1)
          /\ crossed' = crossed \union
               (IF \E t \in Threads : thread[t].pc = "created" THEN {"twice"} ELSE {})
     ELSE UNCHANGED <<server, thread, calls, crossed>>
  /\ UNCHANGED <<main, query, match, ended>>

\* A player is called from the list: the own server stops, a client starts.  The list is
\* reached from the main screen, which has appeared.
CallOpponent ==
  /\ AtMenu /\ Current # None /\ Acts
  /\ ShutDown
  /\ match' = "calling"
  /\ crossed' = crossed \union
       (IF \E t \in Threads : thread[t].pc \in {"created", "init"} THEN {"early"} ELSE {})
  /\ UNCHANGED <<server, thread, query, ended>>

\* The client has reached the server it called: matchStarted.
ClientConnected ==
  /\ match = "calling" /\ main.pc = "idle"
  /\ match' = "client"
  /\ ended' = [user |-> FALSE, opponent |-> FALSE]
  /\ UNCHANGED <<server, main, thread, query, calls, crossed>>

\* A server that can be found: its loop thinks on an open query socket.
Listed == query.open /\ \E t \in Threads : thread[t].pc = "loop" /\ server[thread[t].object].run

\* A client has reached this server: NETWORK_TIME, matchStarted.
GuestConnected ==
  /\ match = "none" /\ Listed /\ Acts
  /\ match' = "host"
  /\ ended' = [user |-> FALSE, opponent |-> FALSE]
  /\ server' = [server EXCEPT ![Current].ping = TRUE]
  /\ UNCHANGED <<main, thread, query, crossed>>

\* Seeded fault: lostConnection does not ask for a new server.
LostConnectionForGood ==
  /\ server' = IF Current = None THEN server ELSE [server EXCEPT ![Current].ping = FALSE]
  /\ ended' = [user |-> TRUE, opponent |-> FALSE]
  /\ ShutDown
  /\ match' = "none"

LostConnection ==
  /\ server' = IF Current = None THEN server
               ELSE [server EXCEPT ![Current].restart = TRUE, ![Current].ping = FALSE]
  /\ ended' = [user |-> TRUE, opponent |-> FALSE]
  /\ ShutDown
  /\ match' = "none"

\* The match is lost: no answer, no ping for too long, a call refused, the back button.
Loses ==
  /\ match \in {"calling", "client", "host"} /\ Acts
  /\ LostConnection
  /\ UNCHANGED <<thread, query, crossed>>

\* One of the players leaves: matchCanseled, NETWORK_DUEL_CANSEL.
Leaves(who, other) ==
  /\ match \in {"client", "host"} /\ ~ended[who] /\ Acts
  /\ IF ended[other]
     THEN LostConnection
     ELSE ended' = [ended EXCEPT ![who] = TRUE] /\ UNCHANGED <<server, main, match>>
  /\ UNCHANGED <<thread, query, crossed>>

\* Another player has logged in: the server's name changes.
Login ==
  /\ match = "none" /\ Acts
  /\ server' = IF Current = None THEN server ELSE [server EXCEPT ![Current].restart = TRUE]
  /\ ShutDown
  /\ UNCHANGED <<thread, query, match, ended, crossed>>

-----------------------------------------------------------------------------
Shuts(a) == Stop(a) \/ Close(a) \/ NoRestart(a) \/ Restart(a) \/ Reset(a)
ServerThread(t) == Create(t) \/ QrInit(t) \/ LoopEnds(t) \/ Shuts(t)
Players ==
  \/ CallOpponent \/ ClientConnected \/ GuestConnected \/ Loses \/ Login
  \/ Leaves("user", "opponent") \/ Leaves("opponent", "user")

Next == Appear \/ Players \/ Shuts(Main) \/ \E t \in Threads : ServerThread(t)

Spec == Init /\ [][Next]_vars

(***************************************************************************)
(* The threads and the main run loop go on; the main screen appears again  *)
(* and again.                                                              *)
(***************************************************************************)
FairSpec ==
  /\ Spec
  /\ WF_vars(Shuts(Main)) /\ WF_vars(Appear)
  /\ \A t \in Threads : WF_vars(ServerThread(t))
-----------------------------------------------------------------------------
Flags == [run : BOOLEAN, restart : BOOLEAN, ping : BOOLEAN]
ThreadPlaces == {"created", "init", "loop", "stop", "close", "restart", "reset", "done"}

TypeOK ==
  /\ server \in Seq(Flags)
  /\ main \in [pc : (ThreadPlaces \union {"idle"}) \ {"created", "init", "loop", "done"}, object : 0..Len(server)]
  /\ thread \in [Threads -> [pc : ThreadPlaces, object : 0..Len(server)]]
  /\ query \in [open : BOOLEAN, forgotten : Nat]
  /\ match \in {"none", "calling", "client", "host"}
  /\ ended \in [user : BOOLEAN, opponent : BOOLEAN]
  /\ calls \in 0..MaxCalls
  /\ crossed \subseteq {"server", "twice", "early"}

Alone == crossed = {}

(***************************************************************************)
(* One server runs at a time, and no query socket is forgotten, as long as *)
(* no server was started before the one before it had shut down.           *)
(***************************************************************************)
ServersApart ==
  Alone => /\ \A t, u \in Threads : InServer(t) /\ InServer(u) => t = u
           /\ query.forgotten = 0

(***************************************************************************)
(* A player who calls another one cannot be found, unless the call was made*)
(* while the server was still starting, or servers crossed.                *)
(***************************************************************************)
CallerNotListed ==
  (Alone /\ match \in {"calling", "client"} /\ main.pc = "idle") => ~Listed

(***************************************************************************)
(* A host in a match can notice that the other has gone: messageShow does  *)
(* nothing unless isRunServer and pingStart are set.                       *)
(***************************************************************************)
HostNoticesLoss == (Alone /\ match = "host") => Listed /\ Runs /\ server[Current].ping

(***************************************************************************)
(* Why: a server is asked to restart only while the main thread shuts it   *)
(* down, and only the present one; as long as servers do not cross, a      *)
(* query is open only under the one server that runs.                      *)
(***************************************************************************)
MainInv ==
  /\ main.pc # "idle" => Current # None /\ main.object = Current
  /\ \A t \in Threads : thread[t].pc # "done" => thread[t].object # None
  /\ \A o \in 1..Current : server[o].restart => o = Current /\ main.pc # "idle"
  /\ ~(ended.user /\ ended.opponent)

OneServer ==
  /\ \A t, u \in Threads : InServer(t) /\ InServer(u) => t = u
  /\ query.open => \E t \in Threads : thread[t].pc \in {"loop", "stop", "close"}
  /\ query.forgotten = 0
  /\ \A t \in Threads : thread[t].pc = "created" => thread[t].object = Current
  /\ \A o \in 1..Current : server[o].run => o = Current

\* What a call leaves of the caller's server, until the call or the match is over.
Called ==
  match \in {"calling", "client"} =>
    /\ \A t \in Threads : thread[t].pc \notin {"created", "init"}
    /\ \A o \in 1..Current : ~server[o].restart /\ (server[o].run => main.pc = "stop")

Hosting == match = "host" => main.pc = "idle" /\ Listed /\ Runs /\ server[Current].ping

LifecycleInv == MainInv /\ (Alone => OneServer /\ Called /\ Hosting)

Bounded == calls = MaxCalls \/ Free = {}

(***************************************************************************)
(* A player who is in no match is found again, unless servers crossed.     *)
(***************************************************************************)
CanBeFound == Listed \/ match # "none" \/ ~Alone \/ Bounded
=============================================================================
