------------------------------ MODULE MCBrowsing ------------------------------
(***************************************************************************)
(* How hosts are found, for TLC: the host that reports itself (Qr2) and    *)
(* answers in several packets (Qr2Reply), the list from the master         *)
(* (SbList), the browser that queries the servers of it (ServerBrowsing),  *)
(* and the search of the program that uses it (ClientSearch).  part says   *)
(* which of them a behaviour is about; the host then stays as it begins,   *)
(* and the variables of the others are 0.                                  *)
(***************************************************************************)
EXTENDS Qr2, Sequences, TLC
CONSTANTS
  Few, Many,   \* servers of a small list, and of a large one
  AtOnce,      \* updates at once for the large one
  AuxCalls,    \* bound on what the program asks for by itself
  Room, TypeRoom, Keys, Subs, MaxSize, SplitMax,   \* Qr2Reply
  Streams                                          \* SbList

VARIABLES
  part,
  pc,                                                                      \* of more than one
  size, type, key, sub, free, packet, sent, came, stored, overtaken,       \* Qr2Reply
  servers, direct, list, engine, dontUpdate, updated, aux, phase, wanted,  \* ServerBrowsing, ClientSearch
  stream, state, pstate, read, parsed, decrypted, expected, keys, values, taken   \* SbList

answer == <<size, type, key, sub, free, packet, sent, came, stored, overtaken>>
browser == <<servers, direct, list, engine, dontUpdate, updated, aux>>
search == <<phase, wanted>>
parser == <<stream, state, pstate, read, parsed, decrypted, expected, keys, values, taken>>
browsing == <<part, pc, vars, answer, browser, search, parser>>

Answer == INSTANCE Qr2Reply

\* Few servers, asked one at a time: with pushes and deletions; with challenges; and
\* for the search.  Many, several at a time.
OneByOne ==
  [servers |-> Few, maxUpdates |-> 1, basicFields |-> TRUE, challenge |-> FALSE,
   stayConnected |-> FALSE, deletes |-> FALSE, maxAux |-> AuxCalls]
Games ==
  [pushed |-> [OneByOne EXCEPT !.stayConnected = TRUE, !.deletes = TRUE],
   asked |-> [OneByOne EXCEPT !.basicFields = FALSE, !.challenge = TRUE],
   many |-> [OneByOne EXCEPT !.servers = Many, !.maxUpdates = AtOnce, !.maxAux = 0],
   search |-> OneByOne]
Browser == INSTANCE ClientSearch WITH Server <- Many, game <- Games[part], listed <- servers

Parser == INSTANCE SbList

\* A list of two servers with two keys and one popular value; and no list.
TwoStreams ==
  {[noList |-> FALSE, keys |-> 2, values |-> 1, servers |-> 2, size |-> 5,
    ends |-> <<3, 5, 6, 8, 9, 10, 12, 15, 17, 19, 22, 24>>],
   [noList |-> TRUE, keys |-> 0, values |-> 0, servers |-> 0, size |-> 4, ends |-> <<3, 5, 8, 10>>]}

ASSUME PartsAssumption ==
       /\ Qr2Assumption /\ Answer!ReplyAssumption /\ Parser!SbListAssumption
       /\ Few \subseteq Many /\ AtOnce \in Nat \ {0} /\ AuxCalls \in Nat

NoAnswer ==
  /\ size = 0 /\ type = 0 /\ key = 0 /\ sub = 0 /\ free = 0 /\ packet = 0 /\ sent = 0
  /\ came = 0 /\ stored = 0 /\ overtaken = 0
NoBrowser ==
  /\ servers = 0 /\ direct = 0 /\ list = 0 /\ engine = 0 /\ dontUpdate = 0 /\ updated = 0 /\ aux = 0
NoSearch == phase = 0 /\ wanted = 0
NoStream ==
  /\ stream = 0 /\ state = 0 /\ pstate = 0 /\ read = 0 /\ parsed = 0 /\ decrypted = 0
  /\ expected = 0 /\ keys = 0 /\ values = 0 /\ taken = 0

OnlyHost == pc = 0 /\ NoAnswer /\ NoBrowser /\ NoSearch /\ NoStream
OnlyBrowser == pc = 0 /\ NoAnswer /\ NoStream
OnlyStream == NoAnswer /\ NoBrowser /\ NoSearch

\* The browser by itself, and as the search uses it.
Alone == {"pushed", "asked", "many"}

Begins ==
  /\ Init
  /\ \/ part \in {"host", "told"} /\ OnlyHost
     \/ part = "answer" /\ Answer!Init /\ NoBrowser /\ NoSearch /\ NoStream
     \/ part \in Alone /\ Browser!Init /\ OnlyBrowser /\ NoSearch
     \/ part = "search" /\ Browser!SearchInit /\ OnlyBrowser
     \/ part = "list" /\ Parser!Init /\ OnlyStream

OfHost(p, A) == part = p /\ A /\ UNCHANGED <<part, pc, answer, browser, search, parser>>
OfAnswer(A) == part = "answer" /\ A /\ UNCHANGED <<part, vars, browser, search, parser>>
OfBrowser(A) == part \in Alone /\ UNCHANGED <<part, pc, vars, answer, search, parser>> /\ A
OfSearch(A) == part = "search" /\ UNCHANGED <<part, pc, vars, answer, parser>> /\ A
OfStream(A) == part = "list" /\ A /\ UNCHANGED <<part, vars, answer, browser, search>>

\* Heartbeats, challenges and one client message; and client messages alone.
Moves ==
  \/ OfHost("host", Next /\ newest' <= 1)
  \/ OfHost("told", \E m \in 1 .. Messages : ReceiveClientMessage(m))
  \/ OfAnswer(Answer!Next)
  \/ OfBrowser(Browser!Next)
  \/ OfSearch(Browser!SearchNext)
  \/ OfStream(Parser!Next)

\* A host that thinks while time passes; a program that thinks while it waits.
BrowsingSpec ==
  /\ Begins /\ [][Moves]_browsing
  /\ WF_browsing(OfHost("host", Think))
  /\ WF_browsing(OfHost("host", Passes))
  /\ WF_browsing(\/ part # "pushed" /\ OfBrowser(Browser!Progress)
                 \/ OfSearch(Browser!Updates))
  /\ WF_browsing(OfSearch(Browser!Goes))
-----------------------------------------------------------------------------
\* What each must keep, on its part: see the modules.
ArrivesWhole ==
  /\ part = "answer" => Answer!TypeOK /\ Answer!OneFinal /\ Answer!CompleteMeansWhole
  /\ part = "list" => Parser!TypeOK /\ Parser!TakenForWhatItIs /\ Parser!NothingLeft
QueuesSound ==
  /\ part \in DOMAIN Games => Browser!TypeOK /\ Browser!QueuesSound
  /\ part = "search" => Browser!SearchTypeOK
NobodyWaitsForEver ==
  /\ []<>(part = "host" => ~changed)
  /\ []<>(part = "host" => ~open \/ FreeSlots # {})
  /\ []<>(part \in {"asked", "many"} => engine.query = <<>> /\ engine.pending = <<>>)
  /\ (part = "search" /\ phase = "first") ~> (part = "search" /\ phase # "first")
  /\ (part = "search" /\ phase = "filtered") ~> (part = "search" /\ phase # "filtered")
=============================================================================
